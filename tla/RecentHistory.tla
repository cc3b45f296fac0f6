--------------------------- MODULE RecentHistory ---------------------------
(***************************************************************************)
(* The recent investigations of the demo frontend                          *)
(* (src/frontend/src/App.tsx, history.ts): every tab keeps the list in its *)
(* React state and mirrors it in one localStorage entry of the browser.    *)
(*                                                                         *)
(* An investigation is denoted by the number of its completion, so newer   *)
(* is greater.  The entry is written by this program only, so it parses;   *)
(* the storage itself may fail (quota, private mode) at any access.        *)
(***************************************************************************)
EXTENDS Naturals, Sequences, SequencesExt

CONSTANTS
  Tabs,
  HistoryLimit,   \* HISTORY_LIMIT
  MaxCompleted    \* bound on completed investigations

ASSUME HistoryAssumption == HistoryLimit \in Nat \ {0} /\ MaxCompleted \in Nat

VARIABLES
  storage,    \* localStorage[HISTORY_KEY]; no entry reads as an empty list
  entries,    \* per tab: history.entries
  notice,     \* per tab: whether history.notice tells of a failure
  inFlight,   \* per tab: inFlight.current
  captured,   \* per tab: the history.entries its pending submit() closed over
  shown,      \* per tab: run.status, or the investigation on display
  completed,  \* number of investigations completed so far
  cleared,    \* history: the investigations listed where a clear succeeded
  faulty      \* history: whether an access to the storage has failed

historyvars == <<storage, entries, notice, inFlight, captured, shown, completed, cleared, faulty>>

HistoryInit ==
  /\ storage = <<>>
  /\ entries = [t \in Tabs |-> <<>>]
  /\ notice = [t \in Tabs |-> FALSE]
  /\ inFlight = [t \in Tabs |-> FALSE]
  /\ captured = [t \in Tabs |-> <<>>]
  /\ shown = [t \in Tabs |-> 0]
  /\ completed = 0
  /\ cleared = {}
  /\ faulty = FALSE

\* entries.slice(0, HISTORY_LIMIT)
Recent(list) == SubSeq(list, 1, IF Len(list) < HistoryLimit THEN Len(list) ELSE HistoryLimit)
SetHistory(t, list, failed) ==
  /\ entries' = [entries EXCEPT ![t] = list]
  /\ notice' = [notice EXCEPT ![t] = failed]
  /\ faulty' = (faulty \/ failed)

\* loadHistory, as a tab starts or is reloaded; what the tab was doing is gone.  It also
\* drops repeated ids and sorts, which changes nothing in a list saveHistory wrote
\* (NoticesHonest).
Load(t, works) ==
  /\ SetHistory(t, IF works THEN Recent(storage) ELSE <<>>, ~works)
  /\ inFlight' = [inFlight EXCEPT ![t] = FALSE]
  /\ captured' = [captured EXCEPT ![t] = <<>>]
  /\ shown' = [shown EXCEPT ![t] = 0]
  /\ UNCHANGED <<storage, completed, cleared>>

\* submit() up to its await.
Submit(t) ==
  /\ ~inFlight[t]
  /\ inFlight' = [inFlight EXCEPT ![t] = TRUE]
  /\ captured' = [captured EXCEPT ![t] = entries[t]]
  /\ shown' = [shown EXCEPT ![t] = 0]
  /\ UNCHANGED <<storage, entries, notice, completed, cleared, faulty>>

Fail(t) ==
  /\ inFlight[t]
  /\ inFlight' = [inFlight EXCEPT ![t] = FALSE]
  /\ captured' = [captured EXCEPT ![t] = <<>>]
  /\ UNCHANGED <<storage, entries, notice, shown, completed, cleared, faulty>>

\* submit() after its await, with saveHistory.
Complete_FailureUntold(t, works) ==
  LET entry == completed + 1
      list == Recent(<<entry>> \o captured[t])
  IN  /\ inFlight[t]
      /\ completed < MaxCompleted
      /\ completed' = entry
      /\ inFlight' = [inFlight EXCEPT ![t] = FALSE]
      /\ captured' = [captured EXCEPT ![t] = <<>>]
      /\ storage' = IF works THEN list ELSE storage
      /\ entries' = [entries EXCEPT ![t] = list]
      /\ notice' = [notice EXCEPT ![t] = FALSE]
      /\ faulty' = (faulty \/ ~works)
      /\ shown' = [shown EXCEPT ![t] = entry]
      /\ UNCHANGED cleared

Complete(t, works) ==
  LET entry == completed + 1
      list == Recent(<<entry>> \o captured[t])
  IN  /\ inFlight[t]
      /\ completed < MaxCompleted
      /\ completed' = entry
      /\ inFlight' = [inFlight EXCEPT ![t] = FALSE]
      /\ captured' = [captured EXCEPT ![t] = <<>>]
      /\ storage' = IF works THEN list ELSE storage
      /\ SetHistory(t, list, ~works)
      /\ shown' = [shown EXCEPT ![t] = entry]
      /\ UNCHANGED cleared

OpenSaved(t, entry) ==
  /\ ~inFlight[t]
  /\ Contains(entries[t], entry)
  /\ shown' = [shown EXCEPT ![t] = entry]
  /\ UNCHANGED <<storage, entries, notice, inFlight, captured, completed, cleared, faulty>>

ReturnToDraft(t) ==
  /\ ~inFlight[t]
  /\ shown[t] # 0
  /\ shown' = [shown EXCEPT ![t] = 0]
  /\ UNCHANGED <<storage, entries, notice, inFlight, captured, completed, cleared, faulty>>

RemoveSaved_WhileInFlight(t, works) ==
  /\ entries[t] # <<>> \/ notice[t]
  /\ IF works
     THEN /\ storage' = <<>>
          /\ SetHistory(t, <<>>, FALSE)
          /\ cleared' = cleared \cup ToSet(storage) \cup ToSet(entries[t])
     ELSE SetHistory(t, entries[t], TRUE) /\ UNCHANGED <<storage, cleared>>
  /\ UNCHANGED <<inFlight, captured, shown, completed>>

\* removeSaved, with clearHistory, behind a button that needs something to clear.
RemoveSaved(t, works) ==
  /\ ~inFlight[t]
  /\ entries[t] # <<>> \/ notice[t]
  /\ IF works
     THEN /\ storage' = <<>>
          /\ SetHistory(t, <<>>, FALSE)
          /\ cleared' = cleared \cup ToSet(storage) \cup ToSet(entries[t])
     ELSE SetHistory(t, entries[t], TRUE) /\ UNCHANGED <<storage, cleared>>
  /\ UNCHANGED <<inFlight, captured, shown, completed>>

HistoryNext ==
  \E t \in Tabs :
    \/ Submit(t)
    \/ Fail(t)
    \/ ReturnToDraft(t)
    \/ \E entry \in 1..completed : OpenSaved(t, entry)
    \/ \E works \in BOOLEAN : Load(t, works) \/ Complete(t, works) \/ RemoveSaved(t, works)

HistorySpec == HistoryInit /\ [][HistoryNext]_historyvars

-----------------------------------------------------------------------------
(* Properties *)

\* With one tab, history that differs from what a reload would bring back is admitted
\* to by a notice, and either is a proper history: at most HISTORY_LIMIT investigations,
\* each once, newest first (saveHistory, clearHistory, loadHistory).
Newest(list) ==
  /\ Len(list) <= HistoryLimit
  /\ \A i \in 1..Len(list) : list[i] \in 1..completed
  /\ \A i \in 2..Len(list) : list[i] < list[i - 1]
NoticesHonest ==
  /\ Newest(storage)
  /\ \A t \in Tabs : Newest(entries[t]) /\ (~notice[t] => entries[t] = storage)

\* "This removes APILens history saved in this browser. You won't be able to reopen
\* those records after clearing" (RecentInvestigations.tsx): a record that was cleared is
\* never in storage again.  A pending submit() writes back the list it closed over before
\* its await; in one tab inFlight keeps that list from being cleared meanwhile, whatever
\* fails and whenever the tab is reloaded.  It does not reach a second tab.
ClearedForGood == cleared \cap ToSet(storage) = {}

\* "Retains five completed results" (README.md): as long as no access to the storage failed
\* and nothing was cleared, the newest completed investigations are in storage.
RetainsCompleted ==
  ~faulty /\ cleared = {} =>
    \A i \in 1..completed : i + HistoryLimit > completed => Contains(storage, i)
=============================================================================
