--------------------------- MODULE PeripheryProofs ---------------------------
(***************************************************************************)
(* The machines around the loop, each on its own.                          *)
(*                                                                         *)
(* inspect_api_spec's contract is complete, for every document: what has   *)
(* been followed and what is still to follow lie within what the operation *)
(* leads to, and leave nothing out (IInv).                                 *)
(*                                                                         *)
(* A call's output is usable, for all lengths: each rewriting retells the  *)
(* observations, and the last leaves items of bounded length (OutputInv).  *)
(*                                                                         *)
(* The frontend's history is honest in one tab, for any limit and number   *)
(* of investigations (HistoryInv), and what was cleared stays so           *)
(* (ClearedInv).                                                           *)
(***************************************************************************)
EXTENDS InspectApiSpec, FunctionOutput, RecentHistory, SequenceFacts, TLAPS

TypeInv ==
  /\ components \in SUBSET Names
  /\ references \in [Names -> SUBSET Names]
  /\ operation \in SUBSET Names
  /\ body \in operation \cup {None}
  /\ names \in SUBSET Names
  /\ relevant \in SUBSET Names
  /\ at \in {"called", "following", "built", "failed"}

\* Before the references are followed, and meanwhile.
Worklist ==
  /\ at = "called" => relevant = {}
  /\ at = "following" =>
       /\ relevant \subseteq components
       /\ names \cup relevant \subseteq Reachable
       /\ operation \subseteq names \cup relevant
       /\ \A n \in relevant : references[n] \subseteq names \cup relevant

IInv == TypeInv /\ Worklist /\ ContractIsComplete

-----------------------------------------------------------------------------
(* The operation's references are reachable, and so are those of a           *)
(* reachable schema.                                                         *)

LEMMA RootsReachable ==
  ASSUME TypeInv
  PROVE  operation \subseteq Reachable
BY DEF TypeInv, Reachable, Closed

LEMMA ReachableStep ==
  ASSUME TypeInv, NEW n \in Reachable, n \in components
  PROVE  references[n] \subseteq Reachable
<1>1. n \in Names BY DEF Reachable
<1>2. references[n] \subseteq Names BY <1>1 DEF TypeInv
<1>3. ASSUME NEW m \in references[n], NEW S \in SUBSET Names, Closed(S)
      PROVE  m \in S
  <2>1. n \in S BY <1>3 DEF Reachable
  <2> QED BY <2>1, <1>3 DEF Closed
<1> QED BY <1>2, <1>3 DEF Reachable

\* What a finished worklist has followed is the least closed set.
LEMMA FollowedIsReachable ==
  ASSUME TypeInv, Worklist, at = "following", names = {}
  PROVE  relevant = Reachable /\ relevant \subseteq components
<1>1. Closed(relevant) BY DEF Worklist, Closed
<1>2. Reachable \subseteq relevant BY <1>1 DEF Reachable, TypeInv
<1> QED BY <1>2 DEF Worklist

\* The document does not change, hence neither does what it leads to.
LEMMA SameDocument ==
  ASSUME UNCHANGED document
  PROVE  Reachable' = Reachable
BY DEF document, Reachable, Closed

-----------------------------------------------------------------------------
LEMMA InitInv == Init => IInv
BY DEF Init, IInv, TypeInv, Worklist, ContractIsComplete

LEMMA TypeStep ==
  ASSUME TypeInv, [Next]_vars
  PROVE  TypeInv'
<1> USE DEF TypeInv
<1>1. CASE UNCHANGED vars BY <1>1 DEF vars, document
<1>2. CASE NoDocument BY <1>2 DEF NoDocument, Returns, document
<1>3. CASE StartFollowing BY <1>3 DEF StartFollowing, document
<1>4. ASSUME NEW n \in Names, SkipKnown(n) PROVE TypeInv'
  BY <1>4 DEF SkipKnown, document
<1>5. ASSUME NEW n \in Names, FollowSchema(n) PROVE TypeInv'
  BY <1>5 DEF FollowSchema, document
<1>6. ASSUME NEW n \in Names, MissingSchema(n) PROVE TypeInv'
  BY <1>6 DEF MissingSchema, Returns, document
<1>7. CASE BuildContract BY <1>7 DEF BuildContract, Returns, document
<1> QED BY <1>1, <1>2, <1>3, <1>4, <1>5, <1>6, <1>7 DEF Next

LEMMA StepInv ==
  ASSUME IInv, [Next]_vars
  PROVE  IInv'
<1>t. TypeInv /\ TypeInv' BY TypeStep DEF IInv
<1>d. Reachable' = Reachable
  <2>1. UNCHANGED document
    BY DEF Next, vars, NoDocument, StartFollowing, SkipKnown, FollowSchema,
           MissingSchema, BuildContract, Returns
  <2> QED BY <2>1, SameDocument
<1> SUFFICES (Worklist /\ ContractIsComplete)' BY <1>t DEF IInv
<1>1. CASE UNCHANGED vars
  BY <1>1, <1>d DEF vars, document, IInv, Worklist, ContractIsComplete
<1>2. CASE NoDocument
  BY <1>2 DEF NoDocument, Returns, Worklist, ContractIsComplete
<1>3. CASE StartFollowing
  <2>1. relevant = {} BY <1>3 DEF StartFollowing, Worklist, IInv
  <2>2. operation \subseteq Reachable BY <1>t, RootsReachable
  <2> QED BY <1>3, <2>1, <2>2, <1>d
          DEF StartFollowing, Worklist, ContractIsComplete, document
<1>4. ASSUME NEW n \in Names, SkipKnown(n) PROVE (Worklist /\ ContractIsComplete)'
  BY <1>4, <1>d DEF SkipKnown, document, Worklist, ContractIsComplete, IInv
<1>5. ASSUME NEW n \in Names, FollowSchema(n) PROVE (Worklist /\ ContractIsComplete)'
  <2>1. n \in Reachable BY <1>5 DEF FollowSchema, Worklist, IInv
  <2>2. references[n] \subseteq Reachable
    BY <2>1, <1>t, <1>5, ReachableStep DEF FollowSchema
  <2>3. ContractIsComplete' BY <1>5 DEF FollowSchema, ContractIsComplete
  <2>4. Worklist'
    BY <1>5, <1>d, <2>1, <2>2 DEF FollowSchema, document, Worklist, IInv
  <2> QED BY <2>3, <2>4
<1>6. ASSUME NEW n \in Names, MissingSchema(n) PROVE (Worklist /\ ContractIsComplete)'
  <2>1. n \in Reachable /\ n \notin components
    BY <1>6 DEF MissingSchema, Worklist, IInv
  <2>2. ~(Reachable \subseteq components)' BY <2>1, <1>d, <1>6 DEF MissingSchema, Returns,
    document
  <2> QED BY <1>6, <2>2 DEF MissingSchema, Returns, Worklist, ContractIsComplete
<1>7. CASE BuildContract
  <2>1. relevant = Reachable /\ Reachable \subseteq components
    BY <1>7, <1>t, FollowedIsReachable DEF BuildContract, IInv
  <2>2. body \in components \cup {None}
    BY <2>1, <1>t, RootsReachable DEF TypeInv
  <2> QED BY <1>7, <2>1, <2>2, <1>d
          DEF BuildContract, Returns, document, Worklist, ContractIsComplete
<1> QED BY <1>1, <1>2, <1>3, <1>4, <1>5, <1>6, <1>7 DEF Next

\* Whatever the document and the order in which its references are followed, the
\* contract inspect_api_spec builds holds exactly what the operation leads to.
THEOREM InspectApiSpecIsComplete == Spec => []ContractIsComplete
<1>1. IInv => ContractIsComplete BY DEF IInv
<1> QED BY InitInv, StepInv, <1>1, PTL DEF Spec

-----------------------------------------------------------------------------
(* The frontend's history.  With one tab, nobody else writes its storage: what *)
(* the tab shows differs from it only when an access failed, of which a notice *)
(* tells; and as long as none did and nothing was cleared, it is the newest    *)
(* investigations, numbered downwards.                                         *)

\* The newest investigations of n, as many as there are up to the limit.
Full(list, n) ==
  /\ Len(list) = IF n < HistoryLimit THEN n ELSE HistoryLimit
  /\ \A i \in 1..Len(list) : list[i] = n + 1 - i

HistoryInv ==
  /\ completed \in Nat
  /\ storage \in Seq(Nat) /\ Newest(storage)
  /\ entries \in [Tabs -> Seq(Nat)] /\ captured \in [Tabs -> Seq(Nat)]
  /\ DOMAIN notice = Tabs /\ DOMAIN inFlight = Tabs
  /\ \A t \in Tabs :
       /\ Newest(entries[t])
       /\ notice[t] # TRUE => entries[t] = storage
       /\ notice[t] = TRUE => faulty = TRUE
       /\ inFlight[t] = TRUE => captured[t] = entries[t]
  /\ faulty # TRUE /\ cleared = {} => Full(storage, completed)

LEMMA RecentFacts ==
  ASSUME NEW list \in Seq(Nat)
  PROVE  /\ Recent(list) \in Seq(Nat)
         /\ Len(Recent(list)) = IF Len(list) < HistoryLimit THEN Len(list) ELSE HistoryLimit
         /\ \A i \in 1..Len(Recent(list)) : Recent(list)[i] = list[i]
<1>1. PICK n \in Nat : n = IF Len(list) < HistoryLimit THEN Len(list) ELSE HistoryLimit
  BY HistoryAssumption
<1>2. n <= Len(list) /\ Recent(list) = SubSeq(list, 1, n)
  BY <1>1, HistoryAssumption DEF Recent
<1>3. PICK s : s = SubSeq(list, 1, n)
  OBVIOUS
<1>4. s \in Seq(Nat) /\ Len(s) = n /\ \A i \in 1..n : s[i] = list[i]
  BY <1>2, <1>3
<1> QED
  BY <1>1, <1>2, <1>3, <1>4

\* A list saveHistory wrote is read back whole.
LEMMA RecentWhole ==
  ASSUME NEW list \in Seq(Nat), Len(list) <= HistoryLimit
  PROVE  Recent(list) = list
<1>1. PICK s : s = Recent(list)
  OBVIOUS
<1>2. s \in Seq(Nat) /\ Len(s) = Len(list) /\ \A i \in 1..Len(s) : s[i] = list[i]
  <2>1. /\ s \in Seq(Nat)
        /\ Len(s) = IF Len(list) < HistoryLimit THEN Len(list) ELSE HistoryLimit
        /\ \A i \in 1..Len(s) : s[i] = list[i]
    BY <1>1, RecentFacts
  <2>2. Len(s) = Len(list)
    BY <2>1, HistoryAssumption
  <2> QED
    BY <2>1, <2>2
<1> QED
  BY <1>1, <1>2, SameSequence

\* One more investigation goes to the head of the list.
LEMMA OneMoreEntry ==
  ASSUME NEW list \in Seq(Nat), NEW n \in Nat, Len(list) <= HistoryLimit,
         \A i \in 1..Len(list) : list[i] \in 1..n,
         \A i \in 2..Len(list) : list[i] < list[i - 1],
         NEW more, more = Recent(<<n + 1>> \o list)
  PROVE  /\ more \in Seq(Nat) /\ Len(more) <= HistoryLimit
         /\ \A i \in 1..Len(more) : more[i] \in 1..(n + 1)
         /\ \A i \in 2..Len(more) : more[i] < more[i - 1]
         /\ Full(list, n) => Full(more, n + 1)
<1>1. PICK m \in Nat : m = Len(list)
  OBVIOUS
<1>2. PICK whole : whole = <<n + 1>> \o list
  OBVIOUS
<1>3. /\ whole \in Seq(Nat) /\ Len(whole) = m + 1 /\ whole[1] = n + 1
      /\ \A i \in 2..(m + 1) : whole[i] = list[i - 1]
  BY <1>1, <1>2
<1>4. PICK k \in Nat : k = IF m + 1 < HistoryLimit THEN m + 1 ELSE HistoryLimit
  BY <1>1, HistoryAssumption
<1>5. k <= m + 1 /\ k <= HistoryLimit /\ k > 0
  BY <1>1, <1>4, HistoryAssumption
<1>6. more \in Seq(Nat) /\ Len(more) = k /\ \A i \in 1..k : more[i] = whole[i]
  <2>1. /\ Recent(whole) \in Seq(Nat)
        /\ Len(Recent(whole)) = IF Len(whole) < HistoryLimit THEN Len(whole) ELSE HistoryLimit
        /\ \A i \in 1..Len(Recent(whole)) : Recent(whole)[i] = whole[i]
    BY <1>3, RecentFacts
  <2>2. more = Recent(whole)
    BY <1>2
  <2>3. /\ more \in Seq(Nat)
        /\ Len(more) = IF Len(whole) < HistoryLimit THEN Len(whole) ELSE HistoryLimit
        /\ \A i \in 1..Len(more) : more[i] = whole[i]
    BY <2>1, <2>2
  <2>4. Len(more) = k
    BY <1>3, <1>4, <2>3
  <2> QED
    BY <2>3, <2>4
<1>7. more[1] = n + 1
  <2>1. 1 \in 1..k
    BY <1>5
  <2> QED
    BY <1>3, <1>6, <2>1
<1>8. ASSUME NEW i \in 2..k
      PROVE  i - 1 \in 1..m /\ i \in 1..k /\ i - 1 \in 1..k /\ more[i] = list[i - 1]
  <2>1. i - 1 \in 1..m /\ i \in 1..k /\ i - 1 \in 1..k /\ i \in 2..(m + 1)
    BY <1>5
  <2> QED
    BY <1>3, <1>6, <2>1
<1>9. ASSUME NEW i \in 1..k PROVE more[i] \in 1..(n + 1)
  <2>1. CASE i = 1
    BY <1>7, <2>1
  <2>2. CASE i # 1
    <3>1. i \in 2..k
      BY <2>2
    <3>2. list[i - 1] \in 1..n /\ more[i] = list[i - 1]
      BY <1>1, <1>8, <3>1
    <3> QED
      BY <3>2
  <2> QED
    BY <2>1, <2>2
<1>10. ASSUME NEW i \in 2..k PROVE more[i] < more[i - 1]
  <2>1. i - 1 \in 1..m /\ more[i] = list[i - 1]
    BY <1>8
  <2>2. CASE i = 2
    <3>1. list[1] \in 1..n /\ i - 1 = 1
      BY <1>1, <2>1, <2>2
    <3> QED
      BY <1>7, <2>1, <3>1
  <2>3. CASE i # 2
    <3>1. i - 1 \in 2..k /\ i - 1 \in 2..m /\ i - 1 - 1 = i - 2
      BY <2>1, <2>3
    <3>2. more[i - 1] = list[i - 1 - 1]
      BY <1>8, <3>1
    <3>3. list[i - 1] < list[i - 1 - 1]
      BY <1>1, <3>1
    <3> QED
      BY <2>1, <3>2, <3>3
  <2> QED
    BY <2>2, <2>3
<1>11. ASSUME Full(list, n) PROVE Full(more, n + 1)
  <2>1. /\ m = IF n < HistoryLimit THEN n ELSE HistoryLimit
        /\ \A i \in 1..m : list[i] = n + 1 - i
    BY <1>1, <1>11 DEF Full
  <2>2. k = IF n + 1 < HistoryLimit THEN n + 1 ELSE HistoryLimit
    BY <1>4, <2>1, HistoryAssumption
  <2>3. ASSUME NEW i \in 1..k PROVE more[i] = n + 1 + 1 - i
    <3>1. CASE i = 1
      BY <1>7, <3>1
    <3>2. CASE i # 1
      <4>1. i \in 2..k
        BY <3>2
      <4>2. list[i - 1] = n + 1 - (i - 1) /\ more[i] = list[i - 1]
        BY <1>8, <2>1, <4>1
      <4> QED
        BY <4>2
    <3> QED
      BY <3>1, <3>2
  <2> QED
    BY <1>6, <2>2, <2>3 DEF Full
<1> QED
  BY <1>5, <1>6, <1>9, <1>10, <1>11

LEMMA HistoryStarts ==
  ASSUME HistoryInit
  PROVE  HistoryInv
<1>1. \A list : list = <<>> => list \in Seq(Nat) /\ Newest(list) /\ Full(list, 0)
  BY HistoryAssumption DEF Newest, Full
<1> QED
  BY <1>1 DEF HistoryInit, HistoryInv

\* The tab shows the list, and tells of a failure if there was one.
LEMMA HistorySet ==
  ASSUME HistoryInv, NEW t, Tabs = {t}, NEW list \in Seq(Nat), NEW works \in BOOLEAN,
         SetHistory(t, list, ~works), completed' \in Nat,
         storage' \in Seq(Nat), Newest(storage)', Newest(list)',
         works = TRUE => storage' = list,
         DOMAIN inFlight' = Tabs, captured' \in [Tabs -> Seq(Nat)],
         inFlight'[t] = TRUE => captured'[t] = list,
         works = TRUE /\ faulty # TRUE /\ cleared' = {} => Full(storage', completed')
  PROVE  HistoryInv'
<1>1. /\ entries' \in [Tabs -> Seq(Nat)] /\ entries'[t] = list
      /\ DOMAIN notice' = Tabs
  BY DEF HistoryInv, SetHistory
<1>2. notice'[t] = ~works /\ faulty' = (faulty \/ ~works)
  BY DEF HistoryInv, SetHistory
<1>3. CASE works = TRUE
  <2>1. notice'[t] # TRUE
    BY <1>2, <1>3
  <2>2. faulty' # TRUE => faulty # TRUE
    BY <1>2
  <2> QED
    BY <1>1, <1>3, <2>1, <2>2 DEF HistoryInv
<1>4. CASE works # TRUE
  <2>1. faulty' = TRUE
    BY <1>2, <1>4
  <2>2. notice'[t] = TRUE
    BY <1>2, <1>4
  <2> QED
    BY <1>1, <2>1, <2>2 DEF HistoryInv
<1> QED
  BY <1>3, <1>4

LEMMA HistoryStep ==
  ASSUME HistoryInv, NEW t, Tabs = {t}, [HistoryNext]_historyvars
  PROVE  HistoryInv'
<1>1. CASE UNCHANGED <<storage, entries, notice, completed, cleared, faulty>>
           /\ DOMAIN inFlight' = Tabs /\ captured' \in [Tabs -> Seq(Nat)]
           /\ (inFlight'[t] = TRUE => captured'[t] = entries[t])
  BY <1>1 DEF HistoryInv, Newest
<1>2. CASE UNCHANGED historyvars
  BY <1>1, <1>2 DEF historyvars, HistoryInv
<1>3. CASE Submit(t)
  BY <1>1, <1>3 DEF Submit, HistoryInv
<1>4. CASE Fail(t)
  <2>1. DOMAIN inFlight' = Tabs /\ inFlight'[t] = FALSE
    BY <1>4 DEF Fail, HistoryInv
  <2>2. \A list : list = <<>> => list \in Seq(Nat)
    OBVIOUS
  <2>3. captured' \in [Tabs -> Seq(Nat)]
    BY <1>4, <2>2 DEF Fail, HistoryInv
  <2> QED
    BY <1>1, <1>4, <2>1, <2>3 DEF Fail
<1>5. CASE ReturnToDraft(t)
  BY <1>1, <1>5 DEF ReturnToDraft, HistoryInv
<1>6. ASSUME NEW entry \in 1..completed, OpenSaved(t, entry) PROVE HistoryInv'
  BY <1>1, <1>6 DEF OpenSaved, HistoryInv
<1>7. ASSUME NEW works \in BOOLEAN, Load(t, works) PROVE HistoryInv'
  <2>1. PICK list : list = IF works THEN Recent(storage) ELSE <<>>
    OBVIOUS
  <2>2. Recent(storage) = storage
    BY RecentWhole DEF HistoryInv, Newest
  <2>3. works = TRUE => list = storage
    BY <2>1, <2>2
  <2>4. works # TRUE => list = <<>>
    BY <2>1
  <2>5. list \in Seq(Nat) /\ Newest(list)
    <3>1. \A none : none = <<>> => none \in Seq(Nat) /\ Newest(none)
      BY HistoryAssumption DEF Newest
    <3> QED
      BY <2>3, <2>4, <3>1 DEF HistoryInv
  <2>6. UNCHANGED <<storage, completed, cleared>> /\ SetHistory(t, list, ~works)
    BY <1>7, <2>1 DEF Load
  <2>7. /\ DOMAIN inFlight' = Tabs /\ inFlight'[t] = FALSE
        /\ captured' \in [Tabs -> Seq(Nat)]
    <3>1. \A none : none = <<>> => none \in Seq(Nat)
      OBVIOUS
    <3> QED
      BY <1>7, <3>1 DEF Load, HistoryInv
  <2>8. Newest(storage)' /\ Newest(list)'
    BY <2>5, <2>6 DEF HistoryInv, Newest
  <2>9. /\ completed' \in Nat /\ storage' \in Seq(Nat)
        /\ faulty # TRUE /\ cleared' = {} => Full(storage', completed')
    BY <2>6 DEF HistoryInv
  <2> QED
    BY <2>3, <2>5, <2>6, <2>7, <2>8, <2>9, HistorySet
<1>8. ASSUME NEW works \in BOOLEAN, Complete(t, works) PROVE HistoryInv'
  <2>1. PICK list : list = Recent(<<completed + 1>> \o captured[t])
    OBVIOUS
  <2>2. /\ inFlight[t] = TRUE /\ captured[t] = entries[t] /\ completed \in Nat
        /\ entries[t] \in Seq(Nat) /\ Newest(entries[t])
    <3>1. inFlight[t]
      BY <1>8 DEF Complete
    <3>2. inFlight[t] = TRUE
      BY <3>1
    <3> QED
      BY <3>2 DEF HistoryInv
  <2>3. PICK old : old = entries[t]
    OBVIOUS
  <2>4. /\ list \in Seq(Nat) /\ Len(list) <= HistoryLimit
        /\ \A i \in 1..Len(list) : list[i] \in 1..(completed + 1)
        /\ \A i \in 2..Len(list) : list[i] < list[i - 1]
        /\ Full(old, completed) => Full(list, completed + 1)
    BY <2>1, <2>2, <2>3, OneMoreEntry DEF Newest
  <2>5. /\ completed' = completed + 1 /\ SetHistory(t, list, ~works) /\ UNCHANGED cleared
        /\ storage' = IF works THEN list ELSE storage
        /\ inFlight' = [inFlight EXCEPT ![t] = FALSE]
        /\ captured' = [captured EXCEPT ![t] = <<>>]
    BY <1>8, <2>1 DEF Complete
  <2>6. Newest(list)' /\ completed' \in Nat
    BY <2>2, <2>4, <2>5 DEF Newest
  <2>7. storage' \in Seq(Nat) /\ Newest(storage)'
    <3>1. \A i \in 1..Len(storage) : storage[i] \in 1..(completed + 1)
      BY <2>2 DEF HistoryInv, Newest
    <3>2. CASE works = TRUE
      BY <2>4, <2>5, <2>6, <3>2 DEF Newest
    <3>3. CASE works # TRUE
      <4>1. storage' = storage
        BY <2>5, <3>3
      <4> QED
        BY <2>5, <3>1, <4>1 DEF HistoryInv, Newest
    <3> QED
      BY <3>2, <3>3
  <2>8. works = TRUE => storage' = list
    BY <2>5
  <2>9. /\ DOMAIN inFlight' = Tabs /\ inFlight'[t] = FALSE
        /\ captured' \in [Tabs -> Seq(Nat)]
    <3>1. \A none : none = <<>> => none \in Seq(Nat)
      OBVIOUS
    <3> QED
      BY <2>5, <3>1 DEF HistoryInv
  <2>10. works = TRUE /\ faulty # TRUE /\ cleared' = {} => Full(storage', completed')
    <3> SUFFICES ASSUME works = TRUE, faulty # TRUE, cleared' = {}
                 PROVE  Full(list, completed + 1)
      BY <2>5, <2>8
    <3>1. notice[t] # TRUE /\ Full(storage, completed)
      BY <2>5 DEF HistoryInv
    <3>2. old = storage
      BY <2>3, <3>1 DEF HistoryInv
    <3> QED
      BY <2>4, <3>1, <3>2
  <2> QED
    BY <2>4, <2>5, <2>6, <2>7, <2>8, <2>9, <2>10, HistorySet
<1>9. ASSUME NEW works \in BOOLEAN, RemoveSaved(t, works) PROVE HistoryInv'
  <2>1. inFlight[t] # TRUE /\ UNCHANGED <<inFlight, captured, completed>>
    BY <1>9 DEF RemoveSaved
  <2>2. CASE works = TRUE
    <3>1. PICK list : list = <<>>
      OBVIOUS
    <3>2. list \in Seq(Nat) /\ Newest(list)
      BY <3>1, HistoryAssumption DEF Newest
    <3>3. /\ storage' = list /\ SetHistory(t, list, FALSE)
          /\ cleared' = cleared \cup ToSet(storage) \cup ToSet(entries[t])
      BY <1>9, <2>2, <3>1 DEF RemoveSaved
    <3>4. SetHistory(t, list, ~works)
      BY <2>2, <3>3
    <3>5. faulty # TRUE /\ cleared' = {} => Full(storage', completed')
      <4> SUFFICES ASSUME faulty # TRUE, cleared' = {} PROVE Full(list, completed)
        BY <2>1, <3>3
      <4>1. cleared = {} /\ ToSet(storage) = {}
        BY <3>3
      <4>2. Full(storage, completed) /\ storage \in Seq(Nat)
        BY <4>1 DEF HistoryInv
      <4>3. Len(storage) = 0
        <5>1. DOMAIN storage = 1..Len(storage) /\ Len(storage) \in Nat
          BY <4>2
        <5>2. Len(storage) # 0 => storage[1] \in ToSet(storage)
          BY <5>1 DEF ToSet
        <5> QED
          BY <4>1, <5>2
      <4>4. Len(list) = 0
        BY <3>1
      <4> QED
        BY <4>2, <4>3, <4>4 DEF Full
    <3>6. Newest(storage)' /\ Newest(list)' /\ storage' \in Seq(Nat) /\ completed' \in Nat
      BY <2>1, <3>2, <3>3 DEF Newest, HistoryInv
    <3>7. /\ DOMAIN inFlight' = Tabs /\ captured' \in [Tabs -> Seq(Nat)]
          /\ inFlight'[t] # TRUE
      BY <2>1 DEF HistoryInv
    <3> QED
      BY <3>2, <3>3, <3>4, <3>5, <3>6, <3>7, HistorySet
  <2>3. CASE works # TRUE
    <3>1. PICK list : list = entries[t]
      OBVIOUS
    <3>2. UNCHANGED <<storage, cleared>> /\ SetHistory(t, list, TRUE)
      BY <1>9, <2>3, <3>1 DEF RemoveSaved
    <3>3. SetHistory(t, list, ~works)
      BY <2>3, <3>2
    <3>4. list \in Seq(Nat) /\ Newest(list)
      BY <3>1 DEF HistoryInv
    <3>5. Newest(storage)' /\ Newest(list)' /\ storage' \in Seq(Nat) /\ completed' \in Nat
      BY <2>1, <3>2, <3>4 DEF Newest, HistoryInv
    <3>6. /\ DOMAIN inFlight' = Tabs /\ captured' \in [Tabs -> Seq(Nat)]
          /\ inFlight'[t] # TRUE
      BY <2>1 DEF HistoryInv
    <3> QED
      BY <2>3, <3>3, <3>4, <3>5, <3>6, HistorySet
  <2> QED
    BY <2>2, <2>3
<1> QED
  BY <1>2, <1>3, <1>4, <1>5, <1>6, <1>7, <1>8, <1>9 DEF HistoryNext

LEMMA HistoryInvariant ==
  ASSUME NEW t, Tabs = {t}
  PROVE  HistorySpec => []HistoryInv
<1>1. HistoryInit => HistoryInv
  BY HistoryStarts
<1>2. HistoryInv /\ [HistoryNext]_historyvars => HistoryInv'
  BY HistoryStep
<1> QED
  BY <1>1, <1>2, PTL DEF HistorySpec

\* In one tab, with any limit and any number of investigations, what is shown and not
\* stored is admitted to, and both are proper histories.
THEOREM NoticesAreHonest ==
  ASSUME NEW t, Tabs = {t}
  PROVE  HistorySpec => []NoticesHonest
<1>1. HistoryInv => NoticesHonest
  BY DEF HistoryInv, NoticesHonest
<1> QED
  BY <1>1, HistoryInvariant, PTL

\* And the newest of them are in storage, unless an access failed or they were cleared.
THEOREM CompletedAreRetained ==
  ASSUME NEW t, Tabs = {t}
  PROVE  HistorySpec => []RetainsCompleted
<1>1. HistoryInv => RetainsCompleted
  <2> SUFFICES ASSUME HistoryInv, ~faulty, cleared = {},
                      NEW i \in 1..completed, i + HistoryLimit > completed
               PROVE  Contains(storage, i)
    BY DEF RetainsCompleted
  <2>1. completed \in Nat /\ Full(storage, completed) /\ storage \in Seq(Nat)
    BY DEF HistoryInv
  <2>2. PICK k : k = completed + 1 - i
    OBVIOUS
  <2>3. k \in 1..Len(storage) /\ completed + 1 - k = i
    BY <2>1, <2>2, HistoryAssumption DEF Full
  <2>4. storage[k] = i
    BY <2>1, <2>3 DEF Full
  <2> QED
    BY <2>3, <2>4 DEF Contains
<1> QED
  BY <1>1, HistoryInvariant, PTL

\* Nothing that was cleared is in storage, and nothing on a tab's own list, from which a
\* pending submit() writes, is either; so nothing can put it back.
NotCleared(list) == \A i \in 1..Len(list) : list[i] \notin cleared
ClearedInv ==
  /\ cleared \subseteq 1..completed
  /\ NotCleared(storage)
  /\ \A u \in Tabs : NotCleared(entries[u])

LEMMA ClearedStep ==
  ASSUME HistoryInv, ClearedInv, NEW t, Tabs = {t}, [HistoryNext]_historyvars
  PROVE  ClearedInv'
<1>1. CASE UNCHANGED <<storage, entries, completed, cleared>>
  BY <1>1 DEF ClearedInv, NotCleared
<1>2. CASE UNCHANGED historyvars
  BY <1>1, <1>2 DEF historyvars
<1>3. CASE Submit(t)
  BY <1>1, <1>3 DEF Submit
<1>4. CASE Fail(t)
  BY <1>1, <1>4 DEF Fail
<1>5. CASE ReturnToDraft(t)
  BY <1>1, <1>5 DEF ReturnToDraft
<1>6. ASSUME NEW entry \in 1..completed, OpenSaved(t, entry) PROVE ClearedInv'
  BY <1>1, <1>6 DEF OpenSaved
<1>7. ASSUME NEW works \in BOOLEAN, Load(t, works) PROVE ClearedInv'
  <2>1. PICK list : list = IF works THEN Recent(storage) ELSE <<>>
    OBVIOUS
  <2>2. Recent(storage) = storage
    BY RecentWhole DEF HistoryInv, Newest
  <2>3. NotCleared(list)
    <3>1. \A none : none = <<>> => NotCleared(none)
      BY DEF NotCleared
    <3>2. CASE works = TRUE
      BY <2>1, <2>2, <3>2 DEF ClearedInv
    <3>3. CASE works # TRUE
      BY <2>1, <3>1, <3>3
    <3> QED
      BY <3>2, <3>3
  <2>4. UNCHANGED <<storage, completed, cleared>> /\ SetHistory(t, list, ~works)
    BY <1>7, <2>1 DEF Load
  <2>5. entries'[t] = list
    BY <2>4 DEF SetHistory, HistoryInv
  <2> QED
    BY <2>3, <2>4, <2>5 DEF ClearedInv, NotCleared
<1>8. ASSUME NEW works \in BOOLEAN, Complete(t, works) PROVE ClearedInv'
  <2>1. PICK list : list = Recent(<<completed + 1>> \o captured[t])
    OBVIOUS
  <2>2. /\ inFlight[t] = TRUE /\ captured[t] = entries[t] /\ completed \in Nat
        /\ entries[t] \in Seq(Nat)
    <3>1. inFlight[t]
      BY <1>8 DEF Complete
    <3>2. inFlight[t] = TRUE
      BY <3>1
    <3> QED
      BY <3>2 DEF HistoryInv
  <2>3. /\ completed' = completed + 1 /\ SetHistory(t, list, ~works) /\ UNCHANGED cleared
        /\ storage' = IF works THEN list ELSE storage
    BY <1>8, <2>1 DEF Complete
  <2>4. PICK old : old = entries[t]
    OBVIOUS
  <2>5. PICK whole : whole = <<completed + 1>> \o old
    OBVIOUS
  <2>6. /\ old \in Seq(Nat) /\ whole \in Seq(Nat)
        /\ \A i \in 1..Len(whole) : i # 1 => i - 1 \in 1..Len(old) /\ whole[i] = old[i - 1]
        /\ whole[1] = completed + 1 /\ Len(whole) \in Nat
    BY <2>2, <2>4, <2>5
  <2>7. completed + 1 \notin cleared
    BY <2>2 DEF ClearedInv
  <2>8. ASSUME NEW i \in 1..Len(whole) PROVE whole[i] \notin cleared
    BY <2>4, <2>6, <2>7 DEF ClearedInv, NotCleared
  <2>9. list = Recent(whole)
    BY <2>1, <2>2, <2>4, <2>5
  <2>10. /\ Len(list) <= Len(whole) /\ Len(list) \in Nat
         /\ \A i \in 1..Len(list) : list[i] = whole[i]
    <3>1. /\ Recent(whole) \in Seq(Nat)
          /\ Len(Recent(whole)) = IF Len(whole) < HistoryLimit THEN Len(whole) ELSE HistoryLimit
          /\ \A i \in 1..Len(Recent(whole)) : Recent(whole)[i] = whole[i]
      BY <2>6, RecentFacts
    <3>2. /\ list \in Seq(Nat)
          /\ Len(list) = IF Len(whole) < HistoryLimit THEN Len(whole) ELSE HistoryLimit
          /\ \A i \in 1..Len(list) : list[i] = whole[i]
      BY <2>9, <3>1
    <3> QED
      BY <2>6, <3>2, HistoryAssumption
  <2>11. NotCleared(list)
    <3> SUFFICES ASSUME NEW i \in 1..Len(list) PROVE list[i] \notin cleared
      BY DEF NotCleared
    <3>1. i \in 1..Len(whole) /\ list[i] = whole[i]
      BY <2>6, <2>10
    <3> QED
      BY <2>8, <3>1
  <2>12. entries'[t] = list
    BY <2>3 DEF SetHistory, HistoryInv
  <2>13. storage' = list \/ storage' = storage
    BY <2>3
  <2>14. cleared \subseteq 1..(completed + 1)
    BY <2>2 DEF ClearedInv
  <2> QED
    BY <2>3, <2>11, <2>12, <2>13, <2>14 DEF ClearedInv, NotCleared
<1>9. ASSUME NEW works \in BOOLEAN, RemoveSaved(t, works) PROVE ClearedInv'
  <2>1. UNCHANGED completed
    BY <1>9 DEF RemoveSaved
  <2>2. CASE works = TRUE
    <3>1. PICK list : list = <<>>
      OBVIOUS
    <3>2. Len(list) = 0
      BY <3>1
    <3>3. /\ storage' = list /\ SetHistory(t, list, FALSE)
          /\ cleared' = cleared \cup ToSet(storage) \cup ToSet(entries[t])
      BY <1>9, <2>2, <3>1 DEF RemoveSaved
    <3>4. entries'[t] = list
      BY <3>3 DEF SetHistory, HistoryInv
    <3>5. ToSet(storage) \subseteq 1..completed /\ ToSet(entries[t]) \subseteq 1..completed
      BY DEF HistoryInv, Newest, ToSet
    <3>6. cleared' \subseteq 1..completed'
      BY <2>1, <3>3, <3>5 DEF ClearedInv
    <3> QED
      BY <3>2, <3>3, <3>4, <3>6 DEF ClearedInv, NotCleared
  <2>3. CASE works # TRUE
    <3>1. UNCHANGED <<storage, cleared>> /\ SetHistory(t, entries[t], TRUE)
      BY <1>9, <2>3 DEF RemoveSaved
    <3>2. entries'[t] = entries[t]
      BY <3>1 DEF SetHistory, HistoryInv
    <3> QED
      BY <2>1, <3>1, <3>2 DEF ClearedInv, NotCleared
  <2> QED
    BY <2>2, <2>3
<1> QED
  BY <1>2, <1>3, <1>4, <1>5, <1>6, <1>7, <1>8, <1>9 DEF HistoryNext

\* In one tab a cleared record never returns to storage: a submission that is pending
\* keeps the history from being cleared, so the list it closed over stays good.
THEOREM ClearedStaysCleared ==
  ASSUME NEW t, Tabs = {t}
  PROVE  HistorySpec => []ClearedForGood
<1>1. HistoryInit => ClearedInv
  BY DEF HistoryInit, ClearedInv, NotCleared
<1>2. HistoryInv /\ ClearedInv /\ [HistoryNext]_historyvars => ClearedInv'
  BY ClearedStep
<1>3. HistoryInv /\ ClearedInv => ClearedForGood
  <2> SUFFICES ASSUME HistoryInv, ClearedInv PROVE ClearedForGood
    OBVIOUS
  <2>1. DOMAIN storage = 1..Len(storage)
    BY DEF HistoryInv
  <2> QED
    BY <2>1 DEF ClearedInv, NotCleared, ClearedForGood, ToSet
<1> QED
  BY <1>1, <1>2, <1>3, HistoryInvariant, PTL DEF HistorySpec

-----------------------------------------------------------------------------
(* The output of a call.  Shortening and reducing an item keep what it is; what *)
(* is left of it after both has a bounded length, escaped characters included,  *)
(* so that two such items fit any budget from LeastBudget on.                   *)

Text == [chars : Nat, width : {1, 6}]
ErrorItem == [type : {TypeLength}, message : Text, details : Nat \cup {Null}]
FailureItem == [tool_name : Text, data : {Null}, request_id : {Null}, error : ErrorItem]
SuccessItem == [tool_name : Text, data : Nat, error : {Null}, request_id : {Null} \cup Text]
Item == FailureItem \cup SuccessItem

ItemBound == 3740
LeastBudget == 46 + 2 * ItemBound

\* The same observation, told in other words.
Retells(o, p) ==
  /\ p \in Item
  /\ p.data = Null <=> o.data = Null
  /\ p.error = Null <=> o.error = Null
  /\ o.error # Null => p.error.type = o.error.type

LEMMA NullIsNoItem ==
  /\ \A s \in Text : s # Null
  /\ \A e \in ErrorItem : e # Null
<1>1. ASSUME NEW s \in Text PROVE s \in [chars : Nat, width : Nat]
  BY DEF Text
<1>2. ASSUME NEW e \in ErrorItem
      PROVE  e \in [type : Nat, message : [chars : Nat, width : Nat],
                    details : Nat \cup {Null}]
  <2>1. e.message \in [chars : Nat, width : Nat]
    BY <1>1 DEF ErrorItem
  <2> QED
    BY <2>1 DEF ErrorItem, TypeLength
<1> QED
  BY <1>1, <1>2, OutputAssumption

LEMMA CutText ==
  ASSUME NEW s \in Text, NEW n \in Nat
  PROVE  /\ Cut(s, n) \in Text
         /\ StringLength(Cut(s, n)) <= 2 + 6 * n /\ StringLength(Cut(s, n)) \in Nat
<1>1. PICK c \in Nat : c = IF s.chars > n THEN n ELSE s.chars
  BY DEF Text
<1>2. Cut(s, n) = [s EXCEPT !.chars = c]
  BY <1>1, NullIsNoItem DEF Cut
<1>3. PICK t : t = Cut(s, n)
  OBVIOUS
<1>4. t \in Text /\ t.chars = c /\ t.width \in {1, 6} /\ c <= n
  BY <1>1, <1>2, <1>3 DEF Text
<1>5. StringLength(t) = 2 + t.chars * t.width
  BY <1>4, NullIsNoItem DEF StringLength
<1>6. CASE t.width = 1
  BY <1>3, <1>4, <1>5, <1>6
<1>7. CASE t.width = 6
  BY <1>3, <1>4, <1>5, <1>7
<1> QED
  BY <1>4, <1>6, <1>7

\* What shortening and reducing make of a failure.
LEMMA FailureRetold ==
  ASSUME NEW o \in FailureItem
  PROVE  /\ Shortened(o) \in FailureItem /\ Retells(o, Shortened(o))
         /\ Reduced(o) \in FailureItem /\ Retells(o, Reduced(o))
         /\ ItemLength(Reduced(o)) \in Nat /\ ItemLength(Reduced(o)) <= ItemBound
<1>1. /\ o.error \in ErrorItem /\ o.error # Null /\ o.data = Null /\ o.request_id = Null
      /\ o.tool_name \in Text /\ o.error.message \in Text /\ o.error.type = TypeLength
  BY NullIsNoItem DEF FailureItem, ErrorItem
<1>2. PICK m : m = Cut(o.error.message, 500)
  OBVIOUS
<1>3. m \in Text /\ StringLength(m) <= 3002 /\ StringLength(m) \in Nat
  BY <1>1, <1>2, CutText
<1>4. PICK e : e = [o.error EXCEPT !.message = m]
  OBVIOUS
<1>5. e \in ErrorItem /\ e.type = TypeLength /\ e.message = m
  BY <1>1, <1>3, <1>4 DEF ErrorItem
<1>6. PICK s : s = [o EXCEPT !.data = Null, !.error = e]
  OBVIOUS
<1>7. Shortened(o) = s
  <2>1. Truncated(o.data) = Null
    BY <1>1 DEF Truncated
  <2>2. ShortMessage(o.error) = e
    BY <1>1, <1>2, <1>4 DEF ShortMessage
  <2> QED
    BY <1>6, <2>1, <2>2 DEF Shortened
<1>8. /\ s \in FailureItem /\ s.error = e /\ s.data = Null /\ s.request_id = Null
      /\ s.tool_name = o.tool_name
  BY <1>1, <1>5, <1>6 DEF FailureItem
<1>9. PICK d : d = [e EXCEPT !.details = Null]
  OBVIOUS
<1>10. d \in ErrorItem /\ d.type = TypeLength /\ d.message = m /\ d.details = Null
  BY <1>5, <1>9 DEF ErrorItem
<1>11. PICK n : n = Cut(o.tool_name, 100)
  OBVIOUS
<1>12. n \in Text /\ StringLength(n) <= 602 /\ StringLength(n) \in Nat
  <2>1. n \in Text /\ StringLength(n) <= 2 + 6 * 100 /\ StringLength(n) \in Nat
    BY <1>1, <1>11, CutText
  <2> QED
    BY <2>1
<1>13. PICK r : r = [s EXCEPT !.tool_name = n, !.request_id = Null, !.error = d]
  OBVIOUS
<1>14. e # Null /\ d # Null
  BY <1>5, <1>10, NullIsNoItem
<1>15. Cut(s.request_id, 100) = Null
  BY <1>8 DEF Cut
<1>16. Reduced(o) = r
  <2>1. WithoutDetails(e) = d
    BY <1>9, <1>14 DEF WithoutDetails
  <2> QED
    BY <1>7, <1>8, <1>11, <1>13, <1>15, <2>1 DEF Reduced
<1>17. /\ r \in FailureItem /\ r.error = d /\ r.data = Null /\ r.request_id = Null
       /\ r.tool_name = n
  BY <1>8, <1>10, <1>12, <1>13 DEF FailureItem
<1>18. ErrorLength(d) = 58 + StringLength(m)
  BY <1>3, <1>10, <1>14 DEF ErrorLength, TypeLength
<1>19. ItemLength(r) = 65 + StringLength(n) + 4 + ErrorLength(d) + 4 + 5
  BY <1>12, <1>14, <1>17, <1>18, <1>3 DEF ItemLength, DataLength, StringLength
<1>20. ItemLength(r) \in Nat /\ ItemLength(r) <= ItemBound
  BY <1>3, <1>12, <1>18, <1>19 DEF ItemBound
<1>21. Retells(o, s) /\ Retells(o, r)
  BY <1>1, <1>5, <1>8, <1>10, <1>14, <1>17 DEF Retells, Item
<1> QED
  BY <1>7, <1>8, <1>16, <1>17, <1>20, <1>21

\* And of a success.
LEMMA SuccessRetold ==
  ASSUME NEW o \in SuccessItem
  PROVE  /\ Shortened(o) \in SuccessItem /\ Retells(o, Shortened(o))
         /\ Reduced(o) \in SuccessItem /\ Retells(o, Reduced(o))
         /\ ItemLength(Reduced(o)) \in Nat /\ ItemLength(Reduced(o)) <= ItemBound
<1>1. /\ o.error = Null /\ o.data \in Nat /\ o.data # Null /\ o.tool_name \in Text
      /\ o.request_id = Null \/ o.request_id \in Text
  BY OutputAssumption DEF SuccessItem
<1>2. PICK s : s = [o EXCEPT !.data = 19, !.error = Null]
  OBVIOUS
<1>3. Shortened(o) = s
  BY <1>1, <1>2 DEF Shortened, Truncated, ShortMessage
<1>4. /\ s \in SuccessItem /\ s.error = Null /\ s.data = 19 /\ s.request_id = o.request_id
      /\ s.tool_name = o.tool_name
  BY <1>1, <1>2 DEF SuccessItem
<1>5. PICK n : n = Cut(o.tool_name, 100)
  OBVIOUS
<1>6. n \in Text /\ StringLength(n) <= 602 /\ StringLength(n) \in Nat
  BY <1>1, <1>5, CutText
<1>7. PICK i : i = Cut(o.request_id, 100)
  OBVIOUS
<1>8. i \in {Null} \cup Text /\ StringLength(i) <= 602 /\ StringLength(i) \in Nat
  <2>1. CASE o.request_id = Null
    BY <1>7, <2>1 DEF Cut, StringLength
  <2>2. CASE o.request_id \in Text
    BY <1>7, <2>2, CutText
  <2> QED
    BY <1>1, <2>1, <2>2
<1>9. PICK r : r = [s EXCEPT !.tool_name = n, !.request_id = i, !.error = Null]
  OBVIOUS
<1>10. Reduced(o) = r
  BY <1>3, <1>4, <1>5, <1>7, <1>9 DEF Reduced, WithoutDetails
<1>11. /\ r \in SuccessItem /\ r.error = Null /\ r.data = 19 /\ r.request_id = i
       /\ r.tool_name = n
  BY <1>4, <1>6, <1>8, <1>9 DEF SuccessItem
<1>12. 19 # Null
  BY OutputAssumption
<1>13. ItemLength(r) = 65 + StringLength(n) + 19 + 4 + StringLength(i) + 4
  BY <1>6, <1>8, <1>11, <1>12 DEF ItemLength, DataLength, ErrorLength
<1>14. ItemLength(r) \in Nat /\ ItemLength(r) <= ItemBound
  BY <1>6, <1>8, <1>13 DEF ItemBound
<1>15. Retells(o, s) /\ Retells(o, r)
  BY <1>1, <1>4, <1>11, <1>12 DEF Retells, Item
<1> QED
  BY <1>3, <1>4, <1>10, <1>11, <1>14, <1>15

LEMMA ItemRetold ==
  ASSUME NEW o \in Item
  PROVE  /\ Retells(o, Shortened(o)) /\ Retells(o, Reduced(o))
         /\ ItemLength(Reduced(o)) \in Nat /\ ItemLength(Reduced(o)) <= ItemBound
<1>1. CASE o \in FailureItem
  BY <1>1, FailureRetold
<1>2. CASE o \in SuccessItem
  BY <1>2, SuccessRetold
<1> QED
  BY <1>1, <1>2 DEF Item

LEMMA TextLength ==
  ASSUME NEW s \in {Null} \cup Text
  PROVE  StringLength(s) \in Nat
<1>1. CASE s = Null
  BY <1>1 DEF StringLength
<1>2. CASE s \in Text
  <2>1. s # Null /\ s.chars \in Nat /\ s.width \in {1, 6}
    BY <1>2, NullIsNoItem DEF Text
  <2>2. s.chars * s.width \in Nat
    BY <2>1
  <2> QED
    BY <2>1, <2>2 DEF StringLength
<1> QED
  BY <1>1, <1>2

LEMMA ItemsHaveLength ==
  ASSUME NEW o \in Item
  PROVE  ItemLength(o) \in Nat
<1>1. /\ o.tool_name \in Text /\ o.data \in {Null} \cup Nat
      /\ o.error \in {Null} \cup ErrorItem /\ o.request_id \in {Null} \cup Text
  BY DEF Item, FailureItem, SuccessItem
<1>2. StringLength(o.tool_name) \in Nat /\ StringLength(o.request_id) \in Nat
  BY <1>1, TextLength
<1>3. DataLength(o.data) \in Nat
  BY <1>1 DEF DataLength
<1>4. ErrorLength(o.error) \in Nat
  <2>1. CASE o.error = Null
    BY <2>1 DEF ErrorLength
  <2>2. CASE o.error \in ErrorItem
    <3>1. /\ o.error # Null /\ o.error.message \in Text /\ o.error.type \in Nat
          /\ o.error.details \in Nat \/ o.error.details = Null
      BY <2>2, NullIsNoItem DEF ErrorItem, TypeLength
    <3>2. StringLength(o.error.message) \in Nat
      BY <3>1, TextLength
    <3> QED
      BY <3>1, <3>2 DEF ErrorLength
  <2> QED
    BY <1>1, <2>1, <2>2
<1> QED
  BY <1>2, <1>3, <1>4 DEF ItemLength

\* The length of the text is the sum of its parts.
LEMMA LengthOfText ==
  ASSUME NEW s \in Seq(Item), Len(s) \in {1, 2}, NEW flag \in BOOLEAN
  PROVE  Length(s, flag)
           = IF Len(s) = 1 THEN 20 + (IF flag = TRUE THEN 24 ELSE 0) + ItemLength(s[1])
             ELSE 22 + (IF flag = TRUE THEN 24 ELSE 0) + ItemLength(s[1]) + ItemLength(s[2])
<1>1. PICK lengths : lengths = [i \in 1..Len(s) |-> ItemLength(s[i])]
  OBVIOUS
<1>2. Len(lengths) = Len(s) /\ \A i \in 1..Len(s) : lengths[i] = ItemLength(s[i])
  BY <1>1
<1>3. PICK f : Sums(f, lengths, Len(s)) /\ Total(lengths) = f[Len(s)]
  BY <1>2, TotalSums
<1>4. \A i \in 0..Len(s) : f[i] = IF i = 0 THEN 0 ELSE f[i - 1] + lengths[i]
  BY <1>3 DEF Sums
<1>5. /\ \A i \in 1..Len(s) : s[i] \in Item
      /\ \A i \in 1..Len(s) : lengths[i] \in Nat
  BY <1>2, ItemsHaveLength
<1>6. f[0] = 0 /\ f[1] = f[0] + lengths[1] /\ lengths[1] \in Nat
  <2>1. 0 \in 0..Len(s) /\ 1 \in 0..Len(s) /\ 1 \in 1..Len(s) /\ 1 - 1 = 0
    OBVIOUS
  <2> QED
    BY <1>4, <1>5, <2>1
<1>7. Length(s, flag) = 20 + (IF flag = TRUE THEN 24 ELSE 0) + f[Len(s)] + 2 * (Len(s) - 1)
  BY <1>1, <1>3 DEF Length
<1>8. CASE Len(s) = 1
  <2>1. lengths[1] = ItemLength(s[1])
    BY <1>2, <1>8
  <2> QED
    BY <1>6, <1>7, <1>8, <2>1
<1>9. CASE Len(s) = 2
  <2>1. 2 \in 0..Len(s) /\ 1 \in 1..Len(s) /\ 2 \in 1..Len(s) /\ 2 - 1 = 1
    BY <1>9
  <2>2. lengths[1] = ItemLength(s[1]) /\ lengths[2] = ItemLength(s[2]) /\ lengths[2] \in Nat
    BY <1>2, <1>5, <2>1
  <2>3. f[2] = f[1] + lengths[2]
    BY <1>4, <2>1
  <2> QED
    BY <1>6, <1>7, <1>9, <2>2, <2>3
<1> QED
  BY <1>8, <1>9

LEMMA FlagTakesRoom ==
  ASSUME NEW s \in Seq(Item), Len(s) \in {1, 2}, NEW yes \in BOOLEAN, NEW no \in BOOLEAN,
         yes = TRUE, no # TRUE
  PROVE  Length(s, yes) \in Nat /\ Length(s, no) \in Nat /\ Length(s, yes) > Length(s, no)
<1>1. ItemLength(s[1]) \in Nat /\ (Len(s) = 2 => ItemLength(s[2]) \in Nat)
  <2>1. s[1] \in Item /\ (Len(s) = 2 => s[2] \in Item)
    OBVIOUS
  <2> QED
    BY <2>1, ItemsHaveLength
<1>2. PICK a, b : a = Length(s, yes) /\ b = Length(s, no)
  OBVIOUS
<1>3. /\ a = IF Len(s) = 1 THEN 44 + ItemLength(s[1])
             ELSE 46 + ItemLength(s[1]) + ItemLength(s[2])
      /\ b = IF Len(s) = 1 THEN 20 + ItemLength(s[1])
             ELSE 22 + ItemLength(s[1]) + ItemLength(s[2])
  <2>1. a = IF Len(s) = 1 THEN 20 + (IF yes = TRUE THEN 24 ELSE 0) + ItemLength(s[1])
            ELSE 22 + (IF yes = TRUE THEN 24 ELSE 0) + ItemLength(s[1]) + ItemLength(s[2])
    BY <1>2, LengthOfText
  <2>2. b = IF Len(s) = 1 THEN 20 + (IF no = TRUE THEN 24 ELSE 0) + ItemLength(s[1])
            ELSE 22 + (IF no = TRUE THEN 24 ELSE 0) + ItemLength(s[1]) + ItemLength(s[2])
    BY <1>2, LengthOfText
  <2>3. (IF yes = TRUE THEN 24 ELSE 0) = 24 /\ (IF no = TRUE THEN 24 ELSE 0) = 0
    OBVIOUS
  <2> QED
    BY <1>1, <2>1, <2>2, <2>3
<1> QED
  BY <1>1, <1>2, <1>3

\* Reducing suffices.
LEMMA ReducedFits ==
  ASSUME NEW s \in Seq(Item), Len(s) \in {1, 2}, NEW flag \in BOOLEAN,
         NEW r, r = [i \in 1..Len(s) |-> Reduced(s[i])]
  PROVE  Length(r, flag) \in Nat /\ Length(r, flag) <= LeastBudget
<1>1. /\ Len(r) = Len(s)
      /\ \A i \in 1..Len(s) : s[i] \in Item /\ r[i] = Reduced(s[i])
  OBVIOUS
<1>2. \A i \in 1..Len(s) : /\ r[i] \in Item /\ ItemLength(r[i]) \in Nat
                           /\ ItemLength(r[i]) <= ItemBound
  BY <1>1, ItemRetold DEF Retells
<1>3. r \in Seq(Item)
  BY <1>1, <1>2
<1>4. /\ ItemLength(r[1]) \in Nat /\ ItemLength(r[1]) <= ItemBound
      /\ Len(s) = 2 => ItemLength(r[2]) \in Nat /\ ItemLength(r[2]) <= ItemBound
  BY <1>2
<1>5. Length(r, flag)
        = IF Len(r) = 1 THEN 20 + (IF flag = TRUE THEN 24 ELSE 0) + ItemLength(r[1])
          ELSE 22 + (IF flag = TRUE THEN 24 ELSE 0) + ItemLength(r[1]) + ItemLength(r[2])
  BY <1>1, <1>3, LengthOfText
<1> QED
  BY <1>1, <1>4, <1>5 DEF LeastBudget, ItemBound

LEMMA ObservationsAreItems ==
  ASSUME NEW s \in Observations
  PROVE  s \in Seq(Item) /\ Len(s) \in {1, 2}
<1>1. /\ \A l \in SUBSET Nat : Strings(l) \subseteq Text
      /\ ToolNames \subseteq Text
  BY OutputAssumption DEF Strings, ToolNames, Text
<1>2. /\ Strings(NameLengths) \subseteq Text /\ Strings(MessageLengths) \subseteq Text
      /\ Strings(IdLengths) \subseteq Text /\ DataLengths \subseteq Nat
      /\ DetailLengths \subseteq Nat
  BY <1>1, OutputAssumption
<1>3. \A t, d : t \subseteq Text /\ d \subseteq Nat \cup {Null}
                => Failures(t, d) \subseteq FailureItem
  BY <1>2 DEF Failures, FailureItem, ErrorItem
<1>4. Failures(Strings(NameLengths), {Null} \cup DetailLengths) \subseteq Item
  <2>1. {Null} \cup DetailLengths \subseteq Nat \cup {Null}
    BY <1>2
  <2> QED
    BY <1>2, <1>3, <2>1 DEF Item
<1>5. Failures(ToolNames, {Null}) \subseteq Item
  BY <1>1, <1>3 DEF Item
<1>6. ToolResults \subseteq Item
  BY <1>1, <1>2, <1>5 DEF ToolResults, Successes, Item, SuccessItem
<1>7. CASE \E o \in Failures(Strings(NameLengths), {Null} \cup DetailLengths)
                      \cup ToolResults : s = <<o>>
  BY <1>4, <1>6, <1>7
<1>8. CASE \E o \in Failures(ToolNames, {Null}), p \in ToolResults : s = <<o, p>>
  BY <1>5, <1>6, <1>8
<1>9. PICK T, F, R : /\ T = Failures(Strings(NameLengths), {Null} \cup DetailLengths)
                             \cup ToolResults
                     /\ F = Failures(ToolNames, {Null}) /\ R = ToolResults
  OBVIOUS
<1>10. s \in {<<o>> : o \in T} \cup {<<o, p>> : o \in F, p \in R}
  BY <1>9 DEF Observations
<1>11. (\E o \in T : s = <<o>>) \/ (\E o \in F, p \in R : s = <<o, p>>)
  BY <1>10
<1> QED
  BY <1>7, <1>8, <1>9, <1>11

OutputInv ==
  /\ given \in Seq(Item) /\ Len(given) \in {1, 2}
  /\ items \in Seq(Item) /\ Len(items) = Len(given)
  /\ \A i \in 1..Len(given) : Retells(given[i], items[i])
  /\ flagged \in BOOLEAN
  /\ flagged # TRUE => items = given
  /\ flagged = TRUE => Length(given, FALSE) > Budget
  /\ stage \in {"dumped", "shortened", "reduced", "returned"}
  /\ stage = "dumped" => flagged # TRUE
  /\ stage \in {"shortened", "reduced"} => flagged = TRUE
  /\ stage = "reduced" => Length(items, flagged) <= LeastBudget
  /\ stage = "returned" => Length(items, flagged) <= Budget

LEMMA OutputStarts ==
  ASSUME OInit
  PROVE  OutputInv
<1>1. given \in Seq(Item) /\ Len(given) \in {1, 2}
  BY ObservationsAreItems DEF OInit
<1>2. \A i \in 1..Len(given) : given[i] \in Item
  BY <1>1
<1> QED
  BY <1>1, <1>2 DEF OInit, OutputInv, Retells

LEMMA OutputRewritten ==
  ASSUME OutputInv, NEW to \in {"shortened", "reduced"}, NEW r \in Seq(Item),
         Len(r) = Len(items), \A i \in 1..Len(items) : Retells(items[i], r[i]),
         stage \in {"dumped", "shortened"}, stage' = to,
         TooLong, items' = r, flagged' = TRUE, UNCHANGED given,
         to = "reduced" => Length(r, flagged') <= LeastBudget
  PROVE  OutputInv'
<1>1. \A i \in 1..Len(given) : Retells(given[i], r[i])
  BY DEF OutputInv, Retells
<1>2. Length(given, FALSE) > Budget
  <2>1. CASE flagged = TRUE
    BY <2>1 DEF OutputInv
  <2>2. CASE flagged # TRUE
    <3>1. items = given /\ flagged = FALSE
      BY <2>2 DEF OutputInv
    <3> QED
      BY <3>1 DEF TooLong
  <2> QED
    BY <2>1, <2>2
<1> QED
  BY <1>1, <1>2 DEF OutputInv

LEMMA OutputStep ==
  ASSUME Budget >= LeastBudget, OutputInv, [ONext]_ovars
  PROVE  OutputInv'
<1>0. \A i \in 1..Len(items) : items[i] \in Item
  BY DEF OutputInv
<1>1. CASE Shorten
  <2>1. PICK r : r = [i \in 1..Len(items) |-> Shortened(items[i])]
    OBVIOUS
  <2>2. \A i \in 1..Len(items) : Retells(items[i], Shortened(items[i]))
    BY <1>0, ItemRetold
  <2>3. \A i \in 1..Len(items) : r[i] \in Item /\ Retells(items[i], r[i])
    BY <2>1, <2>2 DEF Retells
  <2>4. r \in Seq(Item) /\ Len(r) = Len(items)
    BY <2>1, <2>3 DEF OutputInv
  <2>5. /\ stage = "dumped" /\ stage' = "shortened" /\ TooLong /\ items' = r
        /\ flagged' = TRUE /\ UNCHANGED given
    BY <1>1, <2>1 DEF Shorten, Rewrite
  <2> QED
    BY <2>3, <2>4, <2>5, OutputRewritten
<1>2. CASE Reduce
  <2>1. PICK r : r = [i \in 1..Len(items) |-> Reduced(items[i])]
    OBVIOUS
  <2>2. \A i \in 1..Len(items) : Retells(items[i], Reduced(items[i]))
    BY <1>0, ItemRetold
  <2>3. \A i \in 1..Len(items) : r[i] \in Item /\ Retells(items[i], r[i])
    BY <2>1, <2>2 DEF Retells
  <2>4. r \in Seq(Item) /\ Len(r) = Len(items)
    BY <2>1, <2>3 DEF OutputInv
  <2>5. /\ stage = "shortened" /\ stage' = "reduced" /\ TooLong /\ items' = r
        /\ flagged' = TRUE /\ UNCHANGED given
    BY <1>2, <2>1 DEF Reduce, Rewrite
  <2>6. Length(r, flagged') <= LeastBudget
    BY <2>1, <2>5, ReducedFits DEF OutputInv
  <2> QED
    BY <2>3, <2>4, <2>5, <2>6, OutputRewritten
<1>3. CASE Return
  <2>1. stage' = "returned" /\ UNCHANGED <<given, items, flagged>>
    BY <1>3 DEF Return
  <2>2. Length(items, flagged) \in Nat
    <3>1. PICK yes \in BOOLEAN, no \in BOOLEAN : yes = TRUE /\ no # TRUE
      OBVIOUS
    <3>2. flagged = yes \/ flagged = no
      BY <3>1 DEF OutputInv
    <3>3. Length(items, yes) \in Nat /\ Length(items, no) \in Nat
      BY <3>1, FlagTakesRoom DEF OutputInv
    <3> QED
      BY <3>2, <3>3
  <2>3. Length(items, flagged) <= Budget
    <3>1. CASE TooLong
      <4>1. Length(items, flagged) <= LeastBudget
        BY <1>3, <3>1 DEF Return, OutputInv
      <4> QED
        BY <2>2, <4>1, OutputAssumption DEF LeastBudget, ItemBound
    <3>2. CASE ~TooLong
      BY <2>2, <3>2, OutputAssumption DEF TooLong
    <3> QED
      BY <3>1, <3>2
  <2> QED
    BY <2>1, <2>3 DEF OutputInv
<1>4. CASE UNCHANGED ovars
  BY <1>4 DEF ovars, OutputInv
<1> QED
  BY <1>1, <1>2, <1>3, <1>4 DEF ONext

\* Whatever the lengths, a call's output fits any budget of 7526 characters or more
\* (MAX_FUNCTION_OUTPUT_CHARS is 20000), tells every observation in its place, and says
\* that something is gone exactly when it is.
THEOREM OutputsAreUsable ==
  ASSUME Budget >= LeastBudget
  PROVE  OSpec => []OutputUsable
<1>1. OutputInv => OutputUsable
  <2> SUFFICES ASSUME OutputInv, stage = "returned"
               PROVE  /\ Length(items, flagged) <= Budget
                      /\ Len(items) = Len(given)
                      /\ \A i \in 1..Len(given) : Retells(given[i], items[i])
                      /\ flagged <=> items # given
                      /\ flagged <=> Length(given, FALSE) > Budget
    BY DEF OutputUsable, Retells
  <2>1. Length(items, flagged) <= Budget
    BY DEF OutputInv
  <2>2. CASE flagged = TRUE
    <3>1. PICK yes \in BOOLEAN, no \in BOOLEAN : yes = TRUE /\ no = FALSE
      OBVIOUS
    <3>2. Length(given, no) > Budget /\ Length(items, yes) <= Budget
      BY <2>1, <2>2, <3>1 DEF OutputInv
    <3>3. /\ Length(given, yes) \in Nat /\ Length(given, no) \in Nat
          /\ Length(given, yes) > Length(given, no)
      BY <3>1, FlagTakesRoom DEF OutputInv
    <3>4. items # given
      BY <3>2, <3>3, OutputAssumption
    <3> QED
      BY <2>1, <2>2, <3>1, <3>2, <3>4 DEF OutputInv
  <2>3. CASE flagged # TRUE
    <3>1. items = given /\ flagged = FALSE
      BY <2>3 DEF OutputInv
    <3>3. PICK no \in BOOLEAN, yes \in BOOLEAN : no = FALSE /\ yes = TRUE
      OBVIOUS
    <3>4. Length(given, no) \in Nat
      BY <3>3, FlagTakesRoom DEF OutputInv
    <3>2. Length(given, no) <= Budget
      BY <2>1, <3>1, <3>3
    <3>6. ~(Length(given, no) > Budget)
      BY <3>2, <3>4, OutputAssumption
    <3>5. ~(Length(given, FALSE) > Budget)
      BY <3>3, <3>6
    <3> QED
      BY <2>1, <3>1, <3>5 DEF OutputInv
  <2> QED
    BY <2>2, <2>3
<1>2. OInit => OutputInv
  BY OutputStarts
<1>3. OutputInv /\ [ONext]_ovars => OutputInv'
  BY OutputStep
<1> QED
  BY <1>1, <1>2, <1>3, PTL DEF OSpec
=============================================================================
