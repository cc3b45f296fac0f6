--------------------------- MODULE BaselineProofs ---------------------------
(***************************************************************************)
(* The safety of the experiment store and of the reports built from it,    *)
(* for any number of commands, cases and failures.  The lock makes one     *)
(* command at most live; so what a live command has found or done in its   *)
(* case (WorkInv) stays true until it goes on, and the files of each case  *)
(* (CaseInv) agree whenever it stops.                                      *)
(*                                                                         *)
(* A report holds no lock.  What it relies on is that committed files stay *)
(* as they are (StoreKeeps): so the rows it has read stay true of the store *)
(* (RecordHolds), however long ago it read them, and every report is a sum over *)
(* rows that are true.                                                     *)
(***************************************************************************)
EXTENDS BaselineReport, SequenceFacts, TLAPS

TypeInv ==
  /\ lock \in BOOLEAN
  /\ started \in [Cases -> BOOLEAN]
  /\ snapshot \in [Cases -> Nat]
  /\ judging \in [Cases -> Nat]
  /\ DOMAIN execution = Cases
  /\ DOMAIN verdict = Cases
  /\ DOMAIN at = Processes
  /\ DOMAIN outcome = Processes
  /\ case \in [Processes -> Cases]
  /\ sessions \in [Cases -> Nat]
  /\ judgments \in [Cases -> Nat]

\* How an execution that was not cut short ends.
FinalStates == {"RETURNED", "EXCEPTION", "SETUP_ERROR"}

\* The files of a case agree with each other and with what was paid for.
CaseInv(c) ==
  /\ sessions[c] <= 1
  /\ sessions[c] # 0 \/ snapshot[c] # 0 \/ execution[c] # None => started[c]
  /\ execution[c] # None =>
       /\ execution[c].snapshot = snapshot[c]
       /\ execution[c].state \in FinalStates \cup {"INTERRUPTED"}
       /\ execution[c].state = "RETURNED" => snapshot[c] # 0
  /\ judgments[c] <= 1
  /\ judgments[c] # 0 => judging[c] # 0
  /\ judging[c] # 0 \/ verdict[c] # {} => snapshot[c] # 0 /\ judging[c] = snapshot[c]

\* What a command at work knows of its case.
WorkInv(p) ==
  /\ at[p] \in {"setup", "running", "publish", "record"} =>
       started[case[p]] /\ execution[case[p]] = None
  /\ at[p] \in {"setup", "running", "publish"} => snapshot[case[p]] = 0
  /\ at[p] = "setup" => sessions[case[p]] = 0
  /\ at[p] = "running" => sessions[case[p]] = 1
  /\ at[p] \in {"publish", "record"} =>
       /\ outcome[p].run \in Nat
       /\ outcome[p].state \in FinalStates \cup {"INTERRUPTED"}
       /\ outcome[p].state = "RETURNED" => outcome[p].run # 0
  /\ at[p] = "record" => snapshot[case[p]] = outcome[p].run
  /\ at[p] = "judging" => judging[case[p]] # 0

StoreInv ==
  /\ TypeInv
  /\ OneWriter
  /\ \A c \in Cases : CaseInv(c)
  /\ \A p \in Processes : WorkInv(p)

FilesOf(c) ==
  <<started[c], snapshot[c], execution[c], judging[c], verdict[c], sessions[c],
    judgments[c]>>

-----------------------------------------------------------------------------
(* One command acts at a time *)

LEMMA InvInit == Init => StoreInv
<1> SUFFICES ASSUME Init PROVE StoreInv
  OBVIOUS
<1>1. 1 \in Cases
  BY BaselineAssumption DEF BaselineAssumption, Cases
<1>2. TypeInv
  BY <1>1 DEF Init, TypeInv
<1>3. OneWriter
  BY DEF Init, OneWriter, Live
<1>4. \A c \in Cases : CaseInv(c)
  BY DEF Init, CaseInv
<1>5. \A p \in Processes : WorkInv(p)
  BY DEF Init, WorkInv
<1> QED BY <1>2, <1>3, <1>4, <1>5 DEF StoreInv

\* A command that is at work moves on: the others are idle and stay so.
LEMMA StepOf ==
  ASSUME StoreInv, NEW p \in Processes, Live(p), NEW c, c = case[p],
         TypeInv',
         \A q \in Processes \ {p} : at'[q] = at[q],
         at'[p] # "idle" => lock',
         \A d \in Cases \ {c} : FilesOf(d)' = FilesOf(d),
         CaseInv(c)',
         WorkInv(p)'
  PROVE  StoreInv'
<1>1. \A q \in Processes \ {p} : at'[q] = "idle"
  BY DEF StoreInv, OneWriter, Live
<1>2. OneWriter'
  BY <1>1 DEF OneWriter, Live
<1>3. ASSUME NEW q \in Processes PROVE WorkInv(q)'
  BY <1>1 DEF WorkInv
<1>4. ASSUME NEW d \in Cases PROVE CaseInv(d)'
  <2>1. CASE d = c
    BY <2>1
  <2>2. CASE d # c
    BY <2>2 DEF FilesOf, StoreInv, CaseInv
  <2> QED BY <2>1, <2>2
<1> QED BY <1>2, <1>3, <1>4 DEF StoreInv

LEMMA MovesOne ==
  ASSUME TypeInv, NEW p \in Processes, NEW from, NEW to, Moves(p, from, to)
  PROVE  /\ DOMAIN at' = Processes
         /\ at[p] = from /\ at'[p] = to
         /\ \A q \in Processes \ {p} : at'[q] = at[q]
BY DEF TypeInv, Moves

LEMMA NextCaseFacts ==
  ASSUME StoreInv, NEW p \in Processes, Live(p), NEW loop, NextCase(p, loop)
  PROVE  /\ DOMAIN at' = Processes
         /\ at'[p] \in {"idle", loop}
         /\ \A q \in Processes \ {p} : at'[q] = at[q]
         /\ case' \in [Processes -> Cases]
         /\ lock' \in BOOLEAN
         /\ at'[p] # "idle" => lock'
<1>1. lock = TRUE
  BY DEF StoreInv, TypeInv, OneWriter
<1>2. case \in [Processes -> Cases] /\ DOMAIN at = Processes
  BY DEF StoreInv, TypeInv
<1>3. CASE case[p] < CaseCount
  <2>1. /\ at' = [at EXCEPT ![p] = loop]
        /\ case' = [case EXCEPT ![p] = @ + 1]
        /\ lock' = lock
    BY <1>3 DEF NextCase
  <2>2. case[p] + 1 \in Cases
    BY <1>2, <1>3, BaselineAssumption DEF BaselineAssumption, Cases
  <2> QED BY <1>1, <1>2, <2>1, <2>2
<1>4. CASE ~(case[p] < CaseCount)
  <2>1. at' = [at EXCEPT ![p] = "idle"] /\ lock' = FALSE /\ case' = case
    BY <1>4 DEF NextCase, Release
  <2> QED BY <1>2, <2>1
<1> QED BY <1>3, <1>4

\* A command goes to its next case, or ends, having written what keeps its case in order.
LEMMA StepToNextCase ==
  ASSUME StoreInv, NEW p \in Processes, Live(p), NEW c, c = case[p],
         NEW loop \in {"collect", "evaluate"}, NextCase(p, loop) \/ Release(p),
         started' \in [Cases -> BOOLEAN], snapshot' \in [Cases -> Nat],
         judging' \in [Cases -> Nat],
         DOMAIN execution' = Cases, DOMAIN verdict' = Cases,
         DOMAIN outcome' = Processes,
         sessions' = sessions, judgments' = judgments,
         \A d \in Cases \ {c} : FilesOf(d)' = FilesOf(d),
         CaseInv(c)'
  PROVE  StoreInv'
<1>1. /\ DOMAIN at' = Processes
      /\ at'[p] \in {"idle", loop}
      /\ \A q \in Processes \ {p} : at'[q] = at[q]
      /\ case' \in [Processes -> Cases]
      /\ lock' \in BOOLEAN
      /\ at'[p] # "idle" => lock'
  <2>1. CASE NextCase(p, loop)
    BY <2>1, NextCaseFacts
  <2>2. CASE Release(p)
    BY <2>2 DEF Release, StoreInv, TypeInv
  <2> QED BY <2>1, <2>2
<1>2. TypeInv'
  BY <1>1 DEF StoreInv, TypeInv
<1>3. WorkInv(p)'
  BY <1>1 DEF WorkInv
<1> QED BY <1>1, <1>2, <1>3, StepOf

-----------------------------------------------------------------------------
(* collect_runs *)

\* A step of the command at work that leaves all files alone.
LEMMA StepWithoutWriting ==
  ASSUME StoreInv, NEW p \in Processes, Live(p), NEW to, to # "idle",
         at' = [at EXCEPT ![p] = to],
         UNCHANGED <<lock, files, case, judgments>>,
         DOMAIN outcome' = Processes,
         sessions' \in [Cases -> Nat],
         \A d \in Cases \ {case[p]} : sessions'[d] = sessions[d],
         CaseInv(case[p])', WorkInv(p)'
  PROVE  StoreInv'
<1>0. PICK c \in Cases : c = case[p]
  BY DEF StoreInv, TypeInv
<1>1. /\ DOMAIN at' = Processes
      /\ at'[p] = to
      /\ \A q \in Processes \ {p} : at'[q] = at[q]
      /\ UNCHANGED <<lock, started, snapshot, execution, judging, verdict, case,
                     judgments>>
  BY DEF StoreInv, TypeInv, files
<1>2. lock'
  BY <1>1 DEF StoreInv, OneWriter
<1>3. TypeInv'
  BY <1>1 DEF StoreInv, TypeInv
<1>4. \A d \in Cases \ {c} : FilesOf(d)' = FilesOf(d)
  BY <1>0, <1>1 DEF FilesOf
<1>5. CaseInv(c)'
  BY <1>0, <1>1 DEF CaseInv
<1> QED BY <1>0, <1>1, <1>2, <1>3, <1>4, <1>5, StepOf

LEMMA StepSetUpFails ==
  ASSUME StoreInv, NEW p \in Processes, SetUpFails(p) PROVE StoreInv'
<1>1. PICK state \in {"SETUP_ERROR", "INTERRUPTED"} :
        outcome' = [outcome EXCEPT ![p] = [state |-> state, run |-> 0]]
  BY DEF SetUpFails, Outcome
<1>2. /\ at[p] = "setup" /\ at' = [at EXCEPT ![p] = "publish"] /\ Live(p)
      /\ UNCHANGED <<lock, files, case, judgments, sessions>>
      /\ UNCHANGED <<started, snapshot, execution, judging, verdict>>
  BY DEF SetUpFails, Moves, Live, history, files
<1>3. DOMAIN outcome' = Processes /\ outcome'[p] = [state |-> state, run |-> 0]
  BY <1>1 DEF StoreInv, TypeInv
<1>4. case[p] \in Cases /\ at'[p] = "publish" /\ sessions \in [Cases -> Nat]
  BY <1>2 DEF StoreInv, TypeInv
<1>5. CaseInv(case[p])'
  BY <1>2, <1>4 DEF StoreInv, CaseInv
<1>6. WorkInv(p)'
  BY <1>2, <1>3, <1>4 DEF StoreInv, WorkInv, FinalStates
<1> QED BY <1>2, <1>3, <1>4, <1>5, <1>6, StepWithoutWriting

LEMMA StepRunSession ==
  ASSUME StoreInv, NEW p \in Processes, RunSession(p) PROVE StoreInv'
<1>1. /\ at[p] = "setup" /\ at' = [at EXCEPT ![p] = "running"] /\ Live(p)
      /\ sessions' = [sessions EXCEPT ![case[p]] = @ + 1]
      /\ UNCHANGED <<lock, files, case, judgments, outcome>>
      /\ UNCHANGED <<started, snapshot, execution, judging, verdict>>
  BY DEF RunSession, Moves, Live, files
<1>2. /\ case[p] \in Cases /\ at'[p] = "running" /\ sessions \in [Cases -> Nat]
      /\ DOMAIN outcome' = Processes
  BY <1>1 DEF StoreInv, TypeInv
<1>3. sessions[case[p]] = 0 /\ started[case[p]] /\ execution[case[p]] = None
      /\ snapshot[case[p]] = 0
  BY <1>1 DEF StoreInv, WorkInv
<1>4. sessions'[case[p]] = 1 /\ sessions' \in [Cases -> Nat]
      /\ \A d \in Cases \ {case[p]} : sessions'[d] = sessions[d]
  BY <1>1, <1>2, <1>3
<1>5. CaseInv(case[p])'
  BY <1>1, <1>2, <1>3, <1>4 DEF StoreInv, CaseInv
<1>6. WorkInv(p)'
  BY <1>1, <1>2, <1>3, <1>4 DEF WorkInv
<1> QED BY <1>1, <1>2, <1>4, <1>5, <1>6, StepWithoutWriting

LEMMA StepSessionEnds ==
  ASSUME StoreInv, NEW p \in Processes, SessionReturns(p) \/ SessionFails(p)
  PROVE  StoreInv'
<1>1. /\ at[p] = "running" /\ at' = [at EXCEPT ![p] = "publish"] /\ Live(p)
      /\ UNCHANGED <<lock, files, case, judgments, sessions>>
      /\ UNCHANGED <<started, snapshot, execution, judging, verdict>>
  BY DEF SessionReturns, SessionFails, Moves, Live, history, files
<1>2. sessions[case[p]] = 1 /\ started[case[p]] /\ execution[case[p]] = None
      /\ snapshot[case[p]] = 0
  BY <1>1 DEF StoreInv, WorkInv
<1>3. PICK state \in {"RETURNED", "EXCEPTION", "INTERRUPTED"}, run \in {0, 1} :
        /\ outcome' = [outcome EXCEPT ![p] = [state |-> state, run |-> run]]
        /\ state = "RETURNED" => run # 0
  BY <1>2 DEF SessionReturns, SessionFails, Outcome
<1>4. DOMAIN outcome' = Processes /\ outcome'[p] = [state |-> state, run |-> run]
  BY <1>3 DEF StoreInv, TypeInv
<1>5. case[p] \in Cases /\ at'[p] = "publish" /\ sessions \in [Cases -> Nat]
  BY <1>1 DEF StoreInv, TypeInv
<1>6. CaseInv(case[p])'
  BY <1>1, <1>5 DEF StoreInv, CaseInv
<1>7. WorkInv(p)'
  BY <1>1, <1>2, <1>3, <1>4, <1>5 DEF WorkInv, FinalStates
<1> QED BY <1>1, <1>4, <1>5, <1>6, <1>7, StepWithoutWriting

LEMMA StepStartCase ==
  ASSUME StoreInv, NEW p \in Processes, StartCase(p) PROVE StoreInv'
<1>0. PICK c \in Cases : c = case[p]
  BY DEF StoreInv, TypeInv
<1>1. /\ at[p] = "collect" /\ at' = [at EXCEPT ![p] = "setup"] /\ Live(p)
      /\ execution[c] = None /\ ~started[c]
      /\ started' = [started EXCEPT ![c] = TRUE]
      /\ UNCHANGED <<lock, snapshot, execution, judging, verdict, case, outcome,
                     sessions, judgments>>
  BY <1>0 DEF StartCase, Moves, Live, history
<1>2. /\ c \in Cases /\ at'[p] = "setup" /\ started \in [Cases -> BOOLEAN]
      /\ sessions[c] \in Nat /\ snapshot[c] \in Nat
      /\ \A q \in Processes \ {p} : at'[q] = at[q]
  BY <1>1 DEF StoreInv, TypeInv
<1>3. CaseInv(c)
  BY <1>2 DEF StoreInv
<1>4. sessions[c] = 0 /\ snapshot[c] = 0
  BY <1>1, <1>2, <1>3 DEF CaseInv
<1>5. started'[c] /\ \A d \in Cases \ {c} : started'[d] = started[d]
  BY <1>1, <1>2
<1>6. TypeInv'
  BY <1>1, <1>2 DEF StoreInv, TypeInv
<1>7. lock'
  BY <1>1 DEF StoreInv, OneWriter
<1>8. \A d \in Cases \ {c} : FilesOf(d)' = FilesOf(d)
  BY <1>1, <1>5 DEF FilesOf
<1>9. CaseInv(c)'
  BY <1>1, <1>3, <1>5 DEF CaseInv
<1>10. WorkInv(p)'
  BY <1>0, <1>1, <1>2, <1>4, <1>5 DEF WorkInv
<1> QED BY <1>0, <1>1, <1>2, <1>6, <1>7, <1>8, <1>9, <1>10, StepOf

LEMMA StepPublishSnapshot ==
  ASSUME StoreInv, NEW p \in Processes, PublishSnapshot(p) PROVE StoreInv'
<1>0. PICK c \in Cases : c = case[p]
  BY DEF StoreInv, TypeInv
<1>1. /\ at[p] = "publish" /\ at' = [at EXCEPT ![p] = "record"] /\ Live(p)
      /\ UNCHANGED <<lock, started, execution, judging, verdict, case, outcome,
                     sessions, judgments>>
  BY DEF PublishSnapshot, Moves, Live, history
<1>2. /\ c \in Cases /\ at'[p] = "record" /\ snapshot \in [Cases -> Nat]
      /\ judging[c] \in Nat
      /\ \A q \in Processes \ {p} : at'[q] = at[q]
  BY <1>1 DEF StoreInv, TypeInv
<1>3. /\ snapshot[c] = 0 /\ started[c] /\ execution[c] = None
      /\ outcome[p].run \in Nat
      /\ outcome[p].state \in FinalStates \cup {"INTERRUPTED"}
      /\ outcome[p].state = "RETURNED" => outcome[p].run # 0
  BY <1>0, <1>1 DEF StoreInv, WorkInv
<1>4. /\ snapshot' \in [Cases -> Nat]
      /\ snapshot'[c] = outcome[p].run
      /\ \A d \in Cases \ {c} : snapshot'[d] = snapshot[d]
  BY <1>0, <1>2, <1>3 DEF PublishSnapshot
<1>5. TypeInv'
  BY <1>0, <1>1, <1>4 DEF StoreInv, TypeInv
<1>6. lock'
  BY <1>1 DEF StoreInv, OneWriter
<1>7. \A d \in Cases \ {c} : FilesOf(d)' = FilesOf(d)
  BY <1>1, <1>4 DEF FilesOf
<1>8. CaseInv(c)'
  <2>1. CaseInv(c)
    BY <1>2 DEF StoreInv
  <2>2. judging[c] = 0 /\ verdict[c] = {} /\ judgments[c] = 0
    BY <1>2, <1>3, <2>1 DEF CaseInv
  <2> QED BY <1>0, <1>1, <1>3, <2>1, <2>2 DEF CaseInv
<1>9. WorkInv(p)'
  BY <1>0, <1>1, <1>2, <1>3, <1>4 DEF WorkInv
<1> QED BY <1>0, <1>1, <1>2, <1>5, <1>6, <1>7, <1>8, <1>9, StepOf

\* execution.json is written: by the command at work, or by one that finds its case
\* started and not closed.
LEMMA StepCloses ==
  ASSUME StoreInv, NEW p \in Processes, Live(p),
         NEW state \in FinalStates \cup {"INTERRUPTED"},
         started[case[p]],
         state = "RETURNED" => snapshot[case[p]] # 0,
         execution' = [execution EXCEPT ![case[p]] =
                         [state |-> state, snapshot |-> snapshot[case[p]]]],
         NextCase(p, "collect") \/ Release(p),
         DOMAIN outcome' = Processes,
         UNCHANGED <<started, snapshot, judging, verdict, sessions, judgments>>
  PROVE  StoreInv'
<1>0. PICK c \in Cases : c = case[p]
  BY DEF StoreInv, TypeInv
<1>1. /\ c \in Cases
      /\ started \in [Cases -> BOOLEAN] /\ snapshot \in [Cases -> Nat]
      /\ judging \in [Cases -> Nat]
      /\ DOMAIN execution = Cases /\ DOMAIN verdict = Cases
  BY DEF StoreInv, TypeInv
<1>2. /\ DOMAIN execution' = Cases
      /\ execution'[c].state = state /\ execution'[c].snapshot = snapshot[c]
      /\ \A d \in Cases \ {c} : execution'[d] = execution[d]
  BY <1>0, <1>1
<1>3. CaseInv(c)'
  BY <1>0, <1>1, <1>2 DEF StoreInv, CaseInv
<1>4. \A d \in Cases \ {c} : FilesOf(d)' = FilesOf(d)
  BY <1>2 DEF FilesOf
<1> QED BY <1>0, <1>1, <1>2, <1>3, <1>4, StepToNextCase

LEMMA StepMarkInterrupted ==
  ASSUME StoreInv, NEW p \in Processes, MarkInterrupted(p) PROVE StoreInv'
<1>1. DOMAIN outcome' = Processes
  BY DEF MarkInterrupted, StoreInv, TypeInv
<1>2. Live(p) /\ started[case[p]] /\ NextCase(p, "collect")
      /\ UNCHANGED <<started, snapshot, judging, verdict, sessions, judgments>>
  BY DEF MarkInterrupted, Live, history
<1> DEFINE state == "INTERRUPTED"
<1>3. state # "RETURNED" /\ state \in FinalStates \cup {"INTERRUPTED"}
  OBVIOUS
<1> HIDE DEF state
<1>4. execution' = [execution EXCEPT ![case[p]] =
                     [state |-> state, snapshot |-> snapshot[case[p]]]]
  BY DEF MarkInterrupted, state
<1> QED BY <1>1, <1>2, <1>3, <1>4, StepCloses

LEMMA StepRecordExecution ==
  ASSUME StoreInv, NEW p \in Processes, RecordExecution(p) PROVE StoreInv'
<1>1. at[p] = "record" /\ Live(p)
  BY DEF RecordExecution, Live
<1>2. /\ started[case[p]]
      /\ outcome[p].run = snapshot[case[p]]
      /\ outcome[p].state \in FinalStates \cup {"INTERRUPTED"}
      /\ outcome[p].state = "RETURNED" => snapshot[case[p]] # 0
  BY <1>1 DEF StoreInv, WorkInv
<1>3. DOMAIN outcome' = Processes
  BY DEF RecordExecution, StoreInv, TypeInv
<1>4. NextCase(p, "collect") \/ Release(p)
  BY DEF RecordExecution
<1>5. execution' = [execution EXCEPT ![case[p]] =
                     [state |-> outcome[p].state, snapshot |-> snapshot[case[p]]]]
  BY <1>2 DEF RecordExecution
<1> QED BY <1>1, <1>2, <1>3, <1>4, <1>5, StepCloses DEF RecordExecution, history

-----------------------------------------------------------------------------
(* evaluate_saved *)

\* A case is passed over.
LEMMA StepSkips ==
  ASSUME StoreInv, NEW p \in Processes, Live(p),
         NEW loop \in {"collect", "evaluate"}, NextCase(p, loop),
         UNCHANGED <<files, outcome, history>>
  PROVE  StoreInv'
<1>1. UNCHANGED <<started, snapshot, execution, judging, verdict, sessions, judgments>>
  BY DEF files, history
<1>2. /\ case[p] \in Cases
      /\ started' \in [Cases -> BOOLEAN] /\ snapshot' \in [Cases -> Nat]
      /\ judging' \in [Cases -> Nat]
      /\ DOMAIN execution' = Cases /\ DOMAIN verdict' = Cases
      /\ DOMAIN outcome' = Processes
  BY <1>1 DEF StoreInv, TypeInv
<1>3. \A d \in Cases : FilesOf(d)' = FilesOf(d)
  BY <1>1 DEF FilesOf
<1>4. PICK c : c = case[p]
  OBVIOUS
<1>5. CaseInv(c)'
  BY <1>1, <1>2, <1>4 DEF StoreInv, CaseInv
<1> QED BY <1>1, <1>2, <1>3, <1>4, <1>5, StepToNextCase

\* A verdict, or that there will be none, is written for the run being judged.
LEMMA StepDecides ==
  ASSUME StoreInv, NEW p \in Processes, Live(p), NEW file,
         judging[case[p]] # 0,
         verdict' = [verdict EXCEPT ![case[p]] = @ \cup {file}],
         NextCase(p, "evaluate") \/ Release(p),
         UNCHANGED <<started, snapshot, execution, judging, outcome, history>>
  PROVE  StoreInv'
<1>0. PICK c \in Cases : c = case[p]
  BY DEF StoreInv, TypeInv
<1>1. /\ c \in Cases
      /\ started' \in [Cases -> BOOLEAN] /\ snapshot' \in [Cases -> Nat]
      /\ judging' \in [Cases -> Nat]
      /\ DOMAIN execution' = Cases /\ DOMAIN verdict = Cases
      /\ DOMAIN outcome' = Processes
      /\ sessions' = sessions /\ judgments' = judgments
  BY DEF StoreInv, TypeInv, history
<1>2. DOMAIN verdict' = Cases /\ \A d \in Cases \ {c} : verdict'[d] = verdict[d]
  BY <1>0, <1>1
<1>3. CaseInv(c)'
  <2>1. CaseInv(c)
    BY <1>1 DEF StoreInv
  <2> QED BY <1>0, <1>1, <2>1 DEF CaseInv
<1>4. \A d \in Cases \ {c} : FilesOf(d)' = FilesOf(d)
  BY <1>1, <1>2 DEF FilesOf
<1> QED BY <1>0, <1>1, <1>2, <1>3, <1>4, StepToNextCase

LEMMA StepStartJudging ==
  ASSUME StoreInv, NEW p \in Processes, StartJudging(p) PROVE StoreInv'
<1>0. PICK c \in Cases : c = case[p]
  BY DEF StoreInv, TypeInv
<1>1. /\ at[p] = "evaluate" /\ at' = [at EXCEPT ![p] = "judging"] /\ Live(p)
      /\ judging[c] = 0 /\ snapshot[c] # 0
      /\ judging' = [judging EXCEPT ![c] = snapshot[c]]
      /\ judgments' = [judgments EXCEPT ![c] = @ + 1]
      /\ UNCHANGED <<lock, started, snapshot, execution, verdict, case, outcome,
                     sessions>>
  BY <1>0 DEF StartJudging, Moves, Live
<1>2. /\ c \in Cases /\ at'[p] = "judging"
      /\ judging \in [Cases -> Nat] /\ judgments \in [Cases -> Nat]
      /\ snapshot[c] \in Nat
      /\ \A q \in Processes \ {p} : at'[q] = at[q]
  BY <1>1 DEF StoreInv, TypeInv
<1>3. CaseInv(c)
  BY <1>2 DEF StoreInv
<1>4. judgments[c] = 0
  BY <1>1, <1>2, <1>3 DEF CaseInv
<1>5. /\ judging' \in [Cases -> Nat] /\ judgments' \in [Cases -> Nat]
      /\ judging'[c] = snapshot[c] /\ judgments'[c] = 1
      /\ \A d \in Cases \ {c} : judging'[d] = judging[d] /\ judgments'[d] = judgments[d]
  BY <1>1, <1>2, <1>4
<1>6. TypeInv'
  BY <1>1, <1>2, <1>5 DEF StoreInv, TypeInv
<1>7. lock'
  BY <1>1 DEF StoreInv, OneWriter
<1>8. \A d \in Cases \ {c} : FilesOf(d)' = FilesOf(d)
  BY <1>1, <1>5 DEF FilesOf
<1>9. CaseInv(c)'
  BY <1>1, <1>2, <1>3, <1>5 DEF CaseInv
<1>10. WorkInv(p)'
  BY <1>0, <1>1, <1>2, <1>5 DEF WorkInv
<1> QED BY <1>0, <1>1, <1>2, <1>6, <1>7, <1>8, <1>9, <1>10, StepOf

LEMMA StepEvaluates ==
  ASSUME StoreInv, NEW p \in Processes,
         MarkJudgmentInterrupted(p) \/ JudgmentEnds(p) \/ JudgmentCancelled(p)
  PROVE  StoreInv'
<1>1. Live(p) /\ judging[case[p]] # 0
  BY DEF MarkJudgmentInterrupted, JudgmentEnds, JudgmentCancelled, Live, StoreInv, WorkInv
<1>2. PICK file : verdict' = [verdict EXCEPT ![case[p]] = @ \cup {file}]
  BY DEF MarkJudgmentInterrupted, JudgmentEnds, JudgmentCancelled
<1>3. /\ NextCase(p, "evaluate") \/ Release(p)
      /\ UNCHANGED <<started, snapshot, execution, judging, outcome, history>>
  BY DEF MarkJudgmentInterrupted, JudgmentEnds, JudgmentCancelled
<1> QED BY <1>1, <1>2, <1>3, StepDecides

-----------------------------------------------------------------------------
(* Beginnings, failures *)

LEMMA StepAcquire ==
  ASSUME StoreInv, NEW p \in Processes, NEW to \in {"collect", "evaluate"},
         Acquire(p, to)
  PROVE  StoreInv'
<1>1. /\ at' = [at EXCEPT ![p] = to] /\ ~lock /\ lock' = TRUE
      /\ case' = [case EXCEPT ![p] = 1]
      /\ UNCHANGED <<started, snapshot, execution, judging, verdict, outcome, sessions,
                     judgments>>
  BY DEF Acquire, Moves, files, history
<1>2. \A q \in Processes : at[q] = "idle"
  BY <1>1 DEF StoreInv, OneWriter, Live
<1>3. 1 \in Cases
  BY BaselineAssumption DEF BaselineAssumption, Cases
<1>4. at'[p] = to /\ \A q \in Processes \ {p} : at'[q] = "idle"
  BY <1>1, <1>2 DEF StoreInv, TypeInv
<1>5. TypeInv'
  BY <1>1, <1>3 DEF StoreInv, TypeInv
<1>6. OneWriter'
  BY <1>1, <1>4 DEF OneWriter, Live
<1>7. \A c \in Cases : CaseInv(c)'
  BY <1>1 DEF StoreInv, CaseInv
<1>8. \A q \in Processes : WorkInv(q)'
  BY <1>4 DEF WorkInv
<1> QED BY <1>5, <1>6, <1>7, <1>8 DEF StoreInv

LEMMA StepFails ==
  ASSUME StoreInv, NEW p \in Processes, Fails(p), lock' \in {lock, FALSE}
  PROVE  StoreInv'
<1>1. /\ at[p] # "idle" /\ at' = [at EXCEPT ![p] = "idle"]
      /\ outcome' = [outcome EXCEPT ![p] = None]
      /\ UNCHANGED <<started, snapshot, execution, judging, verdict, case, sessions,
                     judgments>>
  BY DEF Fails, files, history
<1>2. \A q \in Processes : at'[q] = "idle"
  BY <1>1 DEF StoreInv, TypeInv, OneWriter, Live
<1>3. TypeInv'
  BY <1>1 DEF StoreInv, TypeInv
<1>4. OneWriter'
  BY <1>2 DEF OneWriter, Live
<1>5. \A c \in Cases : CaseInv(c)'
  BY <1>1 DEF StoreInv, CaseInv
<1>6. \A q \in Processes : WorkInv(q)'
  BY <1>2 DEF WorkInv
<1> QED BY <1>3, <1>4, <1>5, <1>6 DEF StoreInv

LEMMA StepClearStaleLock == ASSUME StoreInv, ClearStaleLock PROVE StoreInv'
<1>1. /\ \A q \in Processes : at[q] = "idle"
      /\ lock' = FALSE
      /\ UNCHANGED <<started, snapshot, execution, judging, verdict, at, case, outcome,
                     sessions, judgments>>
  BY DEF ClearStaleLock, files, history
<1>2. TypeInv' /\ OneWriter'
  BY <1>1 DEF StoreInv, TypeInv, OneWriter, Live
<1>3. \A c \in Cases : CaseInv(c)'
  BY <1>1 DEF StoreInv, CaseInv
<1>4. \A q \in Processes : WorkInv(q)'
  BY <1>1 DEF WorkInv
<1> QED BY <1>2, <1>3, <1>4 DEF StoreInv

LEMMA StepNothing == ASSUME StoreInv, UNCHANGED vars PROVE StoreInv'
<1>1. UNCHANGED <<lock, started, snapshot, execution, judging, verdict, at, case, outcome,
                  sessions, judgments>>
  BY DEF vars, files, history
<1>2. TypeInv' /\ OneWriter'
  BY <1>1 DEF StoreInv, TypeInv, OneWriter, Live
<1>3. \A c \in Cases : CaseInv(c)'
  BY <1>1 DEF StoreInv, CaseInv
<1>4. \A q \in Processes : WorkInv(q)'
  BY <1>1 DEF StoreInv, WorkInv
<1> QED BY <1>2, <1>3, <1>4 DEF StoreInv

-----------------------------------------------------------------------------

LEMMA InvNext == StoreInv /\ [Next]_vars => StoreInv'
<1> SUFFICES ASSUME StoreInv, [Next]_vars PROVE StoreInv'
  OBVIOUS
<1>1. ASSUME NEW p \in Processes, Collect(p) \/ Evaluate(p) PROVE StoreInv'
  BY <1>1, StepAcquire DEF Collect, Evaluate
<1>2. ASSUME NEW p \in Processes, Proceed(p) PROVE StoreInv'
  <2>1. CASE SkipExecuted(p)
    BY <2>1, StepSkips DEF SkipExecuted, Live
  <2>2. CASE SkipJudged(p)
    BY <2>2, StepSkips DEF SkipJudged, Live
  <2>3. CASE SkipUnrecorded(p)
    BY <2>3, StepSkips DEF SkipUnrecorded, Live
  <2> QED BY <1>2, <2>1, <2>2, <2>3, StepMarkInterrupted, StepStartCase, StepSetUpFails,
             StepRunSession, StepSessionEnds, StepPublishSnapshot, StepRecordExecution,
             StepStartJudging, StepEvaluates DEF Proceed
<1>3. ASSUME NEW p \in Processes, Killed(p) \/ WriteFails(p) PROVE StoreInv'
  BY <1>3, StepFails DEF Killed, WriteFails
<1> QED BY <1>1, <1>2, <1>3, StepClearStaleLock, StepNothing DEF Next

LEMMA InvImplies == StoreInv => OneWriter /\ NothingPaidTwice /\ AlwaysReadable
<1> SUFFICES ASSUME StoreInv PROVE OneWriter /\ NothingPaidTwice /\ AlwaysReadable
  OBVIOUS
<1>1. NothingPaidTwice
  BY DEF StoreInv, CaseInv, NothingPaidTwice
<1>2. AlwaysReadable
  BY DEF StoreInv, CaseInv, AlwaysReadable, SnapshotReadable, BundleReadable
<1> QED BY <1>1, <1>2 DEF StoreInv

LEMMA StoreInvHolds == Spec => []StoreInv
<1>1. Init => StoreInv
  BY InvInit
<1>2. StoreInv /\ [Next]_vars => StoreInv'
  BY InvNext
<1> QED BY <1>1, <1>2, PTL DEF Spec

\* However many commands are started, killed, cancelled and repeated on an experiment,
\* one at most is at work, and it has the lock (experiment_lock).
THEOREM OneWriterAtATime == Spec => []OneWriter
<1>1. StoreInv => OneWriter
  BY InvImplies
<1> QED BY <1>1, StoreInvHolds, PTL

\* No case's session is started twice and no saved run is judged twice, for any number
\* of cases, commands and failures (collect_runs, evaluate_saved).
THEOREM NothingIsPaidTwice == Spec => []NothingPaidTwice
<1>1. StoreInv => NothingPaidTwice
  BY InvImplies
<1> QED BY <1>1, StoreInvHolds, PTL

\* Whatever a command leaves when it stops, the next one can read (load_snapshot,
\* load_bundle).
THEOREM StoreStaysReadable == Spec => []AlwaysReadable
<1>1. StoreInv => AlwaysReadable
  BY InvImplies
<1> QED BY <1>1, StoreInvHolds, PTL
-----------------------------------------------------------------------------
(* What the reports rely on: files are written once.  A verdict is one file, and *)
(* none while its case is being judged.                                          *)

Verdicts == {{}, {"result"}, {"error"}}

OnceInv ==
  /\ \A c \in Cases : verdict[c] \in Verdicts
  /\ \A c \in Cases : execution[c] # None =>
       execution[c] = [state |-> execution[c].state, snapshot |-> execution[c].snapshot]
  /\ \A p \in Processes : at[p] = "judging" => verdict[case[p]] = {}

Kept(c) ==
  /\ snapshot[c] # 0 => snapshot'[c] = snapshot[c]
  /\ execution[c] # None => execution'[c] = execution[c]
  /\ verdict[c] # {} => verdict'[c] = verdict[c]
  /\ returned[c] => returned'[c]

LEMMA StoreTypes ==
  ASSUME StoreInv
  PROVE  /\ DOMAIN snapshot = Cases /\ DOMAIN execution = Cases
         /\ DOMAIN verdict = Cases
         /\ \A p \in Processes : case[p] \in Cases
         /\ DOMAIN at = Processes
BY DEF StoreInv, TypeInv

\* Writing a file that is not there keeps what is.
LEMMA KeptByWriting ==
  ASSUME StoreInv, DOMAIN returned = Cases, NEW p \in Processes, Proceed(p), OnceInv
  PROVE  \A c \in Cases : Kept(c)
<1>0. /\ DOMAIN snapshot = Cases /\ DOMAIN execution = Cases /\ DOMAIN verdict = Cases
      /\ case[p] \in Cases
      /\ WorkInv(p)
  BY StoreTypes DEF StoreInv
<1>1. CASE SkipExecuted(p) \/ SkipJudged(p) \/ SkipUnrecorded(p) \/ SetUpFails(p)
             \/ SessionFails(p)
  BY <1>1 DEF Kept, SkipExecuted, SkipJudged, SkipUnrecorded, SetUpFails, SessionFails,
              files, history
<1>2. CASE MarkInterrupted(p)
  BY <1>0, <1>2 DEF Kept, MarkInterrupted, history
<1>3. CASE StartCase(p) \/ RunSession(p)
  BY <1>3 DEF Kept, StartCase, RunSession, files, history
<1>4. CASE SessionReturns(p)
  BY <1>0, <1>4 DEF Kept, SessionReturns, files
<1>5. CASE PublishSnapshot(p)
  BY <1>0, <1>5 DEF Kept, PublishSnapshot, Moves, WorkInv, history
<1>6. CASE RecordExecution(p)
  BY <1>0, <1>6 DEF Kept, RecordExecution, WorkInv, history
<1>7. CASE MarkJudgmentInterrupted(p)
  BY <1>0, <1>7 DEF Kept, MarkJudgmentInterrupted, history
<1>8. CASE StartJudging(p)
  BY <1>8 DEF Kept, StartJudging
<1>9. CASE JudgmentEnds(p) \/ JudgmentCancelled(p)
  BY <1>0, <1>9 DEF Kept, JudgmentEnds, JudgmentCancelled, OnceInv, history
<1> QED BY <1>1, <1>2, <1>3, <1>4, <1>5, <1>6, <1>7, <1>8, <1>9 DEF Proceed

LEMMA StoreKeeps ==
  ASSUME StoreInv, DOMAIN returned = Cases, OnceInv, [Next]_vars
  PROVE  \A c \in Cases : Kept(c)
<1>1. CASE \E p \in Processes : Collect(p) \/ Evaluate(p) \/ Killed(p) \/ WriteFails(p)
  BY <1>1 DEF Kept, Collect, Evaluate, Acquire, Killed, WriteFails, Fails, files, history
<1>2. CASE ClearStaleLock \/ UNCHANGED vars
  BY <1>2 DEF Kept, ClearStaleLock, vars, files, history
<1> QED BY <1>1, <1>2, KeptByWriting DEF Next

\* OnceInv is inductive on top of StoreInv.
LEMMA OnceByWorking ==
  ASSUME StoreInv, StoreInv', OnceInv, NEW p \in Processes, Proceed(p)
  PROVE  OnceInv'
<1>0. /\ DOMAIN execution = Cases /\ DOMAIN verdict = Cases
      /\ DOMAIN at = Processes /\ DOMAIN case = Processes /\ case[p] \in Cases
  BY StoreTypes DEF StoreInv, TypeInv
<1>1. \A q \in Processes \ {p} : at'[q] = at[q] /\ case'[q] = case[q]
  <2>1. ASSUME NEW loop, NextCase(p, loop) \/ Release(p)
        PROVE  \A q \in Processes \ {p} : at'[q] = at[q] /\ case'[q] = case[q]
    BY <1>0, <2>1 DEF NextCase, Release
  <2>2. ASSUME NEW from, NEW to, Moves(p, from, to), UNCHANGED case
        PROVE  \A q \in Processes \ {p} : at'[q] = at[q] /\ case'[q] = case[q]
    BY <1>0, <2>2 DEF Moves
  <2> QED
    BY <2>1, <2>2
       DEF Proceed, SkipExecuted, MarkInterrupted, StartCase, SetUpFails, RunSession,
           SessionReturns, SessionFails, PublishSnapshot, RecordExecution, SkipJudged,
           MarkJudgmentInterrupted, SkipUnrecorded, StartJudging, JudgmentEnds,
           JudgmentCancelled
<1>2. at'[p] = "judging" => StartJudging(p)
  BY <1>0 DEF Proceed, SkipExecuted, MarkInterrupted, StartCase, SetUpFails, RunSession,
              SessionReturns, SessionFails, PublishSnapshot, RecordExecution, SkipJudged,
              MarkJudgmentInterrupted, SkipUnrecorded, JudgmentEnds,
              JudgmentCancelled, NextCase, Release, Moves
<1>3. CASE MarkInterrupted(p) \/ RecordExecution(p)
  <2>1. UNCHANGED verdict /\ at'[p] # "judging"
    BY <1>2, <1>3 DEF MarkInterrupted, RecordExecution, StartJudging, Moves
  <2>2. PICK s, n : execution' = [execution EXCEPT ![case[p]] = [state |-> s, snapshot |-> n]]
    BY <1>3 DEF MarkInterrupted, RecordExecution
  <2>3. ASSUME NEW d \in Cases, execution'[d] # None
        PROVE  execution'[d]
                 = [state |-> execution'[d].state, snapshot |-> execution'[d].snapshot]
    <3>1. CASE d = case[p]
      BY <1>0, <2>2, <3>1
    <3>2. CASE d # case[p]
      BY <1>0, <2>2, <2>3, <3>2 DEF OnceInv
    <3> QED BY <3>1, <3>2
  <2> QED BY <1>1, <2>1, <2>3 DEF OnceInv
<1>4. CASE MarkJudgmentInterrupted(p) \/ JudgmentEnds(p) \/ JudgmentCancelled(p)
  <2>1. /\ Live(p)
        /\ verdict[case[p]] = {}
        /\ UNCHANGED execution
        /\ \E file \in {"result", "error"} :
             verdict' = [verdict EXCEPT ![case[p]] = @ \cup {file}]
        /\ at[p] # "evaluate" \/ judging[case[p]] # 0
    BY <1>4 DEF MarkJudgmentInterrupted, JudgmentEnds, JudgmentCancelled, OnceInv, Live
  <2>2. \A d \in Cases : verdict'[d] \in Verdicts
    BY <1>0, <2>1 DEF OnceInv, Verdicts
  <2>3. \A q \in Processes \ {p} : at[q] = "idle"
    BY <2>1 DEF StoreInv, OneWriter, Live
  <2>4. at'[p] # "judging"
    BY <1>2, <1>4, <2>1
       DEF MarkJudgmentInterrupted, JudgmentEnds, JudgmentCancelled, StartJudging, Moves
  <2> QED BY <1>1, <2>1, <2>2, <2>3, <2>4 DEF OnceInv
<1>5. CASE UNCHANGED <<execution, verdict>>
  <2>1. at'[p] = "judging" => verdict'[case'[p]] = {}
    BY <1>2, <1>5 DEF StartJudging
  <2> QED BY <1>1, <1>5, <2>1 DEF OnceInv
<1> QED
  BY <1>3, <1>4, <1>5
     DEF Proceed, SkipExecuted, StartCase, SetUpFails, RunSession,
         SessionReturns, SessionFails, PublishSnapshot, SkipJudged,
         SkipUnrecorded, StartJudging, files

LEMMA OnceNext ==
  ASSUME StoreInv, StoreInv', OnceInv, [Next]_vars
  PROVE  OnceInv'
<1>1. CASE \E p \in Processes : Collect(p) \/ Evaluate(p) \/ Killed(p) \/ WriteFails(p)
  <2>1. UNCHANGED <<execution, verdict>>
    BY <1>1 DEF Collect, Evaluate, Acquire, Killed, WriteFails, Fails, files
  <2>2. DOMAIN at = Processes /\ DOMAIN case = Processes
    BY DEF StoreInv, TypeInv
  <2>3. \A q \in Processes : at'[q] = "judging" => at[q] = "judging" /\ case'[q] = case[q]
    BY <1>1, <2>2 DEF Collect, Evaluate, Acquire, Moves, Killed, WriteFails, Fails
  <2> QED BY <2>1, <2>3 DEF OnceInv
<1>2. CASE ClearStaleLock \/ UNCHANGED vars
  BY <1>2 DEF OnceInv, ClearStaleLock, vars, files
<1> QED BY <1>1, <1>2, OnceByWorking DEF Next

-----------------------------------------------------------------------------
(* What a report says of a case holds when it is read, and what is settled then *)
(* holds for good.                                                              *)

ExecutionStates == FinalStates \cup {"INTERRUPTED", "NOT_STARTED"}
Judged(c) == IF JudgedAs[c] = "errors" THEN "EVALUATOR_ERRORS" ELSE "COMPLETE"

RunRead(c, run) == run \in Nat /\ (run # 0 => run = snapshot[c])
BundleRead(c, bundle) == bundle => "result" \in verdict[c]
ExecutionRead(c, state) ==
  state \in FinalStates => execution[c] # None /\ execution[c].state = state

RecordHolds(c, r) ==
  /\ RunRead(c, r.run)
  /\ ExecutionRead(c, r.execution)
  /\ r.evaluation \in Evaluated => "result" \in verdict[c] /\ r.evaluation = Judged(c)
  /\ r.evaluation = "ERROR" => "error" \in verdict[c]
  /\ r.eligible => /\ r.run # 0
                   /\ returned[c]
                   /\ JudgedAs[c] = "success"
                   /\ "result" \in verdict[c]
                   /\ r.execution = "RETURNED"

LEMMA ReadKept ==
  ASSUME NEW c \in Cases, Kept(c)
  PROVE  /\ \A run : RunRead(c, run) => RunRead(c, run)'
         /\ \A bundle : BundleRead(c, bundle) => BundleRead(c, bundle)'
         /\ \A state : ExecutionRead(c, state) => ExecutionRead(c, state)'
         /\ \A r : RecordHolds(c, r) => RecordHolds(c, r)'
<1>1. \A run : RunRead(c, run) => RunRead(c, run)'
  BY DEF Kept, RunRead
<1>2. \A bundle : BundleRead(c, bundle) => BundleRead(c, bundle)'
  BY DEF Kept, BundleRead
<1>3. \A state : ExecutionRead(c, state) => ExecutionRead(c, state)'
  BY DEF Kept, ExecutionRead
<1>4. \A r : RecordHolds(c, r) => RecordHolds(c, r)'
  BY <1>1, <1>3 DEF Kept, RecordHolds, Judged
<1> QED BY <1>1, <1>2, <1>3, <1>4

\* What a later record of the case owes an earlier one.
Agrees(old, new) ==
  /\ old.eligible => new.eligible
  /\ old.evaluation \in Evaluated \cup {"ERROR"} => new.evaluation = old.evaluation
  /\ old.execution \in FinalStates => new.execution = old.execution

Record == [run : Nat, execution : ExecutionStates,
           evaluation : Evaluated \cup {"ERROR", "NO_SNAPSHOT", "NOT_EVALUATED"},
           eligible : BOOLEAN]

\* Reading: what has been read of the cases so far holds, and owes the saved reports
\* nothing; while no file has been published, the run is the one there is.
AfterRun == {"bundle", "execution", "verdict"}
AfterBundle == {"execution", "verdict"}

ReadingInv ==
  /\ reading \in {"idle", "snapshot", "save"} \cup AfterRun
  /\ rows \in Seq(Record)
  /\ reading = "idle" => rows = <<>>
  /\ reading \in {"snapshot"} \cup AfterRun => Current \in Cases
  /\ reading = "save" => Len(rows) = CaseCount
  /\ Len(rows) <= CaseCount
  /\ reading \in AfterRun => RunRead(Current, row.run)
  /\ reading \in AfterRun /\ quiet => row.run = snapshot[Current]
  /\ reading \in AfterBundle => row.bundle \in BOOLEAN /\ BundleRead(Current, row.bundle)
  /\ reading \in AfterBundle /\ quiet => (row.bundle => row.run # 0)
  /\ reading = "verdict" =>
       row.execution \in ExecutionStates /\ ExecutionRead(Current, row.execution)
  /\ \A c \in 1..Len(rows) : RecordHolds(c, rows[c])
  /\ quiet => \A c \in 1..Len(rows) : rows[c].evaluation \in Evaluated => rows[c].run # 0

\* What the record being read owes the record old that a saved report has of the case.
PartAgrees(old) ==
  /\ reading \in AfterRun => (old.eligible => row.run # 0)
  /\ reading \in AfterBundle =>
       (old.eligible \/ old.evaluation \in Evaluated => row.bundle)
  /\ reading = "verdict" => (old.execution \in FinalStates => row.execution = old.execution)

ReportHolds(report) ==
  /\ report.rows \in Seq(Record) /\ Len(report.rows) = CaseCount
  /\ \A c \in Cases : RecordHolds(c, report.rows[c])
  /\ report.quiet => \A c \in Cases :
       report.rows[c].evaluation \in Evaluated => report.rows[c].run # 0
  /\ report.shortest = [c \in Cases |-> Shortest(report.rows, c)]

ReportsInv ==
  /\ DOMAIN reports = 1..Len(reports) /\ Len(reports) \in Nat
  /\ \A i \in 1..Len(reports) :
       /\ ReportHolds(reports[i])
       /\ \A c \in 1..Len(rows) : Agrees(reports[i].rows[c], rows[c])
       /\ Current \in Cases => PartAgrees(reports[i].rows[Current])
       /\ \A j \in 1..Len(reports) : i < j =>
            \A c \in Cases : Agrees(reports[i].rows[c], reports[j].rows[c])

ReportInv ==
  /\ StoreInv /\ OnceInv
  /\ DOMAIN returned = Cases
  /\ ReadingInv
  /\ ReportsInv

LEMMA RowsOfCases ==
  ASSUME ReadingInv
  PROVE  \A c \in 1..Len(rows) : c \in Cases
<1>1. Len(rows) \in Nat /\ Len(rows) <= CaseCount
  BY DEF ReadingInv
<1>2. CaseCount \in Nat
  BY BaselineAssumption
<1> QED BY <1>1, <1>2 DEF Cases

LEMMA ReturnedDomain ==
  ASSUME DOMAIN returned = Cases, [Next]_vars
  PROVE  DOMAIN returned' = Cases
<1>1. CASE \E p \in Processes : Collect(p) \/ Evaluate(p) \/ Killed(p) \/ WriteFails(p)
  BY <1>1 DEF Collect, Evaluate, Acquire, Killed, WriteFails, Fails, history
<1>2. ASSUME NEW p \in Processes, Proceed(p) PROVE DOMAIN returned' = Cases
  BY <1>2
     DEF Proceed, SkipExecuted, MarkInterrupted, StartCase, SetUpFails, RunSession,
         SessionReturns, SessionFails, PublishSnapshot, RecordExecution, SkipJudged,
         MarkJudgmentInterrupted, SkipUnrecorded, StartJudging, JudgmentEnds,
         JudgmentCancelled, history
<1>3. CASE ClearStaleLock \/ UNCHANGED vars
  BY <1>3 DEF ClearStaleLock, vars, history
<1> QED BY <1>1, <1>2, <1>3 DEF Next

\* A saved report stays true, and readers owe it what they did, while files are added.
LEMMA ReportKept ==
  ASSUME \A c \in Cases : Kept(c), NEW report, ReportHolds(report)
  PROVE  ReportHolds(report)'
BY ReadKept DEF ReportHolds, Shortest

LEMMA StepOfStore ==
  ASSUME ReportInv, StoreStep
  PROVE  ReportInv'
<1>1. StoreInv' /\ OnceInv' /\ DOMAIN returned' = Cases
  BY InvNext, OnceNext, ReturnedDomain DEF ReportInv, StoreStep
<1>2. \A c \in Cases : Kept(c)
  BY StoreKeeps DEF ReportInv, StoreStep
<1>3. UNCHANGED <<reading, row, rows, reports>> /\ Current' = Current
  BY DEF StoreStep, Current
<1>4. quiet' => quiet /\ snapshot' = snapshot
  BY DEF StoreStep, files
<1>5. ReadingInv'
  <2>1. \A c \in 1..Len(rows) : c \in Cases
    BY RowsOfCases DEF ReportInv
  <2>2. reading \in AfterRun => Current \in Cases
    BY DEF ReportInv, ReadingInv
  <2>3. /\ reading \in AfterRun => RunRead(Current, row.run)'
        /\ reading \in AfterBundle => BundleRead(Current, row.bundle)'
        /\ reading = "verdict" => ExecutionRead(Current, row.execution)'
    BY <1>2, <1>3, <2>2, ReadKept DEF ReportInv, ReadingInv, AfterRun, AfterBundle
  <2>4. \A c \in 1..Len(rows) : RecordHolds(c, rows[c])'
    BY <1>2, <1>3, <2>1, ReadKept DEF ReportInv, ReadingInv
  <2> QED BY <1>3, <1>4, <2>3, <2>4 DEF ReportInv, ReadingInv
<1>6. ReportsInv'
  <2>1. \A i \in 1..Len(reports) : ReportHolds(reports[i])'
    BY <1>2, <1>3, ReportKept DEF ReportInv, ReportsInv
  <2> QED BY <1>3, <2>1 DEF ReportInv, ReportsInv, PartAgrees
<1> QED BY <1>1, <1>5, <1>6 DEF ReportInv

\* A step of the reader leaves the store alone.
LEMMA ReaderLeavesStore ==
  ASSUME ReportInv, UNCHANGED vars
  PROVE  /\ StoreInv' /\ OnceInv' /\ DOMAIN returned' = Cases
         /\ UNCHANGED <<snapshot, execution, verdict, judging, returned>>
         /\ \A c \in Cases : Kept(c)
<1>1. UNCHANGED <<snapshot, execution, verdict, judging, returned, at, case>>
  BY DEF vars, files, history
<1>2. StoreInv'
  BY StepNothing DEF ReportInv
<1> QED BY <1>1, <1>2 DEF ReportInv, OnceInv, Kept

LEMMA ReportsStay ==
  ASSUME ReportInv, UNCHANGED vars, UNCHANGED <<reports, rows>>,
         \A i \in 1..Len(reports) : Current \in Cases => PartAgrees(reports[i].rows[Current])'
  PROVE  ReportsInv'
<1>1. \A i \in 1..Len(reports) : ReportHolds(reports[i])'
  BY ReaderLeavesStore, ReportKept DEF ReportInv, ReportsInv
<1>2. Current' = Current
  BY DEF Current
<1> QED BY <1>1, <1>2 DEF ReportInv, ReportsInv

LEMMA RecordsStay ==
  ASSUME ReportInv, UNCHANGED vars, UNCHANGED rows
  PROVE  /\ \A c \in 1..Len(rows) : RecordHolds(c, rows[c])'
         /\ Current' = Current
<1>1. \A c \in 1..Len(rows) : c \in Cases
  BY RowsOfCases DEF ReportInv
<1> QED BY <1>1, ReaderLeavesStore, ReadKept DEF ReportInv, ReadingInv, Current

LEMMA StepBeginReport ==
  ASSUME ReportInv, BeginReport
  PROVE  ReportInv'
<1>1. UNCHANGED <<vars, row, rows, reports>> /\ reading = "idle" /\ reading' = "snapshot"
  BY DEF BeginReport
<1>2. rows = <<>> /\ Current = 1 /\ Current \in Cases
  BY <1>1, BaselineAssumption DEF ReportInv, ReadingInv, Current, Cases
<1>3. ReadingInv'
  BY <1>1, <1>2, RecordsStay DEF ReportInv, ReadingInv, AfterRun, AfterBundle
<1>4. ReportsInv'
  BY <1>1, ReportsStay DEF PartAgrees, AfterRun, AfterBundle
<1> QED BY <1>1, <1>3, <1>4, ReaderLeavesStore DEF ReportInv

LEMMA StepReadSnapshot ==
  ASSUME ReportInv, ReadSnapshot
  PROVE  ReportInv'
<1>1. /\ UNCHANGED <<vars, rows, quiet, reports>>
      /\ reading = "snapshot" /\ reading' = "bundle"
      /\ row' = [run |-> snapshot[Current]]
      /\ Current \in Cases
  BY DEF ReadSnapshot, ReportInv, ReadingInv
<1>2. row'.run = snapshot[Current] /\ snapshot[Current] \in Nat
  BY <1>1 DEF ReportInv, StoreInv, TypeInv
<1>3. Current' = Current /\ snapshot' = snapshot
  BY <1>1, RecordsStay, ReaderLeavesStore
<1>4. ReadingInv'
  BY <1>1, <1>2, <1>3, RecordsStay DEF ReportInv, ReadingInv, AfterRun, AfterBundle, RunRead
<1>5. ReportsInv'
  <2>1. ASSUME NEW i \in 1..Len(reports), reports[i].rows[Current].eligible
        PROVE  snapshot[Current] # 0
    <3>1. RecordHolds(Current, reports[i].rows[Current])
      BY <1>1 DEF ReportInv, ReportsInv, ReportHolds
    <3> QED BY <2>1, <3>1 DEF RecordHolds, RunRead
  <2>2. \A i \in 1..Len(reports) : PartAgrees(reports[i].rows[Current])'
    BY <1>1, <1>2, <1>3, <2>1 DEF PartAgrees, AfterRun, AfterBundle
  <2> QED BY <1>1, <2>2, ReportsStay
<1> QED BY <1>1, <1>4, <1>5, ReaderLeavesStore DEF ReportInv

LEMMA StepReadBundle ==
  ASSUME ReportInv, ReadBundle
  PROVE  ReportInv'
<1> DEFINE b == "result" \in verdict[Current]
<1>1. /\ UNCHANGED <<vars, rows, quiet, reports>>
      /\ reading = "bundle" /\ reading' = "execution"
      /\ row' = [run |-> row.run, bundle |-> b]
      /\ Current \in Cases
  BY DEF ReadBundle, ReportInv, ReadingInv, AfterRun
<1>2. row'.run = row.run /\ row'.bundle = b /\ b \in BOOLEAN
  BY <1>1
<1>3. /\ Current' = Current
      /\ UNCHANGED <<snapshot, verdict>>
  BY <1>1, RecordsStay, ReaderLeavesStore
<1>4. b => snapshot[Current] # 0
  BY <1>1 DEF ReportInv, StoreInv, CaseInv
<1>5. ReadingInv'
  BY <1>1, <1>2, <1>3, <1>4, RecordsStay
     DEF ReportInv, ReadingInv, AfterRun, AfterBundle, RunRead, BundleRead
<1>6. ReportsInv'
  <2>1. ASSUME NEW i \in 1..Len(reports), NEW old, old = reports[i].rows[Current],
               old.eligible \/ old.evaluation \in Evaluated
        PROVE  b
    BY <1>1, <2>1 DEF ReportInv, ReportsInv, ReportHolds, RecordHolds
  <2>2. \A i \in 1..Len(reports) : PartAgrees(reports[i].rows[Current])
    BY <1>1 DEF ReportInv, ReportsInv
  <2>3. \A i \in 1..Len(reports) : PartAgrees(reports[i].rows[Current])'
    BY <1>1, <1>2, <1>3, <2>1, <2>2 DEF PartAgrees, AfterRun, AfterBundle
  <2> QED BY <1>1, <2>3, ReportsStay
<1> QED BY <1>1, <1>5, <1>6, ReaderLeavesStore DEF ReportInv

LEMMA StepReadExecution ==
  ASSUME ReportInv, ReadExecution
  PROVE  ReportInv'
<1> DEFINE e == ExecutionState(Current)
<1>1. /\ UNCHANGED <<vars, rows, quiet, reports>>
      /\ reading = "execution" /\ reading' = "verdict"
      /\ row' = [run |-> row.run, bundle |-> row.bundle, execution |-> e]
      /\ Current \in Cases
  BY DEF ReadExecution, ReportInv, ReadingInv, AfterRun
<1>2. row'.run = row.run /\ row'.bundle = row.bundle /\ row'.execution = e
  BY <1>1
<1>3. /\ Current' = Current
      /\ UNCHANGED <<snapshot, verdict, execution>>
  BY <1>1, RecordsStay, ReaderLeavesStore
<1>4. e \in ExecutionStates /\ ExecutionRead(Current, e)
  <2>1. CaseInv(Current)
    BY <1>1 DEF ReportInv, StoreInv
  <2> QED BY <2>1
          DEF CaseInv, ExecutionState, ExecutionStates, FinalStates, ExecutionRead
<1>5. ReadingInv'
  BY <1>1, <1>2, <1>3, <1>4, RecordsStay
     DEF ReportInv, ReadingInv, AfterRun, AfterBundle, RunRead, BundleRead, ExecutionRead
<1>6. ReportsInv'
  <2>1. ASSUME NEW i \in 1..Len(reports), NEW old, old = reports[i].rows[Current],
               old.execution \in FinalStates
        PROVE  e = old.execution
    <3>1. RecordHolds(Current, reports[i].rows[Current])
      BY <1>1 DEF ReportInv, ReportsInv, ReportHolds
    <3> QED BY <2>1, <3>1 DEF RecordHolds, ExecutionRead, ExecutionState
  <2>2. \A i \in 1..Len(reports) : PartAgrees(reports[i].rows[Current])
    BY <1>1 DEF ReportInv, ReportsInv
  <2>3. \A i \in 1..Len(reports) : PartAgrees(reports[i].rows[Current])'
    BY <1>1, <1>2, <1>3, <2>1, <2>2 DEF PartAgrees, AfterRun, AfterBundle
  <2> QED BY <1>1, <2>3, ReportsStay
<1> QED BY <1>1, <1>5, <1>6, ReaderLeavesStore DEF ReportInv

LEMMA StepAddRecord ==
  ASSUME ReportInv, AddRecord
  PROVE  ReportInv'
<1> DEFINE evaluation == EvaluationState(Current, row)
           eligible == Eligible(Current, row)
<1>1. /\ UNCHANGED <<vars, quiet, reports>>
      /\ reading = "verdict"
      /\ reading' = IF Current < CaseCount THEN "snapshot" ELSE "save"
      /\ rows' = Append(rows, [run |-> row.run, execution |-> row.execution,
                               evaluation |-> evaluation, eligible |-> eligible])
      /\ Current \in Cases
      /\ ~(Current < CaseCount) => Current = CaseCount
  BY BaselineAssumption DEF AddRecord, ReportInv, ReadingInv, AfterRun, Cases
<1>2. /\ RunRead(Current, row.run)
      /\ row.bundle \in BOOLEAN /\ BundleRead(Current, row.bundle)
      /\ row.execution \in ExecutionStates /\ ExecutionRead(Current, row.execution)
      /\ quiet => (row.bundle => row.run # 0)
  BY <1>1 DEF ReportInv, ReadingInv, AfterRun, AfterBundle
<1>3. UNCHANGED <<snapshot, execution, verdict, returned>>
  BY <1>1, ReaderLeavesStore
<1>4. /\ evaluation \in Evaluated \cup {"ERROR", "NO_SNAPSHOT", "NOT_EVALUATED"}
      /\ evaluation \in Evaluated => row.bundle /\ evaluation = Judged(Current)
      /\ evaluation = "ERROR" => "error" \in verdict[Current]
      /\ row.bundle => evaluation = Judged(Current)
      /\ ~row.bundle /\ "error" \in verdict[Current] => evaluation = "ERROR"
  BY DEF EvaluationState, Evaluated, Judged
<1>5. eligible \in BOOLEAN
  BY Zenon DEF Eligible, JudgedSuccessful
<1>6. eligible <=> /\ row.run # 0 /\ returned[Current] /\ row.bundle
                   /\ JudgedAs[Current] = "success"
                   /\ row.execution = "RETURNED"
  BY DEF Eligible, JudgedSuccessful
<1> HIDE DEF evaluation, eligible
<1>7. PICK new : new = [run |-> row.run, execution |-> row.execution,
                        evaluation |-> evaluation, eligible |-> eligible]
  OBVIOUS
<1>8. new.run = row.run /\ new.execution = row.execution
      /\ new.evaluation = evaluation /\ new.eligible = eligible
  BY <1>7
<1>9. new \in Record
  BY <1>2, <1>4, <1>5, <1>7 DEF Record, RunRead
<1>10. RecordHolds(Current, new)
  BY <1>2, <1>4, <1>6, <1>8 DEF RecordHolds, BundleRead
<1>11. rows \in Seq(Record) /\ Len(rows) \in Nat /\ Current = Len(rows) + 1
  BY DEF ReportInv, ReadingInv, Current
<1>12. /\ rows' \in Seq(Record) /\ Len(rows') = Current
       /\ rows'[Current] = new
       /\ \A d \in 1..Len(rows) : rows'[d] = rows[d]
       /\ \A d \in 1..Len(rows') : d = Current \/ d \in 1..Len(rows)
       /\ Current' = Current + 1
  BY <1>1, <1>7, <1>9, <1>11 DEF Current
<1>13. ReadingInv'
  <2>1. \A d \in 1..Len(rows) : d \in Cases /\ RecordHolds(d, rows[d])
    BY RowsOfCases DEF ReportInv, ReadingInv
  <2>2. ASSUME NEW d \in 1..Len(rows') PROVE RecordHolds(d, rows[d])'
    <3>1. PICK r : r = rows'[d]
      OBVIOUS
    <3>2. RecordHolds(d, r) /\ d \in Cases
      BY <1>1, <1>10, <1>12, <2>1, <3>1
    <3>3. RecordHolds(d, r)'
      BY <1>1, <3>2, ReaderLeavesStore, ReadKept
    <3> QED BY <3>1, <3>3 DEF RecordHolds
  <2>3. reading' \in {"snapshot", "save"} /\ Len(rows') <= CaseCount
        /\ (reading' = "snapshot" => Current' \in Cases)
        /\ (reading' = "save" => Len(rows') = CaseCount)
    BY <1>1, <1>11, <1>12, BaselineAssumption DEF Cases
  <2>4. quiet' => \A d \in 1..Len(rows') :
          rows'[d].evaluation \in Evaluated => rows'[d].run # 0
    BY <1>1, <1>2, <1>4, <1>8, <1>12 DEF ReportInv, ReadingInv
  <2> QED BY <1>12, <2>2, <2>3, <2>4 DEF ReadingInv, AfterRun, AfterBundle
<1>14. ReportsInv'
  <2>1. \A i \in 1..Len(reports) : ReportHolds(reports[i])'
    BY <1>1, ReaderLeavesStore, ReportKept DEF ReportInv, ReportsInv
  <2>2. ASSUME NEW i \in 1..Len(reports), NEW d \in 1..Len(rows')
        PROVE  Agrees(reports[i].rows[d], rows'[d])
    <3>1. CASE d \in 1..Len(rows)
      BY <1>12, <3>1 DEF ReportInv, ReportsInv
    <3>2. CASE d = Current
      <4>1. PICK old : old = reports[i].rows[Current]
        OBVIOUS
      <4>2. RecordHolds(Current, old) /\ PartAgrees(old)
        BY <1>1, <4>1 DEF ReportInv, ReportsInv, ReportHolds
      <4>3. verdict[Current] \in Verdicts
        BY <1>1 DEF ReportInv, OnceInv
      <4>4. /\ old.eligible => row.run # 0 /\ row.bundle
            /\ old.evaluation \in Evaluated => row.bundle
            /\ old.execution \in FinalStates => row.execution = old.execution
        BY <1>1, <4>2 DEF PartAgrees, AfterRun, AfterBundle
      <4>5. old.evaluation = "ERROR" => ~row.bundle /\ "error" \in verdict[Current]
        BY <1>2, <4>2, <4>3 DEF RecordHolds, BundleRead, Verdicts
      <4>6. old.eligible => eligible
        BY <1>6, <4>2, <4>4 DEF RecordHolds, FinalStates
      <4>7. old.evaluation \in Evaluated \cup {"ERROR"} => evaluation = old.evaluation
        BY <1>4, <4>2, <4>4, <4>5 DEF RecordHolds
      <4> QED BY <1>8, <1>12, <3>2, <4>1, <4>4, <4>6, <4>7 DEF Agrees
    <3> QED BY <1>12, <3>1, <3>2
  <2>3. reading' \notin AfterRun /\ reading' \notin AfterBundle /\ reading' # "verdict"
    BY <1>1 DEF AfterRun, AfterBundle
  <2> QED BY <1>1, <2>1, <2>2, <2>3 DEF ReportInv, ReportsInv, PartAgrees
<1> QED BY <1>1, <1>13, <1>14, ReaderLeavesStore DEF ReportInv

LEMMA StepSaveReport ==
  ASSUME ReportInv, SaveReport
  PROVE  ReportInv'
<1>1. /\ UNCHANGED <<vars, row, quiet>>
      /\ reading = "save" /\ reading' = "idle" /\ rows' = <<>>
      /\ reports' = Append(reports, [rows |-> rows, quiet |-> quiet,
                                     shortest |-> [c \in Cases |-> Shortest(rows, c)]])
  BY DEF SaveReport
<1>2. rows \in Seq(Record) /\ Len(rows) = CaseCount /\ 1..Len(rows) = Cases
  BY <1>1 DEF ReportInv, ReadingInv, Cases
<1>3. Len(rows') = 0 /\ Current' = 1 /\ rows' \in Seq(Record)
  BY <1>1 DEF Current
<1>4. ReadingInv'
  BY <1>1, <1>3, BaselineAssumption DEF ReadingInv, AfterRun, AfterBundle
<1>5. PICK new : new = [rows |-> rows, quiet |-> quiet,
                        shortest |-> [c \in Cases |-> Shortest(rows, c)]]
  OBVIOUS
<1>6. new.rows = rows /\ new.quiet = quiet
      /\ new.shortest = [c \in Cases |-> Shortest(rows, c)]
  BY <1>5
<1>7. ReportHolds(new)
  BY <1>2, <1>6 DEF ReportInv, ReadingInv, ReportHolds
<1>8. DOMAIN reports = 1..Len(reports) /\ Len(reports) \in Nat
  BY DEF ReportInv, ReportsInv
<1>9. PICK n \in Nat : n = Len(reports)
  BY <1>8
<1>10. /\ Len(reports') = n + 1 /\ DOMAIN reports' = 1..(n + 1)
       /\ reports'[n + 1] = new
       /\ \A i \in 1..n : reports'[i] = reports[i]
  BY <1>1, <1>5, <1>8, <1>9
<1>11. ASSUME NEW i \in 1..(n + 1) PROVE ReportHolds(reports[i])'
  <2>1. PICK report : report = reports'[i]
    OBVIOUS
  <2>2. ReportHolds(report)
    BY <1>7, <1>9, <1>10, <2>1 DEF ReportInv, ReportsInv
  <2>3. ReportHolds(report)'
    BY <1>1, <2>2, ReaderLeavesStore, ReportKept
  <2> QED BY <2>1, <2>3 DEF ReportHolds
<1>12. ASSUME NEW i \in 1..(n + 1), NEW j \in 1..(n + 1), i < j, NEW c \in Cases
       PROVE  Agrees(reports'[i].rows[c], reports'[j].rows[c])
  <2>1. CASE j = n + 1
    BY <1>2, <1>6, <1>9, <1>10, <1>12, <2>1 DEF ReportInv, ReportsInv
  <2>2. CASE j \in 1..n
    BY <1>9, <1>10, <1>12, <2>2 DEF ReportInv, ReportsInv
  <2> QED BY <2>1, <2>2
<1>13. ReportsInv'
  BY <1>1, <1>3, <1>10, <1>11, <1>12 DEF ReportsInv, PartAgrees, AfterRun, AfterBundle
<1> QED BY <1>1, <1>4, <1>13, ReaderLeavesStore DEF ReportInv

LEMMA StepReportFails ==
  ASSUME ReportInv, ReportFails
  PROVE  ReportInv'
<1>1. UNCHANGED <<vars, quiet, reports>> /\ reading' = "idle" /\ rows' = <<>>
  BY DEF ReportFails
<1>2. Len(rows') = 0 /\ Current' = 1 /\ rows' \in Seq(Record)
  BY <1>1 DEF Current
<1>3. ReadingInv'
  BY <1>1, <1>2, BaselineAssumption DEF ReadingInv, AfterRun, AfterBundle
<1>4. \A i \in 1..Len(reports) : ReportHolds(reports[i])'
  BY <1>1, ReaderLeavesStore, ReportKept DEF ReportInv, ReportsInv
<1>5. ReportsInv'
  BY <1>1, <1>2, <1>4 DEF ReportInv, ReportsInv, PartAgrees, AfterRun, AfterBundle
<1> QED BY <1>1, <1>3, <1>5, ReaderLeavesStore DEF ReportInv

LEMMA ReportInvInit == ReportInit => ReportInv
<1> SUFFICES ASSUME ReportInit PROVE ReportInv
  OBVIOUS
<1>1. StoreInv
  BY InvInit DEF ReportInit
<1>2. OnceInv /\ DOMAIN returned = Cases
  BY DEF ReportInit, Init, OnceInv, Verdicts
<1>3. Len(rows) = 0 /\ rows \in Seq(Record) /\ Len(reports) = 0 /\ DOMAIN reports = 1..0
  BY DEF ReportInit
<1>4. ReadingInv
  BY <1>3, BaselineAssumption DEF ReportInit, ReadingInv, AfterRun, AfterBundle
<1>5. ReportsInv
  BY <1>3 DEF ReportsInv
<1> QED BY <1>1, <1>2, <1>4, <1>5 DEF ReportInv

LEMMA ReportInvNext == ReportInv /\ [ReportStep \/ StoreStep]_reportvars => ReportInv'
<1> SUFFICES ASSUME ReportInv, [ReportStep \/ StoreStep]_reportvars PROVE ReportInv'
  OBVIOUS
<1>1. CASE UNCHANGED reportvars
  <2>1. /\ UNCHANGED <<vars, reading, row, rows, quiet, reports>>
    BY <1>1 DEF reportvars, reader
  <2>2. ReadingInv'
    <3>1. /\ Current' = Current
          /\ UNCHANGED <<snapshot, verdict, execution>>
          /\ \A c \in 1..Len(rows) : RecordHolds(c, rows[c])'
      BY <2>1, RecordsStay, ReaderLeavesStore
    <3> QED BY <2>1, <3>1
            DEF ReportInv, ReadingInv, RunRead, BundleRead, ExecutionRead
  <2>3. ReportsInv'
    <3>1. Current' = Current
      BY <2>1 DEF Current
    <3>2. \A i \in 1..Len(reports) :
            Current \in Cases => PartAgrees(reports[i].rows[Current])'
      BY <2>1, <3>1 DEF ReportInv, ReportsInv, PartAgrees
    <3> QED BY <2>1, <3>2, ReportsStay
  <2> QED BY <2>1, <2>2, <2>3, ReaderLeavesStore DEF ReportInv
<1> QED BY <1>1, StepOfStore, StepBeginReport, StepReadSnapshot, StepReadBundle,
           StepReadExecution, StepAddRecord, StepSaveReport, StepReportFails
        DEF ReportStep

LEMMA ReportInvHolds == ReportSpec => []ReportInv
<1>1. ReportInit => ReportInv
  BY ReportInvInit
<1>2. ReportInv /\ [ReportStep \/ StoreStep]_reportvars => ReportInv'
  BY ReportInvNext
<1> QED BY <1>1, <1>2, PTL DEF ReportSpec

-----------------------------------------------------------------------------

\* The shortest path of a cohort is one of its paths, and its ratio one of its members'.
LEMMA MinOf ==
  ASSUME NEW S \in SUBSET Nat, S # {}
  PROVE  Min(S) \in S /\ \A x \in S : Min(S) <= x
BY Least DEF Min

\* A later report's cohorts contain those of an earlier one.
LEMMA ShortestShrinks ==
  ASSUME NEW old, NEW new, \A c \in Cases : Agrees(old[c], new[c]),
         NEW c \in Cases, Shortest(old, c) # 0
  PROVE  Shortest(new, c) \in 1..Shortest(old, c)
<1> DEFINE Paths(records) ==
      {PathLength[d] : d \in {d \in Cases : records[d].eligible /\ Group[d] = Group[c]}}
<1>1. old[c].eligible /\ Group[c] # None /\ Shortest(old, c) = Min(Paths(old))
  BY DEF Shortest
<1>2. new[c].eligible /\ Shortest(new, c) = Min(Paths(new))
  BY <1>1 DEF Shortest, Agrees
<1>3. PathLength \in [Cases -> Nat \ {0}]
  BY ReportAssumption
<1>4. Paths(old) \subseteq Paths(new) /\ Paths(new) \subseteq Nat \ {0}
      /\ Paths(old) # {} /\ Paths(new) # {}
  BY <1>1, <1>2, <1>3 DEF Agrees
<1> HIDE DEF Paths
<1>5. Min(Paths(old)) \in Paths(old)
      /\ Min(Paths(new)) \in Paths(new) /\ \A x \in Paths(new) : Min(Paths(new)) <= x
  BY <1>4, MinOf
<1> QED BY <1>1, <1>2, <1>4, <1>5

LEMMA ReportsAreTrue ==
  ReportInv => QuietReportsStayReadable /\ SuccessesCommitted /\ LaterReportsAgree
<1> SUFFICES ASSUME ReportInv
             PROVE  QuietReportsStayReadable /\ SuccessesCommitted /\ LaterReportsAgree
  OBVIOUS
<1>1. ASSUME NEW report \in Saved PROVE ReportHolds(report)
  BY DEF ReportInv, ReportsInv, Saved
<1>2. ASSUME NEW c \in Cases
      PROVE  /\ SnapshotReadable(c) /\ BundleReadable(c)
             /\ verdict[c] # {} => snapshot[c] # 0 /\ judging[c] = snapshot[c]
             /\ execution[c] # None => execution[c].snapshot = snapshot[c]
  BY DEF ReportInv, StoreInv, CaseInv, SnapshotReadable, BundleReadable
<1>3. QuietReportsStayReadable
  <2> SUFFICES ASSUME NEW report \in Saved, report.quiet, NEW c \in Cases
               PROVE  RowArchived(c, report.rows[c])
    BY DEF QuietReportsStayReadable, Archived
  <2>1. RecordHolds(c, report.rows[c])
        /\ (report.rows[c].evaluation \in Evaluated => report.rows[c].run # 0)
    BY <1>1 DEF ReportHolds
  <2> QED BY <1>2, <2>1 DEF RowArchived, RecordHolds, RunRead
<1>4. SuccessesCommitted
  <2> SUFFICES ASSUME NEW report \in Saved, NEW c \in Cases, report.rows[c].eligible
               PROVE  /\ execution[c] # None
                      /\ execution[c] = [state |-> "RETURNED",
                                         snapshot |-> report.rows[c].run]
                      /\ judging[c] = report.rows[c].run
                      /\ "result" \in verdict[c]
    BY DEF SuccessesCommitted
  <2>1. RecordHolds(c, report.rows[c])
    BY <1>1 DEF ReportHolds
  <2>2. execution[c] # None => execution[c] = [state |-> execution[c].state,
                                               snapshot |-> execution[c].snapshot]
    BY DEF ReportInv, OnceInv
  <2> QED BY <1>2, <2>1, <2>2 DEF RecordHolds, RunRead, ExecutionRead, FinalStates
<1>5. LaterReportsAgree
  <2> SUFFICES ASSUME NEW i \in 1..Len(reports), NEW j \in 1..Len(reports), i < j,
                      NEW c \in Cases
               PROVE  /\ Agrees(reports[i].rows[c], reports[j].rows[c])
                      /\ reports[i].shortest[c] # 0 =>
                           reports[j].shortest[c] \in 1..reports[i].shortest[c]
    BY DEF LaterReportsAgree, Agrees, FinalStates
  <2>1. \A d \in Cases : Agrees(reports[i].rows[d], reports[j].rows[d])
    BY DEF ReportInv, ReportsInv
  <2>2. reports[i].shortest[c] = Shortest(reports[i].rows, c)
        /\ reports[j].shortest[c] = Shortest(reports[j].rows, c)
    BY DEF ReportInv, ReportsInv, ReportHolds
  <2> QED BY <2>1, <2>2, ShortestShrinks
<1> QED BY <1>3, <1>4, <1>5

\* A report that was built while no file was published can be read back whatever is
\* collected and judged afterwards (load_archived_report), for any number of cases,
\* commands and reports.
THEOREM QuietReportsReadable == ReportSpec => []QuietReportsStayReadable
<1>1. ReportInv => QuietReportsStayReadable
  BY ReportsAreTrue
<1> QED BY <1>1, ReportInvHolds, PTL

\* What any report counts as a success, one built while commands were at work included,
\* is a session committed as RETURNED and judged on the run the report names.
THEOREM SuccessesAreCommitted == ReportSpec => []SuccessesCommitted
<1>1. ReportInv => SuccessesCommitted
  BY ReportsAreTrue
<1> QED BY <1>1, ReportInvHolds, PTL

\* No later report takes back what an earlier one settled, and a cohort's shortest
\* successful path only gets shorter (build_summary).
THEOREM LaterReportsKeepFaith == ReportSpec => []LaterReportsAgree
<1>1. ReportInv => LaterReportsAgree
  BY ReportsAreTrue
<1> QED BY <1>1, ReportInvHolds, PTL
=============================================================================
