--------------------------- MODULE RecorderProofs ---------------------------
(***************************************************************************)
(* The recorders of a session tell it as it was, for every provider, every *)
(* set of tools and every limit.  For each recorder there is a description *)
(* of a record that is in order, which each hook preserves; what a step of *)
(* the loop does to the record is the sum of its hooks.                    *)
(*                                                                         *)
(* Of the evaluation recorder, in the first part, that is Sound, and it    *)
(* holds throughout.  Of the demo's timeline, in the second part, it is    *)
(* Telling: while the session runs, steps and observations go hand in hand *)
(* but for the call in flight; only the loop's last step can add a session *)
(* error to the one or a provider's failure to the other, and with it the  *)
(* timeline is complete.  The third part is about what is later read of an *)
(* evaluation record: with each hook it only grows (Grown), so that what   *)
(* an evaluator is told of a decision is what was on record when the       *)
(* decision returned.  The fourth part joins what is known of the record,  *)
(* the diagnosis and the results of an evaluation that ends in a success;  *)
(* the last one is about the path and the numbers that are read off it.    *)
(***************************************************************************)
EXTENDS RunEvaluation, DemoRecorder, AgentLoopProofs

-----------------------------------------------------------------------------
(* A step calls three hooks at most *)

LEMMA RecordedHooks ==
  ASSUME NEW r, NEW hs, Len(hs) \in 0..3
  PROVE  Recorded(r, hs) =
           IF Len(hs) = 0 THEN r
           ELSE IF Len(hs) = 1 THEN Apply(r, hs[1])
           ELSE IF Len(hs) = 2 THEN Apply(Apply(r, hs[1]), hs[2])
           ELSE Apply(Apply(Apply(r, hs[1]), hs[2]), hs[3])
<1> DEFINE one == Apply(r, hs[1])
           two == Apply(one, hs[2])
           three == Apply(two, hs[3])
           n == Len(hs)
           Steps(f) == f = [i \in 0..n |-> IF i = 0 THEN r ELSE Apply(f[i - 1], hs[i])]
           g == [i \in 0..n |-> IF i = 0 THEN r ELSE IF i = 1 THEN one
                                ELSE IF i = 2 THEN two ELSE three]
<1>1. Recorded(r, hs) = (CHOOSE f : Steps(f))[n]
  BY DEF Recorded
<1>2. ASSUME NEW i \in 0..n
      PROVE  g[i] = IF i = 0 THEN r ELSE Apply(g[i - 1], hs[i])
  <2>0. i \in {0, 1, 2, 3}
    <3> HIDE DEF n, g
    <3>1. n \in 0..3
      BY DEF n
    <3> QED
      BY <3>1
  <2>1. g[i] = IF i = 0 THEN r ELSE IF i = 1 THEN one ELSE IF i = 2 THEN two ELSE three
    OBVIOUS
  <2>2. i # 0 => /\ i - 1 \in 0..n
                 /\ g[i - 1] = IF i = 1 THEN r ELSE IF i = 2 THEN one ELSE two
    BY <2>0, <2>1
  <2> QED
    BY <2>0, <2>1, <2>2
<1> DEFINE h == [i \in 0..n |-> IF i = 0 THEN r ELSE Apply(g[i - 1], hs[i])]
<1>3. g = [i \in 0..n |-> g[i]]
  OBVIOUS
<1> HIDE DEF g
<1>4. \A i \in 0..n : g[i] = h[i]
  BY <1>2
<1>5. g = h
  BY <1>3, <1>4
<1>6. Steps(g)
  BY <1>5
<1>7. PICK f : Steps(f) /\ Recorded(r, hs) = f[n]
  BY <1>1, <1>6
<1>8. \A i \in 0..n : f[i] = IF i = 0 THEN r ELSE Apply(f[i - 1], hs[i])
  BY <1>7
<1>9. /\ f[0] = r
      /\ n > 0 => f[1] = Apply(f[0], hs[1])
      /\ n > 1 => f[2] = Apply(f[1], hs[2])
      /\ n > 2 => f[3] = Apply(f[2], hs[3])
  <2> HIDE DEF n
  <2>1. n \in 0..3
    BY DEF n
  <2>2. 1 - 1 = 0 /\ 2 - 1 = 1 /\ 3 - 1 = 2
    OBVIOUS
  <2> QED
    BY <1>8, <2>1, <2>2
<1>10. n \in {0, 1, 2, 3}
  OBVIOUS
<1> HIDE DEF n, one, two, three
<1> QED
  BY <1>7, <1>9, <1>10 DEF n

-----------------------------------------------------------------------------
(* A sound record *)

DecisionRecord == [prior : Nat, decision : Requests \cup {FinalAnswer, NoDecision}]
ErrorTypes == Outcomes \cup {"CANCELLED", "TimeoutError", "Exception"}
ErrorRecord == [scope : {"decision", "tool"}, error_type : ErrorTypes, decision : Nat,
                tool_attempt : Nat]

Shape(r) ==
  /\ r = [observations |-> r.observations, decisions |-> r.decisions,
          tool_attempts |-> r.tool_attempts, errors |-> r.errors,
          diagnosis |-> r.diagnosis, finished |-> r.finished]
  /\ r.observations \in Seq(Observation)
  /\ r.decisions \in Seq(DecisionRecord)
  /\ r.tool_attempts \in Seq(Attempt)
  /\ r.errors \in Seq(ErrorRecord)

\* An error on record, of the attempt i or of the decision i.
ErrorOf(r, i, type) ==
  \E e \in ToSet(r.errors) : e.scope = "tool" /\ e.tool_attempt = i /\ e.error_type = type
Noted(r, i) == \E e \in ToSet(r.errors) : e.scope = "tool" /\ e.tool_attempt = i
DecisionNoted(r, i) == \E e \in ToSet(r.errors) : e.scope = "decision" /\ e.decision = i

\* A decision that came to something, or was noted to have failed.
Settled(r, i) ==
  \/ r.decisions[i].decision = FinalAnswer
  \/ \E j \in 1..Len(r.tool_attempts) : r.tool_attempts[j].decision = i
  \/ DecisionNoted(r, i)

\* The attempt i has the result that is its own, unseen by the decisions up to its own.
Linked(r, i) ==
  LET k == r.tool_attempts[i].observation
  IN  /\ r.tool_attempts[i].decision \in 1..Len(r.decisions)
      /\ k <= Len(r.observations)
      /\ k # 0 =>
           /\ r.observations[k].tool = ToolName[r.tool_attempts[i].call]
           /\ IsToolResult(r.observations[k])
           /\ Succeeded(r.observations[k]) \/ ErrorOf(r, i, r.observations[k].outcome)
           /\ \A d \in 1..Len(r.decisions) :
                k <= r.decisions[d].prior => r.tool_attempts[i].decision < d

\* It is a retry if and only if the one before it says so.
Retried(r, i) ==
  LET this == r.tool_attempts[i]
      last == r.tool_attempts[i - 1]
  IN  this.timeout_retry <=>
        /\ i > 1
        /\ last.decision = this.decision
        /\ last.call = this.call
        /\ last.observation # 0
        /\ r.observations[last.observation].outcome = "TOOL_TIMEOUT"

\* A record of these calls, of which the last one is open (1: has no answer) or none.
Sound(r, calls, open) ==
  /\ Shape(r)
  /\ Len(r.tool_attempts) = Len(calls)
  /\ \A i \in 1..Len(r.tool_attempts) :
       /\ r.tool_attempts[i].call = calls[i]
       /\ r.tool_attempts[i].observation = 0 <=> open = 1 /\ i = Len(r.tool_attempts)
       /\ Linked(r, i)
       /\ Retried(r, i)
  /\ \A i, j \in 1..Len(r.tool_attempts) :
       i < j /\ r.tool_attempts[j].observation # 0
         => r.tool_attempts[i].observation < r.tool_attempts[j].observation
  /\ \A i, j \in 1..Len(r.tool_attempts) :
       i < j => r.tool_attempts[i].decision <= r.tool_attempts[j].decision
  /\ open = 1 => /\ Len(r.tool_attempts) > 0
                 /\ r.tool_attempts[Len(r.tool_attempts)].decision = Len(r.decisions)
  /\ \A d \in 1..Len(r.decisions) :
       /\ r.decisions[d].prior <= Len(r.observations)
       /\ d > 1 => r.decisions[d - 1].prior <= r.decisions[d].prior
  /\ \A e \in ToSet(r.errors) :
       /\ e.decision <= Len(r.decisions)
       /\ e.tool_attempt <= Len(r.tool_attempts)

\* The list more contains the list seen, in the same places.
Continues(more, seen) ==
  /\ more \in Seq(Observation)
  /\ Len(seen) <= Len(more)
  /\ \A k \in 1..Len(seen) : more[k] = seen[k]

-----------------------------------------------------------------------------
(* The hooks *)

LEMMA SetOfAppend ==
  ASSUME NEW S, NEW s \in Seq(S), NEW e \in S
  PROVE  ToSet(Append(s, e)) = ToSet(s) \cup {e}
<1> DEFINE t == Append(s, e)
<1>1. /\ DOMAIN s = 1..Len(s) /\ DOMAIN t = 1..(Len(s) + 1) /\ Len(s) \in Nat
      /\ t[Len(s) + 1] = e
      /\ \A i \in 1..Len(s) : t[i] = s[i]
  OBVIOUS
<1> HIDE DEF t
<1>2. ToSet(t) = ToSet(s) \cup {e}
  <2>1. ASSUME NEW x \in ToSet(t) PROVE x \in ToSet(s) \cup {e}
    BY <1>1, <2>1 DEF ToSet
  <2>2. ASSUME NEW x \in ToSet(s) \cup {e} PROVE x \in ToSet(t)
    <3>1. CASE x = e
      <4>1. Len(s) + 1 \in DOMAIN t
        BY <1>1
      <4> QED
        BY <1>1, <3>1, <4>1 DEF ToSet
    <3>2. CASE x \in ToSet(s)
      BY <1>1, <3>2 DEF ToSet
    <3> QED
      BY <2>2, <3>1, <3>2
  <2> QED
    BY <2>1, <2>2
<1> QED
  BY <1>2 DEF t

LEMMA ShapeFacts ==
  ASSUME NEW r, Shape(r)
  PROVE  /\ Len(r.observations) \in Nat /\ Len(r.decisions) \in Nat
         /\ Len(r.tool_attempts) \in Nat /\ Len(r.errors) \in Nat
         /\ \A i \in 1..Len(r.tool_attempts) :
              /\ r.tool_attempts[i].decision \in Nat
              /\ r.tool_attempts[i].call \in Calls
              /\ r.tool_attempts[i].observation \in Nat
         /\ \A i \in 1..Len(r.tool_attempts) : r.tool_attempts[i].timeout_retry \in BOOLEAN
         /\ \A d \in 1..Len(r.decisions) : r.decisions[d].prior \in Nat
         /\ \A k \in 1..Len(r.observations) : r.observations[k] \in Observation
         /\ \A e \in ToSet(r.errors) : e.decision \in Nat /\ e.tool_attempt \in Nat
<1>1. /\ r.observations \in Seq(Observation)
      /\ r.decisions \in Seq(DecisionRecord)
      /\ r.tool_attempts \in Seq(Attempt)
      /\ r.errors \in Seq(ErrorRecord)
  BY DEF Shape
<1>2. ASSUME NEW i \in 1..Len(r.tool_attempts)
      PROVE  /\ r.tool_attempts[i].decision \in Nat
             /\ r.tool_attempts[i].call \in Calls
             /\ r.tool_attempts[i].observation \in Nat
             /\ r.tool_attempts[i].timeout_retry \in BOOLEAN
  <2>1. r.tool_attempts[i] \in Attempt
    BY <1>1
  <2> QED
    BY <2>1 DEF Attempt
<1>3. ASSUME NEW d \in 1..Len(r.decisions) PROVE r.decisions[d].prior \in Nat
  <2>1. r.decisions[d] \in DecisionRecord
    BY <1>1
  <2> QED
    BY <2>1 DEF DecisionRecord
<1>4. ASSUME NEW e \in ToSet(r.errors) PROVE e.decision \in Nat /\ e.tool_attempt \in Nat
  <2>1. PICK i \in 1..Len(r.errors) : e = r.errors[i]
    BY <1>1 DEF ToSet
  <2>2. r.errors[i] \in ErrorRecord
    BY <1>1
  <2> QED
    BY <2>1, <2>2 DEF ErrorRecord
<1>5. /\ Len(r.observations) \in Nat /\ Len(r.decisions) \in Nat
      /\ Len(r.tool_attempts) \in Nat /\ Len(r.errors) \in Nat
  BY <1>1
<1>6. \A k \in 1..Len(r.observations) : r.observations[k] \in Observation
  BY <1>1
<1>7. \A i \in 1..Len(r.tool_attempts) : r.tool_attempts[i].timeout_retry \in BOOLEAN
  BY <1>2, Zenon
<1>8. \A i \in 1..Len(r.tool_attempts) : /\ r.tool_attempts[i].decision \in Nat
                                        /\ r.tool_attempts[i].call \in Calls
                                        /\ r.tool_attempts[i].observation \in Nat
  BY <1>2, Zenon
<1> QED
  BY <1>3, <1>4, <1>5, <1>6, <1>7, <1>8, Zenon

\* What is linked stays so while its attempt, its result and the decisions do.
LEMMA LinkedKept ==
  ASSUME NEW r, NEW s, NEW i, Linked(r, i),
         s.tool_attempts[i] = r.tool_attempts[i], s.decisions = r.decisions,
         NEW k, k = r.tool_attempts[i].observation, k <= Len(s.observations),
         s.observations[k] = r.observations[k],
         \A x : ErrorOf(r, i, x) => ErrorOf(s, i, x)
  PROVE  Linked(s, i)
BY DEF Linked

LEMMA SoundSync ==
  ASSUME NEW r, NEW calls, NEW open, Sound(r, calls, open), NEW obs,
         Continues(obs, r.observations), NEW s, s = Sync(r, obs)
  PROVE  /\ Sound(s, calls, open)
         /\ s.observations = obs
         /\ s.decisions = r.decisions /\ s.tool_attempts = r.tool_attempts
         /\ s.errors = r.errors /\ s.finished = r.finished
         /\ \A i : Settled(r, i) => Settled(s, i)
<1>1. /\ s.observations = obs
      /\ s.decisions = r.decisions /\ s.tool_attempts = r.tool_attempts
      /\ s.errors = r.errors /\ s.finished = r.finished /\ s.diagnosis = r.diagnosis
      /\ Shape(s)
  BY DEF Sound, Shape, Sync, Continues
<1>2. /\ Shape(r)
      /\ Len(obs) \in Nat /\ Len(r.observations) \in Nat /\ Len(r.tool_attempts) \in Nat
      /\ \A i \in 1..Len(r.tool_attempts) : r.tool_attempts[i].observation \in Nat
      /\ \A d \in 1..Len(r.decisions) : r.decisions[d].prior \in Nat
  BY ShapeFacts DEF Sound, Continues
<1>3. ASSUME NEW i \in 1..Len(r.tool_attempts) PROVE Linked(s, i)
  <2>1. Linked(r, i)
    BY DEF Sound
  <2>2. r.tool_attempts[i].observation \in Nat
    BY <1>2
  <2> QED
    BY <1>1, <1>2, <2>1, <2>2 DEF Linked, ErrorOf, Continues
<1>4. ASSUME NEW i \in 1..Len(r.tool_attempts) PROVE Retried(s, i)
  <2>1. Retried(r, i)
    BY DEF Sound
  <2>2. i > 1 => /\ r.tool_attempts[i - 1].observation \in Nat
                 /\ r.tool_attempts[i - 1].observation <= Len(r.observations)
    <3> SUFFICES ASSUME i > 1
                 PROVE  /\ r.tool_attempts[i - 1].observation \in Nat
                        /\ r.tool_attempts[i - 1].observation <= Len(r.observations)
      OBVIOUS
    <3>1. i - 1 \in 1..Len(r.tool_attempts)
      BY <1>2
    <3>2. Linked(r, i - 1)
      BY <3>1 DEF Sound
    <3> QED
      BY <1>2, <3>1, <3>2 DEF Linked
  <2>3. PICK k : k = r.tool_attempts[i - 1].observation
    OBVIOUS
  <2>4. i > 1 /\ k # 0 => obs[k] = r.observations[k]
    BY <1>2, <2>2, <2>3 DEF Continues
  <2> QED
    BY <1>1, <2>1, <2>3, <2>4 DEF Retried
<1>5. \A d \in 1..Len(r.decisions) : r.decisions[d].prior <= Len(obs)
  BY <1>2 DEF Sound, Continues
<1>6. Sound(s, calls, open)
  BY <1>1, <1>3, <1>4, <1>5 DEF Sound
<1> QED
  BY <1>1, <1>6 DEF Settled, DecisionNoted

\* A decision is opened: it has seen the observations so far, and nothing of what is
\* to come.
LEMMA SoundDecisionStarted ==
  ASSUME NEW r, NEW calls, Sound(r, calls, 0), NEW h,
         Continues(h.observations, r.observations),
         NEW s, s = OnDecisionStarted(r, h)
  PROVE  /\ Sound(s, calls, 0)
         /\ s.observations = h.observations
         /\ s.tool_attempts = r.tool_attempts /\ s.finished = r.finished
         /\ Len(s.decisions) = Len(r.decisions) + 1
         /\ \A i \in 1..Len(r.decisions) : Settled(r, i) => Settled(s, i)
<1>1. PICK m : m = Sync(r, h.observations)
  OBVIOUS
<1>2. /\ Sound(m, calls, 0)
      /\ m.observations = h.observations
      /\ m.decisions = r.decisions /\ m.tool_attempts = r.tool_attempts
      /\ m.errors = r.errors /\ m.finished = r.finished
      /\ \A i : Settled(r, i) => Settled(m, i)
  <2>1. PICK obs : obs = h.observations
    OBVIOUS
  <2>2. Continues(obs, r.observations) /\ m = Sync(r, obs)
    BY <1>1, <2>1
  <2> QED
    BY <2>1, <2>2, SoundSync
<1>3. PICK n \in Nat : n = Len(m.observations)
  BY <1>2, ShapeFacts DEF Sound
<1>4. PICK new : new = [prior |-> n, decision |-> NoDecision]
  OBVIOUS
<1>5. new \in DecisionRecord /\ new.prior = n
  BY <1>4 DEF DecisionRecord
<1>6. s = [m EXCEPT !.decisions = Append(@, new)]
  BY <1>1, <1>3, <1>4 DEF OnDecisionStarted
<1>7. Shape(m)
  BY <1>2 DEF Sound
<1>8. /\ s.observations = m.observations /\ s.tool_attempts = m.tool_attempts
      /\ s.errors = m.errors /\ s.finished = m.finished /\ s.diagnosis = m.diagnosis
      /\ s.decisions = Append(m.decisions, new)
      /\ m.decisions \in Seq(DecisionRecord)
  BY <1>6, <1>7 DEF Shape
<1>9. /\ Len(s.decisions) = Len(m.decisions) + 1
      /\ s.decisions[Len(m.decisions) + 1] = new
      /\ \A d \in 1..Len(m.decisions) : s.decisions[d] = m.decisions[d]
      /\ s.decisions \in Seq(DecisionRecord)
      /\ Len(m.decisions) \in Nat
  BY <1>5, <1>8
<1>10. Shape(s)
  BY <1>6, <1>7, <1>8, <1>9 DEF Shape
<1>11. /\ Len(m.tool_attempts) \in Nat
       /\ \A i \in 1..Len(m.tool_attempts) : /\ m.tool_attempts[i].observation \in Nat
                                            /\ m.tool_attempts[i].decision \in Nat
       /\ \A d \in 1..Len(m.decisions) : m.decisions[d].prior \in Nat
  BY <1>7, ShapeFacts
<1>12. ASSUME NEW i \in 1..Len(m.tool_attempts) PROVE Linked(s, i) /\ Retried(s, i)
  <2>1. Linked(m, i) /\ Retried(m, i)
    BY <1>2 DEF Sound
  <2>2. Retried(s, i)
    BY <1>8, <2>1 DEF Retried
  <2>3. m.tool_attempts[i].decision \in 1..Len(m.decisions)
    BY <2>1 DEF Linked
  <2>4. \A d \in 1..Len(s.decisions) :
          m.tool_attempts[i].observation <= s.decisions[d].prior /\
          m.tool_attempts[i].observation # 0 => m.tool_attempts[i].decision < d
    <3> SUFFICES ASSUME NEW d \in 1..Len(s.decisions),
                        m.tool_attempts[i].observation <= s.decisions[d].prior,
                        m.tool_attempts[i].observation # 0
                 PROVE  m.tool_attempts[i].decision < d
      OBVIOUS
    <3>1. CASE d \in 1..Len(m.decisions)
      BY <1>9, <2>1, <3>1 DEF Linked
    <3>2. CASE d = Len(m.decisions) + 1
      BY <1>9, <1>11, <2>3, <3>2
    <3> QED
      BY <1>9, <3>1, <3>2
  <2>5. Linked(s, i)
    BY <1>8, <1>9, <1>11, <2>1, <2>3, <2>4 DEF Linked, ErrorOf
  <2> QED
    BY <2>2, <2>5
<1>13. ASSUME NEW d \in 1..Len(s.decisions)
       PROVE  /\ s.decisions[d].prior <= Len(s.observations)
              /\ d > 1 => s.decisions[d - 1].prior <= s.decisions[d].prior
  <2>1. CASE d \in 1..Len(m.decisions)
    <3>1. d > 1 => d - 1 \in 1..Len(m.decisions)
      BY <1>9, <2>1
    <3> QED
      BY <1>2, <1>8, <1>9, <2>1, <3>1 DEF Sound
  <2>2. CASE d = Len(m.decisions) + 1
    <3>1. s.decisions[d] = new /\ new.prior = Len(s.observations)
      BY <1>3, <1>5, <1>8, <1>9, <2>2
    <3>2. d > 1 => /\ d - 1 \in 1..Len(m.decisions)
                   /\ s.decisions[d - 1] = m.decisions[d - 1]
      BY <1>9, <2>2
    <3> QED
      BY <1>2, <1>3, <1>8, <3>1, <3>2 DEF Sound
  <2> QED
    BY <1>9, <2>1, <2>2
<1>14. \A e \in ToSet(m.errors) : e.decision <= Len(s.decisions)
  <2>1. \A e \in ToSet(m.errors) : e.decision \in Nat
    BY <1>7, ShapeFacts
  <2> QED
    BY <1>2, <1>9, <2>1 DEF Sound
<1>15. Sound(s, calls, 0)
  BY <1>2, <1>8, <1>10, <1>12, <1>13, <1>14 DEF Sound
<1>16. \A i \in 1..Len(r.decisions) : Settled(r, i) => Settled(s, i)
  BY <1>2, <1>8, <1>9 DEF Settled, DecisionNoted
<1> QED
  BY <1>2, <1>8, <1>9, <1>15, <1>16

\* A decision is closed with what it decided.
LEMMA SoundDecisionReturned ==
  ASSUME NEW r, NEW calls, NEW open, Sound(r, calls, open), NEW h,
         h.decision \in Requests \cup {FinalAnswer},
         Len(r.decisions) > 0,
         NEW s, s = OnDecisionReturned(r, h)
  PROVE  /\ Sound(s, calls, open)
         /\ s.observations = r.observations /\ s.tool_attempts = r.tool_attempts
         /\ s.finished = r.finished
         /\ Len(s.decisions) = Len(r.decisions)
         /\ \A i \in 1..Len(r.decisions) :
              i # Len(r.decisions) /\ Settled(r, i) => Settled(s, i)
         /\ h.decision = FinalAnswer => Settled(s, Len(s.decisions))
<1>1. Shape(r)
  BY DEF Sound
<1>2. PICK n \in Nat : n = Len(r.decisions) /\ n > 0
  BY <1>1, ShapeFacts
<1>3. /\ s.observations = r.observations /\ s.tool_attempts = r.tool_attempts
      /\ s.errors = r.errors /\ s.finished = r.finished /\ s.diagnosis = r.diagnosis
      /\ s.decisions = [r.decisions EXCEPT ![n].decision = h.decision]
      /\ s = [observations |-> s.observations, decisions |-> s.decisions,
              tool_attempts |-> s.tool_attempts, errors |-> s.errors,
              diagnosis |-> s.diagnosis, finished |-> s.finished]
  BY <1>1, <1>2 DEF Shape, OnDecisionReturned
<1>4. r.decisions \in Seq(DecisionRecord) /\ r.decisions[n] \in DecisionRecord
  BY <1>1, <1>2 DEF Shape
<1>5. [r.decisions[n] EXCEPT !.decision = h.decision] \in DecisionRecord
  BY <1>4 DEF DecisionRecord
<1>6. /\ s.decisions \in Seq(DecisionRecord)
      /\ Len(s.decisions) = n
      /\ \A d \in 1..n : d # n => s.decisions[d] = r.decisions[d]
      /\ \A d \in 1..n : s.decisions[d].prior = r.decisions[d].prior
      /\ s.decisions[n].decision = h.decision
  BY <1>2, <1>3, <1>4, <1>5 DEF DecisionRecord
<1>7. Shape(s)
  BY <1>1, <1>3, <1>6 DEF Shape
<1>8. ASSUME NEW i \in 1..Len(r.tool_attempts) PROVE Linked(s, i) /\ Retried(s, i)
  <2>1. Linked(r, i) /\ Retried(r, i)
    BY DEF Sound
  <2> QED
    BY <1>2, <1>3, <1>6, <2>1 DEF Linked, Retried, ErrorOf
<1>9. \A d \in 1..n : d > 1 => d - 1 \in 1..n
  BY <1>2
<1>10. Sound(s, calls, open)
  BY <1>2, <1>3, <1>6, <1>7, <1>8, <1>9 DEF Sound
<1>11. \A i \in 1..n : i # n /\ Settled(r, i) => Settled(s, i)
  BY <1>3, <1>6 DEF Settled, DecisionNoted
<1> QED
  BY <1>2, <1>3, <1>6, <1>10, <1>11 DEF Settled

\* A failure is noted where the record stands.
LEMMA SoundError ==
  ASSUME NEW r, NEW calls, NEW open, Sound(r, calls, open),
         NEW scope \in {"decision", "tool"}, NEW type \in ErrorTypes,
         NEW s, s = OnError(r, scope, type)
  PROVE  /\ Sound(s, calls, open)
         /\ s.observations = r.observations /\ s.tool_attempts = r.tool_attempts
         /\ s.decisions = r.decisions /\ s.finished = r.finished
         /\ \A i : Settled(r, i) => Settled(s, i)
         /\ scope = "decision" => Settled(s, Len(s.decisions))
         /\ scope = "tool" => Noted(s, Len(s.tool_attempts))
<1>1. Shape(r) /\ Len(r.decisions) \in Nat /\ Len(r.tool_attempts) \in Nat
  BY ShapeFacts DEF Sound
<1>2. PICK e : e = [scope |-> scope, error_type |-> type, decision |-> Len(r.decisions),
                    tool_attempt |-> IF scope = "tool" THEN Len(r.tool_attempts) ELSE 0]
  OBVIOUS
<1>3. /\ e \in ErrorRecord /\ e.scope = scope /\ e.decision = Len(r.decisions)
      /\ e.tool_attempt \in 0..Len(r.tool_attempts)
      /\ scope = "tool" => e.tool_attempt = Len(r.tool_attempts)
  BY <1>1, <1>2 DEF ErrorRecord
<1>4. /\ s.observations = r.observations /\ s.tool_attempts = r.tool_attempts
      /\ s.decisions = r.decisions /\ s.finished = r.finished /\ s.diagnosis = r.diagnosis
      /\ s.errors = Append(r.errors, e)
      /\ s = [observations |-> s.observations, decisions |-> s.decisions,
              tool_attempts |-> s.tool_attempts, errors |-> s.errors,
              diagnosis |-> s.diagnosis, finished |-> s.finished]
  BY <1>1, <1>2 DEF Shape, OnError
<1>5. /\ s.errors \in Seq(ErrorRecord)
      /\ ToSet(s.errors) = ToSet(r.errors) \cup {e}
  BY <1>1, <1>3, <1>4, SetOfAppend DEF Shape
<1>6. Shape(s)
  BY <1>1, <1>4, <1>5 DEF Shape
<1>7. ASSUME NEW i \in 1..Len(r.tool_attempts) PROVE Linked(s, i) /\ Retried(s, i)
  <2>1. Linked(r, i) /\ Retried(r, i)
    BY DEF Sound
  <2> QED
    BY <1>4, <1>5, <2>1 DEF Linked, Retried, ErrorOf
<1>8. \A x \in ToSet(s.errors) : /\ x.decision <= Len(r.decisions)
                                 /\ x.tool_attempt <= Len(r.tool_attempts)
  BY <1>1, <1>3, <1>5 DEF Sound
<1>9. Sound(s, calls, open)
  BY <1>4, <1>6, <1>7, <1>8 DEF Sound
<1>10. \A i : Settled(r, i) => Settled(s, i)
  BY <1>4, <1>5 DEF Settled, DecisionNoted
<1> QED
  BY <1>3, <1>4, <1>5, <1>9, <1>10 DEF Settled, DecisionNoted, Noted

\* The record is closed with the session's observations.
LEMMA SoundFinish ==
  ASSUME NEW r, NEW calls, NEW open, Sound(r, calls, open), NEW h,
         Continues(h.observations, r.observations),
         NEW s, s = OnFinish(r, h)
  PROVE  /\ Sound(s, calls, open)
         /\ s.observations = h.observations /\ s.diagnosis = h.diagnosis /\ s.finished
         /\ s.decisions = r.decisions /\ s.tool_attempts = r.tool_attempts
         /\ \A i : Settled(r, i) => Settled(s, i)
         /\ \A i : Noted(r, i) => Noted(s, i)
<1>1. PICK m, obs : m = Sync(r, obs) /\ obs = h.observations
  OBVIOUS
<1>2. /\ Sound(m, calls, open)
      /\ m.observations = obs
      /\ m.decisions = r.decisions /\ m.tool_attempts = r.tool_attempts
      /\ m.errors = r.errors
      /\ \A i : Settled(r, i) => Settled(m, i)
  BY <1>1, SoundSync
<1>3. Shape(m)
  BY <1>2 DEF Sound
<1>4. s = [m EXCEPT !.diagnosis = h.diagnosis, !.finished = TRUE]
  BY <1>1 DEF OnFinish
<1>5. /\ s.observations = m.observations /\ s.tool_attempts = m.tool_attempts
      /\ s.decisions = m.decisions /\ s.errors = m.errors
      /\ s.diagnosis = h.diagnosis /\ s.finished = TRUE
      /\ s = [observations |-> s.observations, decisions |-> s.decisions,
              tool_attempts |-> s.tool_attempts, errors |-> s.errors,
              diagnosis |-> s.diagnosis, finished |-> s.finished]
  BY <1>3, <1>4 DEF Shape
<1>6. Shape(s)
  BY <1>3, <1>5 DEF Shape
<1>7. \A i : (Linked(m, i) => Linked(s, i)) /\ (Retried(m, i) => Retried(s, i))
  BY <1>5 DEF Linked, Retried, ErrorOf
<1>8. Sound(s, calls, open)
  BY <1>2, <1>5, <1>6, <1>7 DEF Sound
<1>9. \A i : (Settled(m, i) => Settled(s, i)) /\ (Noted(r, i) => Noted(s, i))
  BY <1>2, <1>5 DEF Settled, DecisionNoted, Noted
<1> QED
  BY <1>1, <1>2, <1>5, <1>8, <1>9

\* A call is made: an attempt of the last decision, marked as what it is.
LEMMA SoundToolStarted ==
  ASSUME NEW r, NEW calls \in Seq(Calls), Sound(r, calls, 0), NEW h,
         h.call \in Calls, h.retry \in BOOLEAN,
         Len(r.decisions) > 0,
         LET last == r.tool_attempts[Len(r.tool_attempts)]
         IN  h.retry <=> /\ Len(r.tool_attempts) > 0
                         /\ last.decision = Len(r.decisions)
                         /\ last.call = h.call
                         /\ r.observations[last.observation].outcome = "TOOL_TIMEOUT",
         NEW s, s = OnToolStarted(r, h)
  PROVE  /\ Sound(s, Append(calls, h.call), 1)
         /\ s.observations = r.observations /\ s.decisions = r.decisions
         /\ s.finished = r.finished
         /\ \A i : Settled(r, i) => Settled(s, i)
         /\ Settled(s, Len(s.decisions))
<1>1. Shape(r)
  BY DEF Sound
<1>2. /\ Len(r.observations) \in Nat /\ Len(r.decisions) \in Nat
      /\ \A i \in 1..Len(r.tool_attempts) :
           /\ r.tool_attempts[i].decision \in Nat
           /\ r.tool_attempts[i].observation \in Nat
      /\ \A e \in ToSet(r.errors) : e.tool_attempt \in Nat
  BY <1>1, ShapeFacts
<1>3. PICK n \in Nat : n = Len(r.tool_attempts)
  BY <1>1, ShapeFacts
<1>4. PICK a : a = [decision |-> Len(r.decisions), call |-> h.call,
                    timeout_retry |-> h.retry, observation |-> 0]
  OBVIOUS
<1>5. /\ a.decision = Len(r.decisions) /\ a.call = h.call /\ a.observation = 0
      /\ (a.timeout_retry <=> h.retry)
  BY <1>4
<1>6. a \in Attempt
  BY <1>2, <1>4 DEF Attempt
<1>7. /\ s.observations = r.observations /\ s.decisions = r.decisions
      /\ s.errors = r.errors /\ s.finished = r.finished /\ s.diagnosis = r.diagnosis
      /\ s.tool_attempts = Append(r.tool_attempts, a)
      /\ s = [observations |-> s.observations, decisions |-> s.decisions,
              tool_attempts |-> s.tool_attempts, errors |-> s.errors,
              diagnosis |-> s.diagnosis, finished |-> s.finished]
  BY <1>1, <1>4 DEF Shape, OnToolStarted
<1>8. /\ s.tool_attempts \in Seq(Attempt)
      /\ Len(s.tool_attempts) = n + 1
      /\ s.tool_attempts[n + 1] = a
      /\ \A i \in 1..n : s.tool_attempts[i] = r.tool_attempts[i]
      /\ \A i \in 1..(n + 1) : i \in 1..n \/ i = n + 1
  BY <1>1, <1>3, <1>6, <1>7 DEF Shape
<1>9. Shape(s)
  BY <1>1, <1>7, <1>8 DEF Shape
<1>10. /\ Len(Append(calls, h.call)) = n + 1
       /\ Append(calls, h.call)[n + 1] = h.call
       /\ \A i \in 1..n : Append(calls, h.call)[i] = calls[i]
  BY <1>3 DEF Sound
<1>11. ASSUME NEW i \in 1..n PROVE Linked(s, i) /\ Retried(s, i)
  <2>1. Linked(r, i) /\ Retried(r, i)
    BY <1>3 DEF Sound
  <2>2. Linked(s, i)
    BY <1>7, <1>8, <2>1 DEF Linked, ErrorOf
  <2>3. i > 1 => i - 1 \in 1..n
    BY <1>3
  <2>4. Retried(s, i)
    BY <1>7, <1>8, <2>1, <2>3 DEF Retried
  <2> QED
    BY <2>2, <2>4
<1>12. Linked(s, n + 1)
  BY <1>2, <1>3, <1>5, <1>7, <1>8 DEF Linked
<1>13. Retried(s, n + 1)
  <2>1. n + 1 > 1 <=> n > 0
    BY <1>3
  <2>2. n > 0 => n \in 1..n /\ s.tool_attempts[n] = r.tool_attempts[n]
                 /\ r.tool_attempts[n].observation # 0
    BY <1>3, <1>8 DEF Sound
  <2>3. (n + 1) - 1 = n
    BY <1>3
  <2> QED
    BY <1>3, <1>5, <1>7, <1>8, <2>1, <2>2, <2>3 DEF Retried
<1>14. ASSUME NEW i \in 1..(n + 1)
       PROVE  /\ s.tool_attempts[i].call = Append(calls, h.call)[i]
              /\ s.tool_attempts[i].observation = 0 <=> i = n + 1
  BY <1>3, <1>5, <1>8, <1>10 DEF Sound
<1>15. ASSUME NEW i \in 1..(n + 1), NEW j \in 1..(n + 1),
              i < j, s.tool_attempts[j].observation # 0
       PROVE  s.tool_attempts[i].observation < s.tool_attempts[j].observation
  <2>1. j \in 1..n /\ i \in 1..n
    BY <1>3, <1>5, <1>8, <1>15
  <2> QED
    BY <1>3, <1>8, <1>15, <2>1 DEF Sound
<1>16. \A e \in ToSet(s.errors) :
         e.decision <= Len(s.decisions) /\ e.tool_attempt <= Len(s.tool_attempts)
  BY <1>2, <1>3, <1>7, <1>8 DEF Sound
<1>17. /\ \A d \in 1..Len(s.decisions) :
            /\ s.decisions[d].prior <= Len(s.observations)
            /\ d > 1 => s.decisions[d - 1].prior <= s.decisions[d].prior
  BY <1>7 DEF Sound
<1>18. ASSUME NEW i \in 1..(n + 1), NEW j \in 1..(n + 1), i < j
       PROVE  s.tool_attempts[i].decision <= s.tool_attempts[j].decision
  <2>1. i \in 1..n /\ s.tool_attempts[i].decision \in 1..Len(s.decisions)
    BY <1>8, <1>11, <1>18 DEF Linked
  <2>2. CASE j = n + 1
    BY <1>2, <1>5, <1>7, <1>8, <2>1, <2>2
  <2>3. CASE j # n + 1
    BY <1>3, <1>8, <1>18, <2>1, <2>3 DEF Sound
  <2> QED
    BY <2>2, <2>3
<1>19. Sound(s, Append(calls, h.call), 1)
  BY <1>3, <1>5, <1>7, <1>8, <1>9, <1>10, <1>11, <1>12, <1>13, <1>14, <1>15, <1>16, <1>17,
     <1>18 DEF Sound
<1>20. \A i : Settled(r, i) => Settled(s, i)
  BY <1>3, <1>7, <1>8 DEF Settled, DecisionNoted
<1>21. Settled(s, Len(s.decisions))
  <2>1. n + 1 \in 1..Len(s.tool_attempts)
    BY <1>3, <1>8
  <2> QED
    BY <1>5, <1>7, <1>8, <2>1 DEF Settled
<1> QED
  BY <1>7, <1>19, <1>20, <1>21

\* The open call is answered: its attempt is linked to the result, a failed one is noted.
LEMMA SoundToolFinished ==
  ASSUME NEW r, NEW calls, Sound(r, calls, 1), NEW h, NEW o \in Observation,
         h.observation = o, IsToolResult(o),
         o.tool = ToolName[r.tool_attempts[Len(r.tool_attempts)].call],
         NEW s, s = OnToolFinished(r, h)
  PROVE  /\ Sound(s, calls, 0)
         /\ s.observations = Append(r.observations, o)
         /\ s.decisions = r.decisions /\ s.finished = r.finished
         /\ \A i : Settled(r, i) => Settled(s, i)
         /\ LET n == Len(s.tool_attempts)
            IN  /\ n > 0
                /\ s.tool_attempts[n].decision = Len(s.decisions)
                /\ s.observations[s.tool_attempts[n].observation] = o
<1>1. Shape(r)
  BY DEF Sound
<1>2. /\ Len(r.decisions) \in Nat
      /\ \A i \in 1..Len(r.tool_attempts) :
           /\ r.tool_attempts[i].decision \in Nat
           /\ r.tool_attempts[i].observation \in Nat
      /\ \A d \in 1..Len(r.decisions) : r.decisions[d].prior \in Nat
  BY <1>1, ShapeFacts
<1>3. PICK n \in Nat : n = Len(r.tool_attempts) /\ n > 0
  BY <1>1, ShapeFacts DEF Sound
<1>4. PICK m \in Nat : m = Len(r.observations)
  BY <1>1, ShapeFacts
<1>5. o.outcome \in ErrorTypes
  BY DEF Observation, ErrorTypes
<1>6. PICK e : e = [scope |-> "tool", error_type |-> o.outcome,
                    decision |-> Len(r.decisions), tool_attempt |-> n]
  OBVIOUS
<1>7. /\ e \in ErrorRecord /\ e.scope = "tool" /\ e.error_type = o.outcome
      /\ e.decision = Len(r.decisions) /\ e.tool_attempt = n
  BY <1>2, <1>5, <1>6 DEF ErrorRecord
<1>8. PICK attempts, obs :
        /\ attempts = [r.tool_attempts EXCEPT ![n].observation = m + 1]
        /\ obs = Append(r.observations, o)
  OBVIOUS
<1>9. /\ r.tool_attempts \in Seq(Attempt) /\ r.observations \in Seq(Observation)
      /\ r.errors \in Seq(ErrorRecord)
  BY <1>1 DEF Shape
<1>10. /\ attempts \in Seq(Attempt) /\ Len(attempts) = n
       /\ attempts[n].observation = m + 1
       /\ attempts[n].decision = r.tool_attempts[n].decision
       /\ attempts[n].call = r.tool_attempts[n].call
       /\ (attempts[n].timeout_retry <=> r.tool_attempts[n].timeout_retry)
       /\ \A i \in 1..n : i # n => attempts[i] = r.tool_attempts[i]
  <2>1. r.tool_attempts[n] \in Attempt /\ n \in DOMAIN r.tool_attempts
    BY <1>3, <1>9
  <2>2. PICK a : a = [r.tool_attempts[n] EXCEPT !.observation = m + 1]
    OBVIOUS
  <2>3. /\ a \in Attempt /\ a.observation = m + 1
        /\ a.decision = r.tool_attempts[n].decision /\ a.call = r.tool_attempts[n].call
        /\ a.timeout_retry = r.tool_attempts[n].timeout_retry
    BY <2>1, <2>2 DEF Attempt
  <2>4. attempts = [r.tool_attempts EXCEPT ![n] = a]
    BY <1>8, <2>1, <2>2
  <2>5. /\ attempts \in Seq(Attempt) /\ Len(attempts) = n /\ attempts[n] = a
        /\ \A i \in 1..n : i # n => attempts[i] = r.tool_attempts[i]
    BY <1>3, <1>9, <2>1, <2>3, <2>4
  <2> QED
    BY <2>3, <2>5
<1>11. /\ obs \in Seq(Observation) /\ Len(obs) = m + 1 /\ obs[m + 1] = o
       /\ \A k \in 1..m : obs[k] = r.observations[k]
  BY <1>4, <1>8, <1>9
<1>12. PICK q : q = [r EXCEPT !.observations = Append(@, o),
                              !.tool_attempts[Len(r.tool_attempts)].observation =
                                 Len(r.observations) + 1]
  OBVIOUS
<1>13. q = [observations |-> obs, decisions |-> r.decisions, tool_attempts |-> attempts,
            errors |-> r.errors, diagnosis |-> r.diagnosis, finished |-> r.finished]
  BY <1>1, <1>3, <1>4, <1>8, <1>12 DEF Shape
<1>14. s = IF Succeeded(o) THEN q ELSE OnError(q, "tool", o.outcome)
  BY <1>12 DEF OnToolFinished
<1>15. OnError(q, "tool", o.outcome) = [q EXCEPT !.errors = Append(@, e)]
  BY <1>6, <1>10, <1>13 DEF OnError
<1>16. /\ s.observations = obs /\ s.decisions = r.decisions /\ s.tool_attempts = attempts
       /\ s.finished = r.finished
       /\ s = [observations |-> s.observations, decisions |-> s.decisions,
               tool_attempts |-> s.tool_attempts, errors |-> s.errors,
               diagnosis |-> s.diagnosis, finished |-> s.finished]
       /\ s.errors = IF Succeeded(o) THEN r.errors ELSE Append(r.errors, e)
  <2>1. CASE Succeeded(o)
    <3>1. s = q
      BY <1>14, <2>1
    <3> QED
      BY <1>13, <2>1, <3>1
  <2>2. CASE ~Succeeded(o)
    <3>1. s = [q EXCEPT !.errors = Append(q.errors, e)]
      BY <1>14, <1>15, <2>2
    <3>2. s = [observations |-> obs, decisions |-> r.decisions,
               tool_attempts |-> attempts, errors |-> Append(r.errors, e),
               diagnosis |-> r.diagnosis, finished |-> r.finished]
      BY <1>13, <3>1
    <3> QED
      BY <2>2, <3>2
  <2> QED
    BY <2>1, <2>2
<1>17. /\ s.errors \in Seq(ErrorRecord)
       /\ ToSet(r.errors) \subseteq ToSet(s.errors)
       /\ ToSet(s.errors) \subseteq ToSet(r.errors) \cup {e}
       /\ Succeeded(o) \/ e \in ToSet(s.errors)
  <2>1. CASE Succeeded(o)
    BY <1>9, <1>16, <2>1
  <2>2. CASE ~Succeeded(o)
    BY <1>7, <1>9, <1>16, <2>2, SetOfAppend
  <2> QED
    BY <2>1, <2>2
<1>18. Shape(s)
  BY <1>1, <1>10, <1>11, <1>16, <1>17 DEF Shape
<1>19. \A i \in 1..n : /\ attempts[i].decision = r.tool_attempts[i].decision
                       /\ attempts[i].call = r.tool_attempts[i].call
                       /\ (attempts[i].timeout_retry <=> r.tool_attempts[i].timeout_retry)
  BY <1>10
<1>20. \A i \in 1..n : i # n => /\ r.tool_attempts[i].observation \in 1..m
                                /\ attempts[i].observation \in 1..m
  <2> SUFFICES ASSUME NEW i \in 1..n, i # n
               PROVE  /\ r.tool_attempts[i].observation \in 1..m
                      /\ attempts[i].observation \in 1..m
    OBVIOUS
  <2>1. Linked(r, i) /\ r.tool_attempts[i].observation # 0
    BY <1>3 DEF Sound
  <2> QED
    BY <1>2, <1>3, <1>4, <1>10, <2>1 DEF Linked
<1>21. ASSUME NEW i \in 1..n PROVE Linked(s, i)
  <2>1. Linked(r, i) /\ r.tool_attempts[i].decision \in 1..Len(r.decisions)
    BY <1>3 DEF Sound, Linked
  <2>2. CASE i # n
    <3>1. PICK k \in 1..m : k = r.tool_attempts[i].observation
      BY <1>20, <2>2
    <3>2. attempts[i] = r.tool_attempts[i] /\ obs[k] = r.observations[k] /\ k <= m + 1
      BY <1>4, <1>10, <1>11, <2>2, <3>1
    <3>3. \A x : ErrorOf(r, i, x) => ErrorOf(s, i, x)
      BY <1>17 DEF ErrorOf
    <3>4. /\ s.tool_attempts[i] = r.tool_attempts[i] /\ s.decisions = r.decisions
          /\ s.observations[k] = r.observations[k]
      BY <1>16, <3>2
    <3>5. k <= Len(s.observations)
      BY <1>11, <1>16, <3>2
    <3> QED
      BY <2>1, <3>1, <3>3, <3>4, <3>5, LinkedKept
  <2>3. CASE i = n
    <3>1. \A d \in 1..Len(r.decisions) : ~(m + 1 <= r.decisions[d].prior)
      <4>1. \A d \in 1..Len(r.decisions) : r.decisions[d].prior <= Len(r.observations)
        BY DEF Sound
      <4> QED
        BY <1>2, <1>4, <4>1
    <3>2. Succeeded(o) \/ ErrorOf(s, n, o.outcome)
      BY <1>7, <1>17 DEF ErrorOf
    <3>3. m + 1 # 0
      OBVIOUS
    <3> QED
      BY <1>3, <1>10, <1>11, <1>16, <2>1, <2>3, <3>1, <3>2, <3>3 DEF Linked
  <2> QED
    BY <2>2, <2>3
<1>22. ASSUME NEW i \in 1..n PROVE Retried(s, i)
  <2>1. Retried(r, i)
    BY <1>3 DEF Sound
  <2>2. CASE i > 1
    <3>1. i - 1 \in 1..n /\ i - 1 # n
      BY <1>3, <2>2
    <3>2. /\ attempts[i - 1] = r.tool_attempts[i - 1]
          /\ r.tool_attempts[i - 1].observation \in 1..m
      BY <1>10, <1>20, <3>1
    <3> QED
      BY <1>11, <1>16, <1>19, <2>1, <2>2, <3>2 DEF Retried
  <2>3. CASE ~(i > 1)
    BY <1>16, <1>19, <2>1, <2>3 DEF Retried
  <2> QED
    BY <2>2, <2>3
<1>23. ASSUME NEW i \in 1..n, NEW j \in 1..n, i < j
       PROVE  attempts[i].observation < attempts[j].observation
  <2>1. i # n
    BY <1>3, <1>23
  <2>2. CASE j = n
    BY <1>4, <1>10, <1>20, <2>1, <2>2
  <2>3. CASE j # n
    <3>1. r.tool_attempts[j].observation # 0
      BY <1>20, <2>3
    <3> QED
      BY <1>3, <1>10, <1>23, <2>1, <2>3, <3>1 DEF Sound
  <2> QED
    BY <2>2, <2>3
<1>24. \A i \in 1..n : attempts[i].observation # 0
  BY <1>10, <1>20
<1>25. \A d \in 1..Len(r.decisions) : r.decisions[d].prior <= Len(obs)
  <2>1. \A d \in 1..Len(r.decisions) : r.decisions[d].prior <= Len(r.observations)
    BY DEF Sound
  <2> QED
    BY <1>2, <1>4, <1>11, <2>1
<1>26. \A x \in ToSet(s.errors) : x.decision <= Len(r.decisions) /\ x.tool_attempt <= n
  BY <1>2, <1>3, <1>7, <1>17 DEF Sound
<1>27. ASSUME NEW i \in 1..n, NEW j \in 1..n, i < j
       PROVE  attempts[i].decision <= attempts[j].decision
  <2>1. \A k \in 1..n : attempts[k].decision = r.tool_attempts[k].decision
    BY <1>10
  <2> QED
    BY <1>3, <1>27, <2>1 DEF Sound
<1>28. Sound(s, calls, 0)
  BY <1>3, <1>10, <1>16, <1>18, <1>19, <1>21, <1>22, <1>23, <1>24, <1>25, <1>26, <1>27
     DEF Sound
<1>29. \A i : Settled(r, i) => Settled(s, i)
  BY <1>3, <1>10, <1>16, <1>17, <1>19 DEF Settled, DecisionNoted
<1>30. attempts[n].decision = Len(r.decisions)
  BY <1>3, <1>10 DEF Sound
<1> QED
  BY <1>3, <1>8, <1>10, <1>11, <1>16, <1>28, <1>29, <1>30
-----------------------------------------------------------------------------
(* The inductive invariant.  The record lags behind the session only at the    *)
(* head of the loop, where feedback waits for the next decision; a decision is *)
(* settled as soon as the provider is not awaited any more.                    *)

Open == IF pending_call = NoCall THEN 0 ELSE 1

RecorderInv ==
  /\ Sound(run, CallsMade, Open)
  /\ Continues(observations, run.observations)
  /\ pc # "loop" => run.observations = observations
  /\ pc = "deciding" =>
       /\ Len(run.decisions) > 0
       /\ \A i \in 1..Len(run.tool_attempts) :
            run.tool_attempts[i].decision < Len(run.decisions)
  /\ \A d \in 1..Len(run.decisions) :
       Settled(run, d) \/ (pc = "deciding" /\ d = Len(run.decisions))
  /\ run.finished <=> Ended
  /\ Ended =>
       /\ run.diagnosis = diagnosis
       /\ pending_call = NoCall \/ Noted(run, Len(run.tool_attempts))
            \/ (expired /\ cancelled)

AllSettled(r) == \A d \in 1..Len(r.decisions) : Settled(r, d)

\* The hooks of a step, one after the other.
LEMMA RecordedAfter ==
  /\ \A r : Recorded(r, <<>>) = r
  /\ \A r, a : Recorded(r, <<a>>) = Apply(r, a)
  /\ \A r, a, b : Recorded(r, <<a, b>>) = Apply(Apply(r, a), b)
  /\ \A r, a, b, c : Recorded(r, <<a, b, c>>) = Apply(Apply(Apply(r, a), b), c)
<1>1. ASSUME NEW r PROVE Recorded(r, <<>>) = r
  <2>1. PICK hs : hs = <<>>
    OBVIOUS
  <2>2. Len(hs) = 0
    BY <2>1
  <2> QED
    BY <2>1, <2>2, RecordedHooks
<1>2. ASSUME NEW r, NEW a PROVE Recorded(r, <<a>>) = Apply(r, a)
  <2>1. PICK hs : hs = <<a>>
    OBVIOUS
  <2>2. Len(hs) = 1 /\ hs[1] = a
    BY <2>1
  <2> QED
    BY <2>1, <2>2, RecordedHooks
<1>3. ASSUME NEW r, NEW a, NEW b PROVE Recorded(r, <<a, b>>) = Apply(Apply(r, a), b)
  <2>1. PICK hs : hs = <<a, b>>
    OBVIOUS
  <2>2. Len(hs) = 2 /\ hs[1] = a /\ hs[2] = b
    BY <2>1
  <2> QED
    BY <2>1, <2>2, RecordedHooks
<1>4. ASSUME NEW r, NEW a, NEW b, NEW c
      PROVE  Recorded(r, <<a, b, c>>) = Apply(Apply(Apply(r, a), b), c)
  <2>1. PICK hs : hs = <<a, b, c>>
    OBVIOUS
  <2>2. Len(hs) = 3 /\ hs[1] = a /\ hs[2] = b /\ hs[3] = c
    BY <2>1
  <2> QED
    BY <2>1, <2>2, RecordedHooks
<1> QED
  BY <1>1, <1>2, <1>3, <1>4

LEMMA ApplyCases ==
  ASSUME NEW r, NEW h
  PROVE  /\ h.hook = "decision_started" => Apply(r, h) = OnDecisionStarted(r, h)
         /\ h.hook = "decision_returned" => Apply(r, h) = OnDecisionReturned(r, h)
         /\ h.hook = "tool_started" => Apply(r, h) = OnToolStarted(r, h)
         /\ h.hook = "tool_finished" => Apply(r, h) = OnToolFinished(r, h)
         /\ h.hook = "error" => Apply(r, h) = OnError(r, h.scope, h.error_type)
         /\ h.hook = "finish" => Apply(r, h) = OnFinish(r, h)
BY DEF Apply

\* Whatever the record m is when the run is over, finish closes it.
LEMMA RecordEnds ==
  ASSUME NEW m, NEW calls, NEW open, Sound(m, calls, open), AllSettled(m),
         calls = CallsMade', open = Open', Ended',
         Continues(observations', m.observations), observations' \in Seq(Observation),
         pending_call' = NoCall \/ Noted(m, Len(m.tool_attempts))
           \/ (expired' /\ cancelled'),
         run' = Apply(m, Finish)
  PROVE  RecorderInv'
<1>1. PICK h : h = Finish
  OBVIOUS
<1>2. /\ h.hook = "finish" /\ h.observations = observations' /\ h.diagnosis = diagnosis'
  BY <1>1 DEF Finish
<1>3. PICK s : s = run'
  OBVIOUS
<1>4. s = OnFinish(m, h)
  BY <1>1, <1>2, <1>3, ApplyCases
<1>5. Continues(h.observations, m.observations)
  BY <1>2
<1>6. /\ Sound(s, calls, open)
      /\ s.observations = h.observations /\ s.diagnosis = h.diagnosis /\ s.finished
      /\ s.decisions = m.decisions /\ s.tool_attempts = m.tool_attempts
      /\ \A i : Settled(m, i) => Settled(s, i)
      /\ \A i : Noted(m, i) => Noted(s, i)
  BY <1>4, <1>5, SoundFinish
<1>7. pc' # "deciding" /\ pc' # "loop"
  BY DEF Ended
<1>8. Continues(observations', s.observations)
  BY <1>2, <1>6 DEF Continues
<1>9. \A d \in 1..Len(s.decisions) : Settled(s, d)
  BY <1>6 DEF AllSettled
<1>10. pending_call' = NoCall \/ Noted(s, Len(s.tool_attempts)) \/ (expired' /\ cancelled')
  BY <1>6
<1> QED
  BY <1>2, <1>3, <1>6, <1>7, <1>8, <1>9, <1>10 DEF RecorderInv

\* The awaited decision comes to nothing.
LEMMA DecisionFails ==
  ASSUME BudgetInv, RecorderInv, pc = "deciding", NEW type \in ErrorTypes,
         NEW h, h.hook = "error", h.scope = "decision", h.error_type = type,
         NEW m, m = Apply(run, h)
  PROVE  /\ Sound(m, CallsMade, 0) /\ AllSettled(m) /\ m.observations = observations
         /\ pending_call = NoCall
<1>1. pending_call = NoCall /\ run.observations = observations /\ Sound(run, CallsMade, 0)
  BY DEF BudgetInv, TaskConsistent, RecorderInv, Open
<1>2. PICK calls, scope : calls = CallsMade /\ scope = "decision"
  OBVIOUS
<1>3. m = OnError(run, scope, type)
  BY <1>2, ApplyCases
<1>4. /\ Sound(m, calls, 0)
      /\ m.observations = run.observations /\ m.decisions = run.decisions
      /\ \A i : Settled(run, i) => Settled(m, i)
      /\ Settled(m, Len(m.decisions))
  BY <1>1, <1>2, <1>3, SoundError
<1> QED
  BY <1>1, <1>2, <1>4 DEF AllSettled, RecorderInv

\* The awaited call fails without a result.
LEMMA CallFails ==
  ASSUME RecorderInv, pc = "calling", pending_call # NoCall, NEW type \in ErrorTypes,
         NEW h, h.hook = "error", h.scope = "tool", h.error_type = type,
         NEW m, m = Apply(run, h)
  PROVE  /\ Sound(m, CallsMade, 1) /\ AllSettled(m) /\ m.observations = observations
         /\ Noted(m, Len(m.tool_attempts))
<1>1. run.observations = observations /\ Sound(run, CallsMade, 1)
  BY DEF RecorderInv, Open
<1>2. PICK calls, scope : calls = CallsMade /\ scope = "tool"
  OBVIOUS
<1>3. m = OnError(run, scope, type)
  BY <1>2, ApplyCases
<1>4. /\ Sound(m, calls, 1)
      /\ m.observations = run.observations /\ m.decisions = run.decisions
      /\ \A i : Settled(run, i) => Settled(m, i)
      /\ Noted(m, Len(m.tool_attempts))
  BY <1>1, <1>2, <1>3, SoundError
<1> QED
  BY <1>1, <1>2, <1>4 DEF AllSettled, RecorderInv

\* The awaited call gets a result, from its tool or from the deadline's handler.
LEMMA CallAnswered ==
  ASSUME BudgetInv, TypeOK', pending_call # NoCall,
         NEW r, Sound(r, CallsMade, 1), AllSettled(r), r.observations = observations,
         NEW o \in Observation, IsToolResult(o), o.tool = ToolName[pending_call],
         RecordToolResult(pending_call, o),
         NEW h, h.hook = "tool_finished", h.observation = o,
         NEW m, m = Apply(r, h)
  PROVE  /\ tool_history' = CallsMade
         /\ Sound(m, tool_history', 0) /\ AllSettled(m) /\ m.observations = observations'
         /\ LET last == m.tool_attempts[Len(m.tool_attempts)]
            IN  /\ Len(m.tool_attempts) > 0
                /\ last.decision = Len(m.decisions) /\ last.call = pending_call
                /\ m.observations[last.observation] = o
<1>1. tool_history' = CallsMade
  BY RecordingKeepsCalls
<1>2. PICK calls : calls = CallsMade
  OBVIOUS
<1>3. tool_history \in Seq(Calls) /\ pending_call \in Calls
  BY DEF BudgetInv, TypeOK
<1>4. calls[Len(calls)] = pending_call /\ Len(calls) \in 1..Len(calls) /\ Len(calls) > 0
  BY <1>2, <1>3 DEF CallsMade
<1>5. r.tool_attempts[Len(r.tool_attempts)].call = pending_call
  BY <1>2, <1>4 DEF Sound
<1>6. m = OnToolFinished(r, h)
  BY ApplyCases
<1>7. /\ Sound(m, calls, 0)
      /\ m.observations = Append(r.observations, o) /\ m.decisions = r.decisions
      /\ \A i : Settled(r, i) => Settled(m, i)
      /\ LET n == Len(m.tool_attempts)
         IN  /\ n > 0
             /\ m.tool_attempts[n].decision = Len(m.decisions)
             /\ m.observations[m.tool_attempts[n].observation] = o
  <2>1. PICK n : n = Len(r.tool_attempts)
    OBVIOUS
  <2>2. o.tool = ToolName[r.tool_attempts[n].call] /\ Sound(r, calls, 1)
    BY <1>2, <1>5, <2>1
  <2> QED
    BY <1>6, <2>1, <2>2, SoundToolFinished
<1>8. m.observations = observations'
  BY <1>7 DEF RecordToolResult
<1>9. m.tool_attempts[Len(m.tool_attempts)].call = pending_call
  BY <1>4, <1>7 DEF Sound
<1> QED
  BY <1>1, <1>2, <1>7, <1>8, <1>9 DEF AllSettled

LEMMA Concatenations ==
  ASSUME NEW a, NEW b, NEW c
  PROVE  /\ <<>> \o <<>> \o <<c>> = <<c>>
         /\ <<a>> \o <<>> \o <<c>> = <<a, c>>
         /\ <<>> \o <<b>> \o <<c>> = <<b, c>>
         /\ <<a>> \o <<b>> \o <<c>> = <<a, b, c>>
         /\ <<>> \o <<c>> = <<c>>
         /\ <<a>> \o <<c>> = <<a, c>>
<1>1. <<>> \o <<>> = <<>> /\ <<a>> \o <<>> = <<a>> /\ <<>> \o <<b>> = <<b>>
  OBVIOUS
<1>2. <<>> \o <<c>> = <<c>>
  OBVIOUS
<1> QED
  BY <1>1, <1>2, JoinedPair, JoinedTriple

LEMMA ErrorHook ==
  ASSUME NEW scope, NEW type
  PROVE  /\ Error(scope, type).hook = "error"
         /\ Error(scope, type).scope = scope
         /\ Error(scope, type).error_type = type
BY DEF Error

\* A list of observations that has not changed, or has grown by one, continues what it was.
LEMMA ContinuesSame ==
  ASSUME NEW s \in Seq(Observation)
  PROVE  Continues(s, s)
BY DEF Continues

LEMMA ContinuesAppend ==
  ASSUME NEW s \in Seq(Observation), NEW o \in Observation
  PROVE  Continues(Append(s, o), s)
BY DEF Continues

LEMMA StartDecisionRecorded ==
  ASSUME BudgetInv, TypeOK', RecorderInv, StartDecision, run' = Apply(run, DecisionStarted)
  PROVE  RecorderInv'
<1>1. /\ pc = "loop" /\ pc' = "deciding" /\ pending_call = NoCall
      /\ UNCHANGED <<observations, tool_history, pending_call>>
  BY DEF StartDecision, session, BudgetInv, TaskConsistent
<1>2. PICK h : h = DecisionStarted
  OBVIOUS
<1>3. h.hook = "decision_started" /\ h.observations = observations
  BY <1>2 DEF DecisionStarted
<1>4. PICK s : s = run'
  OBVIOUS
<1>5. PICK calls : calls = CallsMade /\ calls = CallsMade'
  BY <1>1 DEF CallsMade
<1>6. /\ Sound(run, calls, 0) /\ Continues(h.observations, run.observations)
      /\ s = OnDecisionStarted(run, h)
  BY <1>1, <1>2, <1>3, <1>4, <1>5, ApplyCases DEF RecorderInv, Open
<1>7. /\ Sound(s, calls, 0)
      /\ s.observations = h.observations
      /\ s.tool_attempts = run.tool_attempts /\ s.finished = run.finished
      /\ Len(s.decisions) = Len(run.decisions) + 1
      /\ \A i \in 1..Len(run.decisions) : Settled(run, i) => Settled(s, i)
  BY <1>6, SoundDecisionStarted
<1>8. /\ Len(run.decisions) \in Nat
      /\ \A i \in 1..Len(run.tool_attempts) :
           run.tool_attempts[i].decision \in 1..Len(run.decisions)
  BY <1>6, ShapeFacts DEF Sound, Linked
<1>9. \A i \in 1..Len(s.tool_attempts) : s.tool_attempts[i].decision < Len(s.decisions)
  BY <1>7, <1>8
<1>10. \A d \in 1..Len(s.decisions) : Settled(s, d) \/ d = Len(s.decisions)
  BY <1>1, <1>7, <1>8 DEF RecorderInv
<1>11. Continues(observations', s.observations)
  BY <1>1, <1>3, <1>7, ContinuesSame DEF BudgetInv, TypeOK
<1>12. ~Ended /\ ~Ended'
  BY <1>1 DEF Ended
<1>13. s.observations = observations' /\ Len(s.decisions) > 0
  BY <1>1, <1>3, <1>7, <1>8
<1>14. Open' = 0
  BY <1>1 DEF Open
<1>15. s.finished <=> Ended'
  BY <1>7, <1>12 DEF RecorderInv
<1> QED
  BY <1>1, <1>4, <1>5, <1>7, <1>9, <1>10, <1>11, <1>12, <1>13, <1>14, <1>15 DEF RecorderInv

LEMMA DecisionLimitRecorded ==
  ASSUME BudgetInv, TypeOK', RecorderInv, ReachDecisionLimit, run' = Apply(run, Finish)
  PROVE  RecorderInv'
<1>1. /\ pc = "loop" /\ pc' = "returned" /\ pending_call = NoCall
      /\ UNCHANGED <<observations, tool_history, pending_call>>
  BY DEF ReachDecisionLimit, Return, BudgetInv, TaskConsistent
<1>2. PICK calls, open : /\ calls = CallsMade /\ calls = CallsMade'
                         /\ open = Open /\ open = Open'
  BY <1>1 DEF CallsMade, Open
<1>3. /\ Sound(run, calls, open) /\ Continues(observations', run.observations)
      /\ AllSettled(run) /\ Ended' /\ pending_call' = NoCall
      /\ observations' \in Seq(Observation)
  BY <1>1, <1>2 DEF RecorderInv, AllSettled, Ended, TypeOK
<1> QED
  BY <1>2, <1>3, RecordEnds

\* The end of an awaited decision that came to nothing.
LEMMA DecisionFailureRecorded ==
  ASSUME BudgetInv, TypeOK', RecorderInv, pc = "deciding",
         NEW scope, NEW type, scope = "decision", type \in ErrorTypes,
         run' = Apply(Apply(run, Error(scope, type)), Finish),
         UNCHANGED <<tool_history, pending_call>>, Ended',
         Continues(observations', observations)
  PROVE  RecorderInv'
<1>1. PICK h : h = Error(scope, type)
  OBVIOUS
<1>2. h.hook = "error" /\ h.scope = "decision" /\ h.error_type = type
  BY <1>1, ErrorHook
<1>3. PICK m : m = Apply(run, h)
  OBVIOUS
<1>4. /\ Sound(m, CallsMade, 0) /\ AllSettled(m) /\ m.observations = observations
      /\ pending_call = NoCall
  BY <1>2, <1>3, DecisionFails
<1>5. PICK calls, open : /\ calls = CallsMade /\ calls = CallsMade'
                         /\ open = 0 /\ open = Open'
  BY <1>4 DEF CallsMade, Open
<1>6. /\ Sound(m, calls, open) /\ Continues(observations', m.observations)
      /\ observations' \in Seq(Observation) /\ pending_call' = NoCall
      /\ run' = Apply(m, Finish)
  BY <1>1, <1>3, <1>4, <1>5 DEF TypeOK
<1> QED
  BY <1>4, <1>5, <1>6, RecordEnds

\* The end of an awaited call that left the run without a result.
LEMMA CallFailureRecorded ==
  ASSUME BudgetInv, TypeOK', RecorderInv, pc = "calling", pending_call # NoCall,
         NEW scope, NEW type, scope = "tool", type \in ErrorTypes,
         run' = Apply(Apply(run, Error(scope, type)), Finish),
         UNCHANGED <<tool_history, pending_call, observations>>, Ended'
  PROVE  RecorderInv'
<1>1. PICK h : h = Error(scope, type)
  OBVIOUS
<1>2. h.hook = "error" /\ h.scope = "tool" /\ h.error_type = type
  BY <1>1, ErrorHook
<1>3. PICK m : m = Apply(run, h)
  OBVIOUS
<1>4. /\ Sound(m, CallsMade, 1) /\ AllSettled(m) /\ m.observations = observations
      /\ Noted(m, Len(m.tool_attempts))
  BY <1>2, <1>3, CallFails
<1>5. PICK calls, open : /\ calls = CallsMade /\ calls = CallsMade'
                         /\ open = 1 /\ open = Open'
  BY <1>4 DEF CallsMade, Open
<1>6. /\ Sound(m, calls, open) /\ Continues(observations', m.observations)
      /\ observations' \in Seq(Observation) /\ run' = Apply(m, Finish)
  BY <1>1, <1>3, <1>4, <1>5, ContinuesSame DEF TypeOK
<1> QED
  BY <1>4, <1>5, <1>6, RecordEnds

\* The deadline's handler gives the call in flight, noted or not, a result.
LEMMA TimedOutCallRecorded ==
  ASSUME BudgetInv, TypeOK', pending_call # NoCall, ReturnTimedOut,
         NEW r, Sound(r, CallsMade, 1), AllSettled(r), r.observations = observations,
         run' = Apply(Apply(r, TimedOutCall), Finish)
  PROVE  RecorderInv'
<1>1. PICK o : o = Failure(ToolName[pending_call], "SESSION_TIMEOUT")
  OBVIOUS
<1>2. pending_call \in Calls
  BY DEF BudgetInv, TypeOK
<1>3. /\ o \in Observation /\ IsToolResult(o) /\ o.tool = ToolName[pending_call]
  BY <1>1, <1>2, CallFacts, FailureType DEF Outcomes, LoopErrors, Failure, IsToolResult
<1>4. RecordToolResult(pending_call, o)
  BY <1>1 DEF ReturnTimedOut
<1>5. PICK h : h = TimedOutCall
  OBVIOUS
<1>6. h.hook = "tool_finished" /\ h.observation = o
  BY <1>1, <1>5 DEF TimedOutCall, ToolFinished
<1>7. PICK m : m = Apply(r, h)
  OBVIOUS
<1>8. /\ Sound(m, tool_history', 0) /\ AllSettled(m) /\ m.observations = observations'
  BY <1>3, <1>4, <1>6, <1>7, CallAnswered
<1>9. pc' = "returned" /\ pending_call' = NoCall
  BY DEF ReturnTimedOut, Return
<1>10. PICK calls, open : /\ calls = tool_history' /\ calls = CallsMade'
                          /\ open = 0 /\ open = Open'
  BY <1>9 DEF CallsMade, Open
<1>11. /\ Sound(m, calls, open) /\ Continues(observations', m.observations)
       /\ observations' \in Seq(Observation) /\ run' = Apply(m, Finish) /\ Ended'
  BY <1>5, <1>7, <1>8, <1>9, <1>10, ContinuesSame DEF TypeOK, Ended
<1> QED
  BY <1>8, <1>9, <1>10, <1>11, RecordEnds

\* The awaited decision has been taken.
LEMMA DecisionTaken ==
  ASSUME BudgetInv, RecorderInv, pc = "deciding",
         NEW d \in Requests \cup {FinalAnswer},
         NEW m, m = Apply(run, DecisionReturned(d))
  PROVE  /\ Sound(m, CallsMade, 0) /\ pending_call = NoCall
         /\ m.observations = observations /\ m.tool_attempts = run.tool_attempts
         /\ (m.finished <=> run.finished)
         /\ Len(m.decisions) = Len(run.decisions) /\ Len(m.decisions) > 0
         /\ Len(m.decisions) \in Nat
         /\ \A i \in 1..Len(m.decisions) : i # Len(m.decisions) => Settled(m, i)
         /\ d = FinalAnswer => Settled(m, Len(m.decisions))
<1>1. /\ pending_call = NoCall /\ run.observations = observations /\ Sound(run, CallsMade, 0)
      /\ Len(run.decisions) > 0
      /\ \A i \in 1..Len(run.decisions) : i # Len(run.decisions) => Settled(run, i)
  BY DEF BudgetInv, TaskConsistent, RecorderInv, Open
<1>2. PICK h, calls, open : h = DecisionReturned(d) /\ calls = CallsMade /\ open = 0
  OBVIOUS
<1>3. h.hook = "decision_returned" /\ h.decision = d
  BY <1>2 DEF DecisionReturned
<1>4. m = OnDecisionReturned(run, h)
  BY <1>2, <1>3, ApplyCases
<1>5. /\ Sound(m, calls, open)
      /\ m.observations = run.observations /\ m.tool_attempts = run.tool_attempts
      /\ m.finished = run.finished
      /\ Len(m.decisions) = Len(run.decisions)
      /\ \A i \in 1..Len(run.decisions) :
           i # Len(run.decisions) /\ Settled(run, i) => Settled(m, i)
      /\ h.decision = FinalAnswer => Settled(m, Len(m.decisions))
  BY <1>1, <1>2, <1>3, <1>4, SoundDecisionReturned
<1>6. Len(m.decisions) \in Nat
  BY <1>5, ShapeFacts DEF Sound
<1> QED
  BY <1>1, <1>2, <1>3, <1>5, <1>6

LEMMA FinalAnswerRecorded ==
  ASSUME BudgetInv, TypeOK', RecorderInv, NEW answer \in Answers, AcceptFinalAnswer(answer),
         run' = Apply(Apply(run, DecisionReturned(FinalAnswer)), Finish)
  PROVE  RecorderInv'
<1>1. /\ pc = "deciding" /\ pc' = "returned"
      /\ UNCHANGED <<observations, tool_history, pending_call>>
  BY DEF AcceptFinalAnswer, DecisionArrives, Return
<1>2. PICK d, m : d = FinalAnswer /\ m = Apply(run, DecisionReturned(d))
  OBVIOUS
<1>3. /\ Sound(m, CallsMade, 0) /\ pending_call = NoCall /\ m.observations = observations
      /\ Len(m.decisions) \in Nat
      /\ \A i \in 1..Len(m.decisions) : i # Len(m.decisions) => Settled(m, i)
      /\ Settled(m, Len(m.decisions))
  BY <1>1, <1>2, DecisionTaken
<1>4. AllSettled(m)
  BY <1>3 DEF AllSettled
<1>5. PICK calls, open : /\ calls = CallsMade /\ calls = CallsMade'
                         /\ open = 0 /\ open = Open'
  BY <1>1, <1>3 DEF CallsMade, Open
<1>6. /\ Sound(m, calls, open) /\ Continues(observations', m.observations)
      /\ observations' \in Seq(Observation) /\ pending_call' = NoCall
      /\ run' = Apply(m, Finish) /\ Ended'
  BY <1>1, <1>2, <1>3, <1>5, ContinuesSame DEF TypeOK, Ended
<1> QED
  BY <1>4, <1>5, <1>6, RecordEnds

LEMMA RefusalRecorded ==
  ASSUME BudgetInv, TypeOK', RecorderInv, NEW r \in Requests,
         NEW t \in Tools, NEW type \in ErrorTypes, NEW e \in Outcomes, Refuse(t, e),
         NEW scope, scope = "decision",
         run' = Apply(Apply(run, DecisionReturned(r)), Error(scope, type))
  PROVE  RecorderInv'
<1>1. /\ pc = "deciding" /\ pc' = "loop" /\ UNCHANGED <<tool_history, pending_call>>
      /\ observations' = Append(observations, Failure(t, e))
      /\ observations \in Seq(Observation) /\ Failure(t, e) \in Observation
  BY FailureType DEF Refuse, DecisionArrives, RecordFeedback, BudgetInv, TypeOK
<1>2. PICK m : m = Apply(run, DecisionReturned(r))
  OBVIOUS
<1>3. /\ Sound(m, CallsMade, 0) /\ pending_call = NoCall /\ m.observations = observations
      /\ (m.finished <=> run.finished)
      /\ Len(m.decisions) \in Nat
      /\ \A i \in 1..Len(m.decisions) : i # Len(m.decisions) => Settled(m, i)
  BY <1>1, <1>2, DecisionTaken
<1>4. PICK h, s, calls : h = Error(scope, type) /\ s = Apply(m, h) /\ calls = CallsMade
  OBVIOUS
<1>5. s = OnError(m, scope, type)
  BY <1>4, ErrorHook, ApplyCases
<1>6. /\ Sound(s, calls, 0)
      /\ s.observations = m.observations /\ s.decisions = m.decisions
      /\ s.finished = m.finished
      /\ \A i : Settled(m, i) => Settled(s, i)
      /\ Settled(s, Len(s.decisions))
  BY <1>3, <1>4, <1>5, SoundError
<1>7. \A d \in 1..Len(s.decisions) : Settled(s, d)
  BY <1>3, <1>6
<1>8. Continues(observations', s.observations)
  BY <1>1, <1>3, <1>6, ContinuesAppend
<1>9. CallsMade' = calls /\ Open' = 0 /\ run' = s
  BY <1>1, <1>2, <1>3, <1>4 DEF CallsMade, Open
<1>10. ~Ended /\ ~Ended'
  BY <1>1 DEF Ended
<1>11. s.finished <=> Ended'
  BY <1>3, <1>6, <1>10 DEF RecorderInv
<1> QED
  BY <1>1, <1>6, <1>7, <1>8, <1>9, <1>10, <1>11 DEF RecorderInv

\* A call is made, by a decision or to repeat one that timed out.
LEMMA CallRecorded ==
  ASSUME TypeOK', NEW m, NEW calls \in Seq(Calls), NEW c \in Calls, NEW retry \in BOOLEAN,
         Sound(m, calls, 0), m.observations = observations', ~m.finished,
         Len(m.decisions) \in Nat, Len(m.decisions) > 0,
         \A i \in 1..Len(m.decisions) : i # Len(m.decisions) => Settled(m, i),
         LET last == m.tool_attempts[Len(m.tool_attempts)]
         IN  retry <=> /\ Len(m.tool_attempts) > 0
                       /\ last.decision = Len(m.decisions)
                       /\ last.call = c
                       /\ m.observations[last.observation].outcome = "TOOL_TIMEOUT",
         pc' = "calling", pending_call' = c, tool_history' = calls,
         run' = Apply(m, ToolStarted(c, retry))
  PROVE  RecorderInv'
<1>1. PICK h : h = ToolStarted(c, retry)
  OBVIOUS
<1>2. h.hook = "tool_started" /\ h.call = c /\ h.retry = retry
  BY <1>1 DEF ToolStarted
<1>3. PICK s : s = run'
  OBVIOUS
<1>4. s = OnToolStarted(m, h)
  BY <1>1, <1>2, <1>3, ApplyCases
<1>5. /\ Sound(s, Append(calls, h.call), 1)
      /\ s.observations = m.observations /\ s.decisions = m.decisions
      /\ s.finished = m.finished
      /\ \A i : Settled(m, i) => Settled(s, i)
      /\ Settled(s, Len(s.decisions))
  BY <1>2, <1>4, SoundToolStarted
<1>6. CallsMade' = Append(calls, h.call) /\ Open' = 1
  BY <1>2, CallFacts DEF CallsMade, Open
<1>7. \A d \in 1..Len(s.decisions) : Settled(s, d)
  BY <1>5
<1>8. Continues(observations', s.observations)
  BY <1>5, ContinuesSame DEF TypeOK
<1>9. ~Ended' /\ (s.finished <=> Ended')
  BY <1>5 DEF Ended
<1> QED
  BY <1>3, <1>5, <1>6, <1>7, <1>8, <1>9 DEF RecorderInv

LEMMA DispatchRecorded ==
  ASSUME BudgetInv, TypeOK', RecorderInv, NEW r \in Requests, Dispatch(r),
         run' = Apply(Apply(run, DecisionReturned(r)), ToolStarted(Normal[r], FALSE))
  PROVE  RecorderInv'
<1>1. /\ pc = "deciding" /\ pc' = "calling" /\ pending_call' = Normal[r]
      /\ UNCHANGED <<observations, tool_history>> /\ Normal[r] # Rejected
  BY DEF Dispatch, DecisionArrives
<1>2. PICK m, c, retry : /\ m = Apply(run, DecisionReturned(r))
                         /\ c = Normal[r] /\ retry = FALSE
  OBVIOUS
<1>3. /\ Sound(m, CallsMade, 0) /\ pending_call = NoCall /\ m.observations = observations
      /\ m.tool_attempts = run.tool_attempts
      /\ (m.finished <=> run.finished)
      /\ Len(m.decisions) = Len(run.decisions) /\ Len(m.decisions) > 0
      /\ Len(m.decisions) \in Nat
      /\ \A i \in 1..Len(m.decisions) : i # Len(m.decisions) => Settled(m, i)
  BY <1>1, <1>2, DecisionTaken
<1>4. PICK calls : calls = tool_history' /\ calls = CallsMade
  BY <1>1, <1>3 DEF CallsMade
<1>5. calls \in Seq(Calls) /\ c \in Calls /\ retry \in BOOLEAN
  BY <1>1, <1>2, <1>4, CallFacts DEF TypeOK
<1>6. ~m.finished
  BY <1>1, <1>3 DEF RecorderInv, Ended
<1>7. Len(m.tool_attempts) > 0 =>
        m.tool_attempts[Len(m.tool_attempts)].decision # Len(m.decisions)
  <2>1. Len(m.tool_attempts) \in Nat
    BY <1>3, ShapeFacts DEF Sound
  <2>2. \A i \in 1..Len(m.tool_attempts) :
          /\ m.tool_attempts[i].decision \in Nat
          /\ m.tool_attempts[i].decision < Len(m.decisions)
    BY <1>1, <1>3, ShapeFacts DEF Sound, RecorderInv
  <2> QED
    BY <1>3, <2>1, <2>2
<1>8. m.observations = observations' /\ Sound(m, calls, 0)
  BY <1>1, <1>3, <1>4
<1>9. /\ pending_call' = c /\ tool_history' = calls
      /\ run' = Apply(m, ToolStarted(c, retry))
  BY <1>1, <1>2, <1>4
<1>10. LET last == m.tool_attempts[Len(m.tool_attempts)]
       IN  retry <=> /\ Len(m.tool_attempts) > 0
                     /\ last.decision = Len(m.decisions)
                     /\ last.call = c
                     /\ m.observations[last.observation].outcome = "TOOL_TIMEOUT"
  BY <1>2, <1>7
<1> QED
  BY <1>1, <1>3, <1>5, <1>6, <1>8, <1>9, <1>10, CallRecorded

\* What a result leaves on record, before the loop goes on with it.
LEMMA AnswerRecorded ==
  ASSUME BudgetInv, TypeOK', RecorderInv, pc = "calling", pending_call # NoCall,
         NEW o \in Results(pending_call), RecordToolResult(pending_call, o),
         NEW m, m = Apply(run, ToolFinished(o))
  PROVE  /\ tool_history' = CallsMade
         /\ Sound(m, tool_history', 0) /\ AllSettled(m) /\ m.observations = observations'
         /\ ~m.finished
         /\ LET last == m.tool_attempts[Len(m.tool_attempts)]
            IN  /\ Len(m.tool_attempts) > 0
                /\ last.decision = Len(m.decisions) /\ last.call = pending_call
                /\ m.observations[last.observation] = o
<1>1. pending_call \in Calls
  BY DEF BudgetInv, TypeOK
<1>2. /\ o \in Observation /\ IsToolResult(o) /\ o.tool = ToolName[pending_call]
  BY <1>1, ResultsType DEF IsToolResult
<1>3. PICK h : h = ToolFinished(o)
  OBVIOUS
<1>4. h.hook = "tool_finished" /\ h.observation = o /\ m = Apply(run, h)
  BY <1>3 DEF ToolFinished
<1>5. PICK r : r = run
  OBVIOUS
<1>6. /\ Sound(r, CallsMade, 1) /\ AllSettled(r) /\ r.observations = observations
      /\ m = Apply(r, h)
  BY <1>4, <1>5 DEF RecorderInv, Open, AllSettled
<1>7. /\ tool_history' = CallsMade
      /\ Sound(m, tool_history', 0) /\ AllSettled(m) /\ m.observations = observations'
      /\ LET last == m.tool_attempts[Len(m.tool_attempts)]
         IN  /\ Len(m.tool_attempts) > 0
             /\ last.decision = Len(m.decisions) /\ last.call = pending_call
             /\ m.observations[last.observation] = o
  BY <1>2, <1>4, <1>6, CallAnswered
<1>8. ~m.finished
  <2>1. ~run.finished
    BY DEF RecorderInv, Ended
  <2>2. PICK calls : calls = CallsMade
    OBVIOUS
  <2>3. m = OnToolFinished(r, h) /\ Sound(r, calls, 1)
    BY <1>4, <1>6, <2>2, ApplyCases
  <2>4. o.tool = ToolName[r.tool_attempts[Len(r.tool_attempts)].call]
    <3>1. calls[Len(calls)] = pending_call /\ Len(calls) \in 1..Len(calls)
      BY <1>1, <2>2 DEF CallsMade, BudgetInv, TypeOK
    <3> QED
      BY <1>2, <2>3, <3>1 DEF Sound
  <2>5. m.finished = r.finished
    BY <1>2, <1>4, <2>3, <2>4, SoundToolFinished
  <2> QED
    BY <1>5, <2>1, <2>5
<1> QED
  BY <1>7, <1>8

LEMMA ResultRecorded ==
  ASSUME BudgetInv, TypeOK', RecorderInv, pending_call # NoCall,
         NEW o \in Results(pending_call), RecordResult(o),
         run' = Apply(run, ToolFinished(o))
  PROVE  RecorderInv'
<1>1. /\ pc = "calling" /\ pc' = "loop" /\ pending_call' = NoCall
      /\ RecordToolResult(pending_call, o)
  BY DEF RecordResult, ToolAnswers
<1>2. PICK m : m = run'
  OBVIOUS
<1>3. /\ Sound(m, tool_history', 0) /\ AllSettled(m) /\ m.observations = observations'
      /\ ~m.finished
  BY <1>1, <1>2, AnswerRecorded
<1>4. CallsMade' = tool_history' /\ Open' = 0 /\ ~Ended'
  BY <1>1 DEF CallsMade, Open, Ended
<1>5. Continues(observations', m.observations)
  BY <1>3, ContinuesSame DEF TypeOK
<1> QED
  BY <1>1, <1>2, <1>3, <1>4, <1>5 DEF RecorderInv, AllSettled

LEMMA RetryRecorded ==
  ASSUME BudgetInv, TypeOK', RecorderInv, pending_call # NoCall,
         NEW o \in Results(pending_call), RetryTimeout(o),
         run' = Apply(Apply(run, ToolFinished(o)), ToolStarted(pending_call, TRUE))
  PROVE  RecorderInv'
<1>1. /\ pc = "calling" /\ pc' = "calling" /\ pending_call' = pending_call
      /\ RecordToolResult(pending_call, o) /\ o.outcome = "TOOL_TIMEOUT"
  BY DEF RetryTimeout, ToolAnswers, RetryAllowed
<1>2. PICK m, retry, c : m = Apply(run, ToolFinished(o)) /\ retry = TRUE /\ c = pending_call
  OBVIOUS
<1>3. /\ Sound(m, tool_history', 0) /\ AllSettled(m) /\ m.observations = observations'
      /\ ~m.finished
      /\ LET last == m.tool_attempts[Len(m.tool_attempts)]
         IN  /\ Len(m.tool_attempts) > 0
             /\ last.decision = Len(m.decisions) /\ last.call = pending_call
             /\ m.observations[last.observation] = o
  BY <1>1, <1>2, AnswerRecorded
<1>4. PICK calls : calls = tool_history'
  OBVIOUS
<1>5. calls \in Seq(Calls) /\ c \in Calls /\ retry \in BOOLEAN
  BY <1>2, <1>4 DEF BudgetInv, TypeOK
<1>6. Len(m.decisions) \in Nat /\ Len(m.decisions) > 0
  <2>1. /\ Len(m.tool_attempts) \in 1..Len(m.tool_attempts) /\ Len(m.decisions) \in Nat
    BY <1>3, ShapeFacts DEF Sound
  <2>2. Linked(m, Len(m.tool_attempts))
    BY <1>3, <2>1 DEF Sound
  <2> QED
    BY <2>1, <2>2 DEF Linked
<1>7. \A i \in 1..Len(m.decisions) : i # Len(m.decisions) => Settled(m, i)
  BY <1>3 DEF AllSettled
<1>8. LET last == m.tool_attempts[Len(m.tool_attempts)]
      IN  retry <=> /\ Len(m.tool_attempts) > 0
                    /\ last.decision = Len(m.decisions)
                    /\ last.call = c
                    /\ m.observations[last.observation].outcome = "TOOL_TIMEOUT"
  BY <1>1, <1>2, <1>3
<1>9. /\ pending_call' = c /\ tool_history' = calls /\ Sound(m, calls, 0)
      /\ run' = Apply(m, ToolStarted(c, retry))
  BY <1>1, <1>2, <1>3, <1>4
<1> QED
  BY <1>1, <1>3, <1>5, <1>6, <1>7, <1>8, <1>9, CallRecorded

\* The recorder only listens: a recorded step is a step of the loop.
LEMMA RecordedStep ==
  ASSUME [RNext]_rvars
  PROVE  [Next]_vars
BY DEF RNext, RLocal, RProviderAnswers, RToolReturns, RRaise, RInterrupt, Hooked, Next,
       Local, ProviderAnswers, ToolReturns, rvars

\* Both ways into the deadline's handler: the timer's, and a TimeoutError of the awaited
\* collaborator's own, which is noted first.
LEMMA TimeOutRecorded ==
  ASSUME BudgetInv, TypeOK', RecorderInv,
         \/ Hooked(ResumeTimedOut, CancellationHooks \o HandlerHooks \o <<Finish>>)
         \/ Hooked(RaiseTimeoutError, RaisedAt("TimeoutError") \o HandlerHooks \o <<Finish>>),
         run' = Recorded(run, hooks')
  PROVE  RecorderInv'
<1>1. Suspended /\ ReturnTimedOut
  BY DEF Hooked, ResumeTimedOut, RaiseTimeoutError
<1>2. PICK type, scope : /\ type = IF Hooked(ResumeTimedOut,
                                              CancellationHooks \o HandlerHooks \o <<Finish>>)
                                   THEN "SESSION_TIMEOUT" ELSE "TimeoutError"
                         /\ scope = "decision"
  OBVIOUS
<1>3. type \in ErrorTypes
  BY <1>2 DEF ErrorTypes, Outcomes, LoopErrors
<1>4. CASE pc = "deciding"
  <2>1. pending_call = NoCall /\ HandlerHooks = <<>>
    BY <1>4 DEF BudgetInv, TaskConsistent, HandlerHooks
  <2>2. /\ ReturnTimedOut
        /\ hooks' = <<Error(scope, type)>> \o <<>> \o <<Finish>>
    BY <1>1, <1>2, <1>4, <2>1
       DEF Hooked, ResumeTimedOut, CancellationHooks, RaisedAt
  <2>3. hooks' = <<Error(scope, type), Finish>>
    BY <2>2, Concatenations
  <2>4. run' = Apply(Apply(run, Error(scope, type)), Finish)
    BY <2>3, RecordedAfter
  <2>5. UNCHANGED <<tool_history, pending_call, observations>> /\ pc' = "returned"
    BY <1>1, <2>1 DEF ReturnTimedOut, Return
  <2>6. Continues(observations', observations) /\ Ended'
    BY <2>5, ContinuesSame DEF Ended, TypeOK
  <2> QED
    BY <1>2, <1>3, <1>4, <2>4, <2>5, <2>6, DecisionFailureRecorded
<1>5. CASE pc = "calling" /\ Hooked(ResumeTimedOut,
                                    CancellationHooks \o HandlerHooks \o <<Finish>>)
  <2>1. pending_call # NoCall
    BY <1>5 DEF BudgetInv, TaskConsistent
  <2>2. hooks' = <<>> \o <<TimedOutCall>> \o <<Finish>>
    BY <1>5, <2>1 DEF Hooked, ResumeTimedOut, CancellationHooks, HandlerHooks
  <2>3. hooks' = <<TimedOutCall, Finish>>
    BY <2>2, Concatenations
  <2>4. run' = Apply(Apply(run, TimedOutCall), Finish)
    BY <2>3, RecordedAfter
  <2>5. PICK r : r = run
    OBVIOUS
  <2>6. Sound(r, CallsMade, 1) /\ AllSettled(r) /\ r.observations = observations
    BY <1>5, <2>1, <2>5 DEF RecorderInv, Open, AllSettled
  <2> QED
    BY <1>1, <2>1, <2>4, <2>5, <2>6, TimedOutCallRecorded
<1>6. CASE pc = "calling" /\ Hooked(RaiseTimeoutError,
                                    RaisedAt("TimeoutError") \o HandlerHooks \o <<Finish>>)
  <2>1. pending_call # NoCall
    BY <1>6 DEF BudgetInv, TaskConsistent
  <2>2. PICK h : h = Error("tool", "TimeoutError")
    OBVIOUS
  <2>3. hooks' = <<h>> \o <<TimedOutCall>> \o <<Finish>>
    BY <1>6, <2>1, <2>2 DEF Hooked, RaisedAt, HandlerHooks
  <2>4. hooks' = <<h, TimedOutCall, Finish>>
    BY <2>3, Concatenations
  <2>5. run' = Apply(Apply(Apply(run, h), TimedOutCall), Finish)
    BY <2>4, RecordedAfter
  <2>6. PICK r : r = Apply(run, h)
    OBVIOUS
  <2>7. PICK t : t = "TimeoutError"
    OBVIOUS
  <2>8. h.hook = "error" /\ h.scope = "tool" /\ h.error_type = t /\ t \in ErrorTypes
    BY <2>2, <2>7 DEF Error, ErrorTypes
  <2>9. Sound(r, CallsMade, 1) /\ AllSettled(r) /\ r.observations = observations
    BY <1>6, <2>1, <2>6, <2>8, CallFails
  <2> QED
    BY <1>1, <2>1, <2>5, <2>6, <2>9, TimedOutCallRecorded
<1> QED
  BY <1>1, <1>4, <1>5, <1>6 DEF Suspended

\* A run that is left by an exception or by a cancellation.
LEMMA AbandonRecorded ==
  ASSUME BudgetInv, TypeOK', RecorderInv,
         \/ Hooked(ResumeCancelled, CancellationHooks \o <<Finish>>)
         \/ Hooked(RaiseException, RaisedAt("Exception") \o <<Finish>>),
         run' = Recorded(run, hooks')
  PROVE  RecorderInv'
<1>1. /\ Suspended /\ Ended'
      /\ UNCHANGED <<tool_history, pending_call, observations, expired, cancelled>>
  BY DEF Hooked, ResumeCancelled, RaiseException, session, Ended
<1>2. PICK type, scope, at :
        /\ type = IF Hooked(ResumeCancelled, CancellationHooks \o <<Finish>>)
                  THEN IF pc = "deciding" /\ expired THEN "SESSION_TIMEOUT" ELSE "CANCELLED"
                  ELSE "Exception"
        /\ scope = "decision" /\ at = "tool"
  OBVIOUS
<1>3. type \in ErrorTypes
  BY <1>2 DEF ErrorTypes, Outcomes, LoopErrors
<1>4. Continues(observations', observations)
  BY <1>1, ContinuesSame DEF TypeOK
<1>5. CASE pc = "deciding"
  <2>1. hooks' = <<Error(scope, type)>> \o <<Finish>>
    BY <1>2, <1>5 DEF Hooked, CancellationHooks, RaisedAt
  <2>2. hooks' = <<Error(scope, type), Finish>>
    BY <2>1, Concatenations
  <2>3. run' = Apply(Apply(run, Error(scope, type)), Finish)
    BY <2>2, RecordedAfter
  <2> QED
    BY <1>1, <1>2, <1>3, <1>4, <1>5, <2>3, DecisionFailureRecorded
<1>6. CASE pc = "calling" /\ hooks' = <<Error(at, type)>> \o <<Finish>>
  <2>1. pending_call # NoCall
    BY <1>6 DEF BudgetInv, TaskConsistent
  <2>2. hooks' = <<Error(at, type), Finish>>
    BY <1>6, Concatenations
  <2>3. run' = Apply(Apply(run, Error(at, type)), Finish)
    BY <2>2, RecordedAfter
  <2> QED
    BY <1>1, <1>2, <1>3, <1>6, <2>1, <2>3, CallFailureRecorded
<1>7. CASE pc = "calling" /\ hooks' # <<Error(at, type)>> \o <<Finish>>
  <2>1. expired /\ cancelled /\ hooks' = <<>> \o <<Finish>>
    BY <1>2, <1>7 DEF Hooked, ResumeCancelled, CancellationHooks, RaisedAt
  <2>2. hooks' = <<Finish>>
    BY <2>1, Concatenations
  <2>3. run' = Apply(run, Finish)
    BY <2>2, RecordedAfter
  <2>4. PICK calls, open : /\ calls = CallsMade /\ calls = CallsMade'
                           /\ open = Open /\ open = Open'
    BY <1>1 DEF CallsMade, Open
  <2>5. /\ Sound(run, calls, open) /\ AllSettled(run)
        /\ Continues(observations', run.observations) /\ observations' \in Seq(Observation)
    BY <1>4, <1>7, <2>4 DEF RecorderInv, AllSettled, TypeOK
  <2> QED
    BY <1>1, <2>1, <2>3, <2>4, <2>5, RecordEnds
<1> QED
  BY <1>1, <1>5, <1>6, <1>7 DEF Suspended

LEMMA ProviderRecorded ==
  ASSUME BudgetInv, TypeOK', RecorderInv, RProviderAnswers, run' = Recorded(run, hooks')
  PROVE  RecorderInv'
<1>1. ASSUME NEW answer \in Answers,
             Hooked(AcceptFinalAnswer(answer), <<DecisionReturned(FinalAnswer), Finish>>)
      PROVE  RecorderInv'
  <2>1. run' = Apply(Apply(run, DecisionReturned(FinalAnswer)), Finish)
    BY <1>1, RecordedAfter DEF Hooked
  <2> QED
    BY <1>1, <2>1, FinalAnswerRecorded DEF Hooked
<1>2. CASE Hooked(ProviderFails, <<Error("decision", "PROVIDER_ERROR"), Finish>>)
  <2>1. PICK scope, type : scope = "decision" /\ type = "PROVIDER_ERROR"
    OBVIOUS
  <2>2. type \in ErrorTypes
    BY <2>1 DEF ErrorTypes, Outcomes
  <2>3. hooks' = <<Error(scope, type), Finish>>
    BY <1>2, <2>1 DEF Hooked
  <2>4. run' = Apply(Apply(run, Error(scope, type)), Finish)
    BY <2>3, RecordedAfter
  <2>5. /\ pc = "deciding" /\ Ended' /\ UNCHANGED <<tool_history, pending_call>>
        /\ observations' = Append(observations, Failure(Provider, "PROVIDER_ERROR"))
        /\ observations \in Seq(Observation)
    BY <1>2 DEF Hooked, ProviderFails, DecisionArrives, RecordFeedback, Return, Ended,
                BudgetInv, TypeOK
  <2>6. Failure(Provider, "PROVIDER_ERROR") \in Observation
    BY FailureType DEF Outcomes
  <2>7. Continues(observations', observations)
    BY <2>5, <2>6, ContinuesAppend
  <2> QED
    BY <2>1, <2>2, <2>4, <2>5, <2>7, DecisionFailureRecorded
<1>3. ASSUME NEW r \in Requests, NEW e \in {"REJECTED", "TOOL_CALL_LIMIT_REACHED",
                                            "IDENTICAL_TOOL_CALL_LIMIT_REACHED"},
             Refuse(ToolName[r], e), hooks' = <<DecisionReturned(r), Error("decision", e)>>
      PROVE  RecorderInv'
  <2>1. PICK scope : scope = "decision"
    OBVIOUS
  <2>2. e \in ErrorTypes /\ e \in Outcomes
    BY DEF ErrorTypes, Outcomes, LoopErrors
  <2>3. PICK t \in Tools : t = ToolName[r]
    BY RequestsAssumption
  <2>4. hooks' = <<DecisionReturned(r), Error(scope, e)>>
    BY <1>3, <2>1
  <2>5. run' = Apply(Apply(run, DecisionReturned(r)), Error(scope, e))
    BY <2>4, RecordedAfter
  <2> QED
    BY <1>3, <2>1, <2>2, <2>3, <2>5, RefusalRecorded
<1>4. ASSUME NEW r \in Requests,
             Hooked(Dispatch(r), <<DecisionReturned(r), ToolStarted(Normal[r], FALSE)>>)
      PROVE  RecorderInv'
  <2>1. PICK h : h = ToolStarted(Normal[r], FALSE)
    OBVIOUS
  <2>2. hooks' = <<DecisionReturned(r), h>>
    BY <1>4, <2>1 DEF Hooked
  <2>3. run' = Apply(Apply(run, DecisionReturned(r)), h)
    BY <2>2, RecordedAfter
  <2> QED
    BY <1>4, <2>1, <2>3, DispatchRecorded DEF Hooked
<1>5. ASSUME NEW r \in Requests,
             \/ Hooked(RejectRequest(r),
                       <<DecisionReturned(r), Error("decision", "REJECTED")>>)
             \/ Hooked(RefuseOverBudget(r),
                       <<DecisionReturned(r), Error("decision", "TOOL_CALL_LIMIT_REACHED")>>)
             \/ Hooked(RefuseIdentical(r),
                       <<DecisionReturned(r),
                         Error("decision", "IDENTICAL_TOOL_CALL_LIMIT_REACHED")>>)
      PROVE  RecorderInv'
  BY <1>3, <1>5 DEF Hooked, RejectRequest, RefuseOverBudget, RefuseIdentical
<1> QED
  BY <1>1, <1>2, <1>4, <1>5 DEF RProviderAnswers

\* The steps that call no hook.
LEMMA QuietRecorded ==
  ASSUME RecorderInv, run' = run,
         TimerFires \/ Cancel \/ Rest \/ UNCHANGED vars
  PROVE  RecorderInv'
<1>1. CASE UNCHANGED vars
  BY <1>1 DEF vars, session, RecorderInv, CallsMade, Open, Ended
<1>2. CASE TimerFires \/ Cancel
  <2>1. ~Ended /\ ~Ended'
    BY <1>2 DEF TimerFires, Cancel, Suspended, Ended
  <2> QED
    BY <1>2, <2>1 DEF TimerFires, Cancel, session, RecorderInv, CallsMade, Open
<1> QED
  BY <1>1, <1>2 DEF Rest

LEMMA RecorderStep ==
  ASSUME BudgetInv, RecorderInv, [ENext]_evars
  PROVE  BudgetInv' /\ RecorderInv'
<1>1. BudgetInv' /\ TypeOK'
  BY RecordedStep, BudgetStep DEF ENext, evars, BudgetInv
<1>2. ASSUME RNext, run' = Recorded(run, hooks')
      PROVE  RecorderInv'
  <2>1. CASE Hooked(StartDecision, <<DecisionStarted>>)
    <3>1. run' = Apply(run, DecisionStarted)
      BY <1>2, <2>1, RecordedAfter DEF Hooked
    <3> QED
      BY <1>1, <2>1, <3>1, StartDecisionRecorded DEF Hooked
  <2>2. CASE Hooked(ReachDecisionLimit, <<Finish>>)
    <3>1. run' = Apply(run, Finish)
      BY <1>2, <2>2, RecordedAfter DEF Hooked
    <3> QED
      BY <1>1, <2>2, <3>1, DecisionLimitRecorded DEF Hooked
  <2>3. CASE \/ Hooked(ResumeTimedOut, CancellationHooks \o HandlerHooks \o <<Finish>>)
             \/ Hooked(RaiseTimeoutError,
                       RaisedAt("TimeoutError") \o HandlerHooks \o <<Finish>>)
    BY <1>1, <1>2, <2>3, TimeOutRecorded
  <2>4. CASE \/ Hooked(ResumeCancelled, CancellationHooks \o <<Finish>>)
             \/ Hooked(RaiseException, RaisedAt("Exception") \o <<Finish>>)
    BY <1>1, <1>2, <2>4, AbandonRecorded
  <2>5. CASE RProviderAnswers
    BY <1>1, <1>2, <2>5, ProviderRecorded
  <2>6. ASSUME pending_call # NoCall, NEW o \in Results(pending_call),
               Hooked(RecordResult(o), <<ToolFinished(o)>>)
        PROVE  RecorderInv'
    <3>1. run' = Apply(run, ToolFinished(o))
      BY <1>2, <2>6, RecordedAfter DEF Hooked
    <3> QED
      BY <1>1, <2>6, <3>1, ResultRecorded DEF Hooked
  <2>7. ASSUME pending_call # NoCall, NEW o \in Results(pending_call),
               Hooked(RetryTimeout(o), <<ToolFinished(o), ToolStarted(pending_call, TRUE)>>)
        PROVE  RecorderInv'
    <3>1. PICK h : h = ToolStarted(pending_call, TRUE)
      OBVIOUS
    <3>2. hooks' = <<ToolFinished(o), h>>
      BY <2>7, <3>1 DEF Hooked
    <3>3. run' = Apply(Apply(run, ToolFinished(o)), h)
      BY <1>2, <3>2, RecordedAfter
    <3> QED
      BY <1>1, <2>7, <3>1, <3>3, RetryRecorded DEF Hooked
  <2>8. CASE RInterrupt \/ Hooked(Rest, <<>>)
    <3>1. run' = run
      BY <1>2, <2>8, RecordedAfter DEF RInterrupt, Hooked
    <3> QED
      BY <2>8, <3>1, QuietRecorded DEF RInterrupt, Hooked
  <2> QED
    BY <1>2, <2>1, <2>2, <2>3, <2>4, <2>5, <2>6, <2>7, <2>8
       DEF RNext, RLocal, RToolReturns, RRaise
<1>3. CASE UNCHANGED evars
  <2>1. UNCHANGED rvars /\ run' = run
    BY <1>3 DEF evars
  <2>2. UNCHANGED vars
    BY <2>1 DEF rvars
  <2> QED
    BY <1>1, <2>1, <2>2, QuietRecorded
<1> QED
  BY <1>1, <1>2, <1>3 DEF ENext

LEMMA RecorderInit ==
  ASSUME EInit
  PROVE  BudgetInv /\ RecorderInv
<1>1. Init /\ BudgetInv
  BY BudgetInit DEF EInit, RInit
<1>2. /\ run = NewRun /\ observations = <<>> /\ pending_call = NoCall
      /\ tool_history = <<>> /\ ~Ended /\ pc = "loop"
  BY <1>1 DEF EInit, Init, Ended
<1>3. /\ run.observations = <<>> /\ run.decisions = <<>> /\ run.tool_attempts = <<>>
      /\ run.errors = <<>> /\ ~run.finished
      /\ run = [observations |-> run.observations, decisions |-> run.decisions,
                tool_attempts |-> run.tool_attempts, errors |-> run.errors,
                diagnosis |-> run.diagnosis, finished |-> run.finished]
  BY <1>2 DEF NewRun
<1>4. PICK r, calls, open : r = run /\ calls = CallsMade /\ open = Open
  OBVIOUS
<1>5. calls = <<>> /\ open = 0
  BY <1>2, <1>4 DEF CallsMade, Open
<1>6. Shape(r) /\ ToSet(r.errors) = {}
  <2>1. /\ r = [observations |-> r.observations, decisions |-> r.decisions,
                tool_attempts |-> r.tool_attempts, errors |-> r.errors,
                diagnosis |-> r.diagnosis, finished |-> r.finished]
        /\ r.observations = <<>> /\ r.decisions = <<>> /\ r.tool_attempts = <<>>
        /\ r.errors = <<>>
    BY <1>3, <1>4
  <2>3. \A S : <<>> \in Seq(S)
    OBVIOUS
  <2>4. /\ r.observations \in Seq(Observation) /\ r.decisions \in Seq(DecisionRecord)
        /\ r.tool_attempts \in Seq(Attempt) /\ r.errors \in Seq(ErrorRecord)
    BY <2>1, <2>3
  <2>5. Shape(r)
    BY <2>1, <2>4 DEF Shape
  <2>2. DOMAIN r.errors = {}
    BY <1>3, <1>4
  <2> QED
    BY <2>2, <2>5 DEF ToSet
<1>7. Sound(r, calls, open)
  BY <1>3, <1>4, <1>5, <1>6 DEF Sound
<1>8. Continues(observations, run.observations)
  BY <1>2, <1>3 DEF Continues
<1> QED
  BY <1>1, <1>2, <1>3, <1>4, <1>7, <1>8 DEF RecorderInv

-----------------------------------------------------------------------------
(* What the record says *)

\* A snapshot of the record can be taken at any moment: its references resolve, and
\* no decision has seen the result of its own calls.
THEOREM LinksAreValid == ESpec => []LinksValid
<1>1. ASSUME RecorderInv PROVE LinksValid
  <2>1. Sound(run, CallsMade, Open) /\ Shape(run)
    BY <1>1 DEF RecorderInv, Sound
  <2>2. ASSUME NEW t \in ToSet(run.tool_attempts)
        PROVE  /\ t.decision \in 1..Len(run.decisions)
               /\ t.observation <= Len(run.observations)
               /\ \A i \in 1..Len(run.decisions) :
                    t.observation \in 1..run.decisions[i].prior => t.decision < i
    <3>1. PICK i \in 1..Len(run.tool_attempts) : t = run.tool_attempts[i]
      <4>1. PICK attempts : attempts = run.tool_attempts
        OBVIOUS
      <4>2. attempts \in Seq(Attempt) /\ t \in ToSet(attempts)
        BY <2>1, <4>1 DEF Shape
      <4>3. DOMAIN attempts = 1..Len(attempts)
        BY <4>2
      <4> QED
        BY <4>1, <4>2, <4>3 DEF ToSet
    <3>2. Linked(run, i)
      BY <2>1 DEF Sound
    <3> QED
      BY <3>1, <3>2 DEF Linked
  <2> QED
    BY <2>1, <2>2 DEF Sound, LinksValid
<1>2. EInit => BudgetInv /\ RecorderInv
  BY RecorderInit
<1>3. BudgetInv /\ RecorderInv /\ [ENext]_evars => BudgetInv' /\ RecorderInv'
  BY RecorderStep
<1> QED
  BY <1>1, <1>2, <1>3, PTL DEF ESpec

\* The attempts on record tell the calls of the session, each with the result that was
\* its own and as the retry that it was.
THEOREM AttemptsAreTheCalls == ESpec => []AttemptsTellTheCalls
<1>1. ASSUME RecorderInv PROVE AttemptsTellTheCalls
  <2>1. Sound(run, CallsMade, Open) /\ Shape(run)
    BY <1>1 DEF RecorderInv, Sound
  <2>2. PICK n \in Nat : n = Len(run.tool_attempts)
    BY <2>1, ShapeFacts
  <2>3. \A i \in 1..n : Linked(run, i) /\ Retried(run, i)
    BY <2>1, <2>2 DEF Sound
  <2>4. ASSUME NEW i \in 1..n,
               NEW later \in ToSet(SubSeq(run.tool_attempts, i + 1, n)),
               later.observation # 0
        PROVE  run.tool_attempts[i].observation < later.observation
    <3>1. PICK s : s = SubSeq(run.tool_attempts, i + 1, n)
      OBVIOUS
    <3>2. DOMAIN s = 1..(n - i) /\ \A k \in 1..(n - i) : s[k] = run.tool_attempts[i + k]
      BY <2>1, <2>2, <3>1 DEF Shape
    <3>3. PICK k \in 1..(n - i) : later = s[k]
      BY <2>4, <3>1, <3>2 DEF ToSet
    <3>4. /\ i + k \in 1..n /\ i < i + k
          /\ later = run.tool_attempts[i + k]
      BY <2>2, <3>2, <3>3
    <3> QED
      BY <2>1, <2>2, <2>4, <3>4 DEF Sound
  <2>5. ASSUME NEW i \in 1..n PROVE LinkedToItsResult(i) /\ MarkedAsRetry(i)
    BY <2>2, <2>3, <2>4, <2>5 DEF Linked, Retried, LinkedToItsResult, MarkedAsRetry
  <2> QED
    BY <2>2, <2>5 DEF AttemptsTellTheCalls
<1>2. EInit => BudgetInv /\ RecorderInv
  BY RecorderInit
<1>3. BudgetInv /\ RecorderInv /\ [ENext]_evars => BudgetInv' /\ RecorderInv'
  BY RecorderStep
<1> QED
  BY <1>1, <1>2, <1>3, PTL DEF ESpec

\* A finished record is the session: its observations, its diagnosis, and as answered
\* attempts the calls of the history.
THEOREM FinishedRecords == ESpec => []FinishedRecordIsTheSession
<1>1. ASSUME BudgetInv, RecorderInv PROVE FinishedRecordIsTheSession
  <2> SUFFICES ASSUME run.finished
               PROVE  /\ run.observations = observations
                      /\ run.diagnosis = diagnosis
                      /\ Len(Answered) = tool_call_count
                      /\ \A i \in 1..tool_call_count : Answered[i].call = tool_history[i]
    BY DEF FinishedRecordIsTheSession
  <2>1. Ended /\ run.observations = observations /\ run.diagnosis = diagnosis
    BY <1>1 DEF RecorderInv, Ended
  <2>2. Sound(run, CallsMade, Open) /\ Shape(run)
    BY <1>1 DEF RecorderInv, Sound
  <2>3. /\ tool_call_count = Len(tool_history) /\ tool_history \in Seq(Calls)
        /\ pending_call = NoCall \/ pending_call \in Calls
    BY <1>1 DEF BudgetInv, TypeOK, TaskConsistent
  <2> DEFINE s == run.tool_attempts
             T == {t \in Attempt : t.observation # 0}
             n == Len(s)
  <2>4. s \in Seq(Attempt) /\ n \in Nat /\ Answered = Selected(s, T)
    BY <2>2, ShapeFacts DEF Shape, Answered
  <2>5. /\ n = Len(CallsMade)
        /\ \A i \in 1..n : /\ s[i].call = CallsMade[i]
                           /\ s[i].observation = 0 <=> Open = 1 /\ i = n
    BY <2>2 DEF Sound
  <2> HIDE DEF s, n
  <2>6. CASE pending_call = NoCall
    <3>1. CallsMade = tool_history /\ Open = 0
      BY <2>6 DEF CallsMade, Open
    <3>2. \A i \in 1..n : s[i] \in T
      BY <2>4, <2>5, <3>1 DEF n
    <3>3. Selected(s, T) = s
      BY <2>4, <3>2, SelectedAll DEF n
    <3> QED
      BY <2>1, <2>3, <2>4, <2>5, <3>1, <3>3 DEF n
  <2>7. CASE pending_call # NoCall
    <3>1. CallsMade = Append(tool_history, pending_call) /\ Open = 1
      BY <2>7 DEF CallsMade, Open
    <3>2. /\ n = Len(tool_history) + 1 /\ Len(tool_history) \in Nat
          /\ \A i \in 1..Len(tool_history) : CallsMade[i] = tool_history[i]
      BY <2>3, <2>5, <2>7, <3>1
    <3>3. PICK front, last : front = SubSeq(s, 1, n - 1) /\ last = s[n]
      OBVIOUS
    <3>4. /\ front \in Seq(Attempt) /\ Len(front) = n - 1 /\ last \in Attempt
          /\ s = Append(front, last)
          /\ \A i \in 1..(n - 1) : front[i] = s[i]
      BY <2>4, <3>2, <3>3, FrontAndLast DEF n
    <3>5. last \notin T
      BY <2>5, <3>1, <3>2, <3>3
    <3>6. \A i \in 1..Len(front) : front[i] \in T
      <4> SUFFICES ASSUME NEW i \in 1..(n - 1) PROVE front[i] \in T
        BY <3>4
      <4>1. i \in 1..n /\ i # n
        BY <3>2
      <4>2. s[i] \in Attempt
        BY <2>4, <4>1 DEF n
      <4> QED
        BY <2>5, <3>4, <4>1, <4>2
    <3> HIDE DEF T
    <3>7. Selected(s, T) = front
      <4>1. Selected(Append(front, last), T) = Selected(front, T)
        BY <3>4, <3>5, SelectedAppend
      <4>2. Selected(front, T) = front
        BY <3>4, <3>6, SelectedAll
      <4> QED
        BY <3>4, <4>1, <4>2
    <3>8. \A i \in 1..tool_call_count : front[i].call = tool_history[i]
      BY <2>3, <2>5, <3>2, <3>4
    <3> QED
      BY <2>1, <2>3, <2>4, <3>2, <3>4, <3>7, <3>8
  <2> QED
    BY <2>6, <2>7
<1>2. EInit => BudgetInv /\ RecorderInv
  BY RecorderInit
<1>3. BudgetInv /\ RecorderInv /\ [ENext]_evars => BudgetInv' /\ RecorderInv'
  BY RecorderStep
<1> QED
  BY <1>1, <1>2, <1>3, PTL DEF ESpec

\* Every failure is on record where it happened, but a call's that the timer and a
\* cancellation interrupted together.
THEOREM FailuresAreRecorded == ESpec => []FailuresRecorded
<1>1. ASSUME BudgetInv, RecorderInv PROVE FailuresRecorded
  <2> SUFFICES ASSUME run.finished PROVE FailuresRecorded
    BY DEF FailuresRecorded
  <2>1. Ended /\ run.observations = observations /\ pc # "deciding"
        /\ (pending_call = NoCall \/ Noted(run, Len(run.tool_attempts))
              \/ (expired /\ cancelled))
    BY <1>1 DEF RecorderInv, Ended
  <2>2. Sound(run, CallsMade, Open) /\ Shape(run)
    BY <1>1 DEF RecorderInv, Sound
  <2>3. ASSUME NEW i \in 1..Len(run.tool_attempts)
        PROVE  LET k == run.tool_attempts[i].observation
                   noted == {e \in ToSet(run.errors) : e.scope = "tool" /\ e.tool_attempt = i}
               IN  IF k = 0 THEN noted # {} \/ (expired /\ cancelled)
                   ELSE Succeeded(observations[k])
                          \/ \E e \in noted : e.error_type = observations[k].outcome
    <3>1. CASE run.tool_attempts[i].observation = 0
      <4>1. i = Len(run.tool_attempts) /\ pending_call # NoCall
        BY <2>2, <3>1 DEF Sound, Open
      <4> QED
        BY <2>1, <3>1, <4>1 DEF Noted
    <3>2. CASE run.tool_attempts[i].observation # 0
      <4>1. Linked(run, i)
        BY <2>2 DEF Sound
      <4> QED
        BY <2>1, <3>2, <4>1 DEF Linked, ErrorOf
    <3> QED
      BY <3>1, <3>2
  <2>4. ASSUME NEW i \in 1..Len(run.decisions)
        PROVE  \/ run.decisions[i].decision = FinalAnswer
               \/ \E t \in ToSet(run.tool_attempts) : t.decision = i
               \/ \E e \in ToSet(run.errors) : e.scope = "decision" /\ e.decision = i
    <3>1. Settled(run, i)
      BY <1>1, <2>1 DEF RecorderInv
    <3>2. \A j \in 1..Len(run.tool_attempts) : run.tool_attempts[j] \in ToSet(run.tool_attempts)
      BY <2>2 DEF ToSet, Shape
    <3> QED
      BY <3>1, <3>2 DEF Settled, DecisionNoted
  <2> QED
    BY <2>3, <2>4 DEF FailuresRecorded
<1>2. EInit => BudgetInv /\ RecorderInv
  BY RecorderInit
<1>3. BudgetInv /\ RecorderInv /\ [ENext]_evars => BudgetInv' /\ RecorderInv'
  BY RecorderStep
<1> QED
  BY <1>1, <1>2, <1>3, PTL DEF ESpec

-----------------------------------------------------------------------------
(* A timeline that tells the observations *)

TimelineShape(t) ==
  /\ t = [steps |-> t.steps, selected |-> t.selected, provider_failed |-> t.provider_failed,
          attempt_count |-> t.attempt_count]
  /\ t.steps \in Seq(InvestigationStep)
  /\ t.selected \in InvestigationStep \cup {NULL}

CallSteps == {s \in InvestigationStep : s.kind = "tool_attempt"}
ShownSteps == {s \in InvestigationStep : s.kind # "session_error"}
ToldObservations == {o \in Observation : o.outcome # "PROVIDER_ERROR"}

\* The step s tells the observation o.
Tells(s, o) ==
  /\ (s.kind = "tool_attempt") <=> IsToolResult(o)
  /\ s.tool = SafeName(o.tool)
  /\ s.success = Succeeded(o)
  /\ s.error_category = IF Succeeded(o) THEN NULL ELSE o.outcome

\* The attempts among the steps are these calls.
AreAttempts(steps, calls) ==
  LET attempts == Selected(steps, CallSteps)
  IN  /\ Len(attempts) = Len(calls)
      /\ \A i \in 1..Len(attempts) : attempts[i].tool = ToolName[calls[i]]

\* A timeline of these observations and calls, of which the last one is open (1: its
\* step has no observation yet) or none.
Telling(t, obs, calls, open) ==
  /\ TimelineShape(t)
  /\ t.provider_failed = FALSE
  /\ obs \in Seq(ToldObservations)
  /\ calls \in Seq(Calls)
  /\ Len(t.steps) = Len(obs) + open
  /\ \A i \in 1..Len(t.steps) : t.steps[i].kind # "session_error"
  /\ \A i \in 1..Len(obs) : Tells(t.steps[i], obs[i])
  /\ AreAttempts(t.steps, calls)
  /\ open = 1 => /\ Len(calls) > 0
                 /\ t.steps[Len(t.steps)].kind = "tool_attempt"
                 /\ t.steps[Len(t.steps)].tool = ToolName[calls[Len(calls)]]

DemoInv ==
  /\ ~Ended => /\ Telling(timeline, observations, CallsMade, Open)
               /\ \A i \in 1..Len(observations) :
                    observations[i].outcome # "SESSION_TIMEOUT"
  /\ pc = "deciding" => timeline.selected = NULL
  /\ pc = "calling" => timeline.steps[Len(timeline.steps)].error_category = NULL
  /\ Ended => TimelineFollowsSession /\ OnlyProviderFailuresAre502

-----------------------------------------------------------------------------
(* The hooks *)

LEMMA SafeStepFacts ==
  ASSUME NEW tool \in Tools \cup {NULL}, NEW kind \in {"tool_attempt", "rejected_action", "session_error"},
         NEW retry \in BOOLEAN, NEW s, s = SafeStep(tool, kind, retry)
  PROVE  /\ s \in InvestigationStep /\ s # NULL
         /\ s.kind = kind /\ s.tool = SafeName(tool)
         /\ s.success = NULL /\ s.error_category = NULL
<1>1. SafeName(tool) \in ShownTools \cup {NULL}
  BY DEF SafeName
<1>2. /\ s.kind = kind /\ s.tool = SafeName(tool)
      /\ s.success = NULL /\ s.error_category = NULL
  BY DEF SafeStep
<1>3. s \in InvestigationStep
  BY <1>1 DEF SafeStep, InvestigationStep
<1> QED
  BY <1>2, <1>3, NullAssumption

ShownCategories == Categories \cup {"PROVIDER_ERROR", "EXECUTION_ERROR"}

FailedAs(step, c) == [step EXCEPT !.success = FALSE, !.error_category = c]

LEMMA FailedStepFacts ==
  ASSUME NEW step \in InvestigationStep, NEW c \in ShownCategories,
         NEW s, s = FailedAs(step, c)
  PROVE  /\ s \in InvestigationStep
         /\ s.kind = step.kind /\ s.tool = step.tool
         /\ s.success = FALSE /\ s.error_category = c
<1>1. /\ step.kind \in {"tool_attempt", "rejected_action", "session_error"}
      /\ step.tool \in ShownTools \cup {NULL}
      /\ step.retry \in BOOLEAN
      /\ s = [kind |-> step.kind, tool |-> step.tool, success |-> FALSE,
              error_category |-> c, retry |-> step.retry]
  BY DEF InvestigationStep, FailedAs
<1>2. s \in InvestigationStep
  BY <1>1 DEF InvestigationStep, ShownCategories
<1> QED
  BY <1>1, <1>2

\* A step is added to the attempts if it is one.
LEMMA AttemptsAppend ==
  ASSUME NEW steps \in Seq(InvestigationStep), NEW calls \in Seq(Calls),
         AreAttempts(steps, calls), NEW s \in InvestigationStep
  PROVE  /\ s.kind # "tool_attempt" => AreAttempts(Append(steps, s), calls)
         /\ \A c \in Calls : s.kind = "tool_attempt" /\ s.tool = ToolName[c]
              => AreAttempts(Append(steps, s), Append(calls, c))
<1>1. PICK a, b : a = Selected(steps, CallSteps) /\ b = Selected(Append(steps, s), CallSteps)
  OBVIOUS
<1>2. a \in Seq(InvestigationStep \cap CallSteps)
  BY <1>1, SelectedType
<1>3. b = IF s \in CallSteps THEN Append(a, s) ELSE a
  BY <1>1, SelectedAppend
<1>4. s \in CallSteps <=> s.kind = "tool_attempt"
  BY DEF CallSteps
<1>5. Len(a) = Len(calls) /\ \A i \in 1..Len(a) : a[i].tool = ToolName[calls[i]]
  BY <1>1 DEF AreAttempts
<1>6. CASE s.kind # "tool_attempt"
  BY <1>1, <1>3, <1>4, <1>5, <1>6 DEF AreAttempts
<1>7. ASSUME NEW c \in Calls, s.kind = "tool_attempt", s.tool = ToolName[c]
      PROVE  AreAttempts(Append(steps, s), Append(calls, c))
  <2>1. b = Append(a, s) /\ s \in InvestigationStep \cap CallSteps
    BY <1>3, <1>4, <1>7
  <2>2. /\ Len(b) = Len(a) + 1 /\ b[Len(a) + 1] = s /\ Len(a) \in Nat
        /\ \A i \in 1..Len(a) : b[i] = a[i]
    BY <1>2, <2>1
  <2>3. PICK more : more = Append(calls, c)
    OBVIOUS
  <2>4. /\ Len(more) = Len(calls) + 1 /\ more[Len(calls) + 1] = c
        /\ \A i \in 1..Len(calls) : more[i] = calls[i]
    BY <2>3
  <2>5. \A i \in 1..Len(b) : b[i].tool = ToolName[more[i]]
    BY <1>5, <1>7, <2>2, <2>4
  <2> QED
    BY <1>1, <1>5, <2>2, <2>3, <2>4, <2>5 DEF AreAttempts
<1> QED
  BY <1>6, <1>7

\* The attempts are the same when the last step is rewritten as an attempt of the same tool.
LEMMA AttemptsReplaced ==
  ASSUME NEW steps \in Seq(InvestigationStep), NEW calls, AreAttempts(steps, calls),
         NEW n, n = Len(steps), n > 0, NEW s \in InvestigationStep,
         steps[n].kind = "tool_attempt", s.kind = "tool_attempt", s.tool = steps[n].tool,
         NEW more, more = [steps EXCEPT ![n] = s]
  PROVE  AreAttempts(more, calls)
<1>1. steps[n] \in CallSteps /\ s \in CallSteps
  BY DEF CallSteps
<1>2. PICK a \in Seq(InvestigationStep \cap CallSteps) :
        /\ Selected(steps, CallSteps) = Append(a, steps[n])
        /\ Selected(more, CallSteps) = Append(a, s)
  <2>1. PICK f, last : f = SubSeq(steps, 1, n - 1) /\ last = steps[n]
    OBVIOUS
  <2>2. /\ f \in Seq(InvestigationStep) /\ last \in InvestigationStep
        /\ steps = Append(f, last) /\ more = Append(f, s)
    BY <2>1, FrontAndLast, LastReplaced
  <2>3. Selected(Append(f, last), CallSteps) = Append(Selected(f, CallSteps), last)
    <3>1. last \in CallSteps /\ last \in InvestigationStep /\ f \in Seq(InvestigationStep)
      BY <1>1, <2>1, <2>2
    <3> QED
      BY <3>1, SelectedAppend
  <2>4. Selected(Append(f, s), CallSteps) = Append(Selected(f, CallSteps), s)
    BY <1>1, <2>2, SelectedAppend
  <2>5. Selected(f, CallSteps) \in Seq(InvestigationStep \cap CallSteps)
    BY <2>2, SelectedType
  <2> QED
    BY <2>1, <2>2, <2>3, <2>4, <2>5
<1>3. PICK x, y, last : x = Append(a, steps[n]) /\ y = Append(a, s) /\ last = steps[n]
  OBVIOUS
<1>4. last \in InvestigationStep \cap CallSteps /\ s \in InvestigationStep \cap CallSteps
  BY <1>1, <1>3 DEF CallSteps
<1>5. x = Append(a, last)
  BY <1>3
<1>6. /\ Len(x) = Len(a) + 1 /\ Len(y) = Len(a) + 1 /\ Len(a) \in Nat
      /\ x[Len(a) + 1] = last /\ y[Len(a) + 1] = s
      /\ \A i \in 1..Len(a) : x[i] = a[i] /\ y[i] = a[i]
  BY <1>3, <1>4, <1>5
<1>7. Len(x) = Len(calls) /\ \A i \in 1..Len(x) : x[i].tool = ToolName[calls[i]]
  BY <1>2, <1>3 DEF AreAttempts
<1>8. \A i \in 1..Len(y) : y[i].tool = ToolName[calls[i]]
  BY <1>3, <1>6, <1>7
<1> QED
  BY <1>2, <1>3, <1>6, <1>7, <1>8 DEF AreAttempts

\* A tool that is called is shown by its name.
LEMMA CalledToolShown ==
  ASSUME NEW c \in Calls
  PROVE  SafeName(ToolName[c]) = ToolName[c] /\ ToolName[c] \in Tools
BY ShownAssumption, RequestsAssumption DEF Calls, SafeName

LEMMA TellingFacts ==
  ASSUME NEW t, NEW obs, NEW calls, NEW open \in 0..1, Telling(t, obs, calls, open)
  PROVE  /\ TimelineShape(t) /\ t.steps \in Seq(InvestigationStep)
         /\ Len(t.steps) \in Nat /\ Len(obs) \in Nat /\ Len(t.steps) = Len(obs) + open
         /\ obs \in Seq(Observation)
<1>1. ToldObservations \subseteq Observation
  BY DEF ToldObservations
<1> QED
  BY <1>1 DEF Telling, TimelineShape

\* What becomes of the decision's step does not matter to what is told.
LEMMA TellingSelected ==
  ASSUME NEW t, NEW obs, NEW calls, NEW open, Telling(t, obs, calls, open),
         NEW v \in InvestigationStep \cup {NULL}, NEW s, s = [t EXCEPT !.selected = v]
  PROVE  Telling(s, obs, calls, open) /\ s.selected = v /\ s.steps = t.steps
<1>1. /\ s.steps = t.steps /\ s.selected = v /\ s.provider_failed = t.provider_failed
      /\ s = [steps |-> s.steps, selected |-> s.selected,
              provider_failed |-> s.provider_failed, attempt_count |-> s.attempt_count]
  BY DEF Telling, TimelineShape
<1> QED
  BY <1>1 DEF Telling, TimelineShape

\* A call is made.
LEMMA TellingCall ==
  ASSUME NEW t, NEW obs, NEW calls, Telling(t, obs, calls, 0), NEW h,
         h.call \in Calls, h.retry \in BOOLEAN, NEW s, s = ShowToolStarted(t, h)
  PROVE  /\ Telling(s, obs, Append(calls, h.call), 1)
         /\ s.steps[Len(s.steps)].error_category = NULL
<1>1. PICK c \in Calls : c = h.call
  OBVIOUS
<1>2. PICK kind, e : kind = "tool_attempt" /\ e = SafeStep(ToolName[c], kind, h.retry)
  OBVIOUS
<1>3. /\ e \in InvestigationStep /\ e.kind = "tool_attempt" /\ e.tool = ToolName[c]
      /\ e.error_category = NULL
  <2>1. ToolName[c] \in Tools /\ SafeName(ToolName[c]) = ToolName[c]
    BY CalledToolShown
  <2>2. /\ e \in InvestigationStep /\ e.kind = kind /\ e.tool = SafeName(ToolName[c])
        /\ e.error_category = NULL
    BY <1>2, <2>1, SafeStepFacts
  <2> QED
    BY <1>2, <2>1, <2>2
<1>4. s = [t EXCEPT !.steps = Append(t.steps, e)]
  BY <1>1, <1>2 DEF ShowToolStarted
<1>5. PICK n \in Nat : n = Len(obs)
  BY TellingFacts
<1>6. TimelineShape(t) /\ Len(t.steps) = n /\ t.steps \in Seq(InvestigationStep)
  BY <1>5, TellingFacts
<1>7. /\ s.steps = Append(t.steps, e) /\ s.selected = t.selected
      /\ s.provider_failed = t.provider_failed
      /\ s = [steps |-> s.steps, selected |-> s.selected,
              provider_failed |-> s.provider_failed, attempt_count |-> s.attempt_count]
  BY <1>4, <1>6 DEF TimelineShape
<1>8. /\ s.steps \in Seq(InvestigationStep) /\ Len(s.steps) = n + 1 /\ s.steps[n + 1] = e
      /\ \A i \in 1..n : s.steps[i] = t.steps[i]
      /\ \A i \in 1..(n + 1) : i \in 1..n \/ i = n + 1
  BY <1>3, <1>6, <1>7
<1>9. TimelineShape(s)
  BY <1>6, <1>7, <1>8 DEF TimelineShape
<1>10. PICK more : more = Append(calls, c)
  OBVIOUS
<1>11. /\ more \in Seq(Calls) /\ Len(more) > 0 /\ more[Len(more)] = c
  BY <1>10 DEF Telling
<1>12. AreAttempts(s.steps, more)
  <2>1. AreAttempts(t.steps, calls) /\ calls \in Seq(Calls)
    BY DEF Telling
  <2>2. AreAttempts(Append(t.steps, e), Append(calls, c))
    BY <1>3, <1>6, <2>1, AttemptsAppend
  <2> QED
    BY <1>7, <1>10, <2>2
<1>13. \A i \in 1..Len(s.steps) : s.steps[i].kind # "session_error"
  BY <1>3, <1>6, <1>8 DEF Telling
<1>14. \A i \in 1..Len(obs) : Tells(s.steps[i], obs[i])
  BY <1>5, <1>8 DEF Telling
<1>15. Telling(s, obs, more, 1)
  BY <1>3, <1>5, <1>7, <1>8, <1>9, <1>11, <1>12, <1>13, <1>14 DEF Telling
<1> QED
  BY <1>1, <1>3, <1>8, <1>10, <1>15

\* The step of the call in flight is rewritten as another one of its tool.
LEMMA TellingReplaced ==
  ASSUME NEW t, NEW obs, NEW calls, Telling(t, obs, calls, 1),
         NEW n, n = Len(t.steps), NEW e \in InvestigationStep,
         e.kind = "tool_attempt", e.tool = t.steps[n].tool,
         NEW s, s = [t EXCEPT !.steps = [t.steps EXCEPT ![n] = e]]
  PROVE  Telling(s, obs, calls, 1) /\ Len(s.steps) = n /\ s.steps[n] = e
<1>1. /\ TimelineShape(t) /\ t.steps \in Seq(InvestigationStep)
      /\ n \in Nat /\ Len(obs) \in Nat /\ n = Len(obs) + 1
  BY TellingFacts
<1>2. PICK more : more = [t.steps EXCEPT ![n] = e]
  OBVIOUS
<1>3. /\ s.steps = more /\ s.selected = t.selected
      /\ s.provider_failed = t.provider_failed
      /\ s = [steps |-> s.steps, selected |-> s.selected,
              provider_failed |-> s.provider_failed, attempt_count |-> s.attempt_count]
  BY <1>1, <1>2 DEF TimelineShape
<1>4. /\ more \in Seq(InvestigationStep) /\ Len(more) = n /\ more[n] = e
      /\ \A i \in 1..n : i # n => more[i] = t.steps[i]
  <2>1. PICK steps : steps = t.steps
    OBVIOUS
  <2>4. n \in 1..n
    <3>1. PICK m \in Nat : m = Len(obs) /\ n = m + 1
      BY <1>1
    <3> QED
      BY <3>1
  <2>2. steps \in Seq(InvestigationStep) /\ n = Len(steps) /\ n \in 1..n
    BY <1>1, <2>1, <2>4
  <2>3. more = [steps EXCEPT ![n] = e]
    BY <1>2, <2>1
  <2> QED
    BY <2>1, <2>2, <2>3
<1>5. TimelineShape(s)
  BY <1>1, <1>3, <1>4 DEF TimelineShape
<1>6. AreAttempts(more, calls)
  <2>1. AreAttempts(t.steps, calls) /\ t.steps[n].kind = "tool_attempt" /\ n > 0
    BY <1>1 DEF Telling
  <2>2. PICK steps : steps = t.steps
    OBVIOUS
  <2>3. /\ steps \in Seq(InvestigationStep) /\ AreAttempts(steps, calls) /\ n = Len(steps)
        /\ steps[n].kind = "tool_attempt" /\ e.tool = steps[n].tool
        /\ more = [steps EXCEPT ![n] = e]
    BY <1>1, <1>2, <2>1, <2>2
  <2> QED
    BY <2>1, <2>3, AttemptsReplaced
<1>7. \A i \in 1..n : more[i].kind # "session_error"
  BY <1>4 DEF Telling
<1>8. \A i \in 1..Len(obs) : i \in 1..n /\ i # n
  BY <1>1
<1>9. \A i \in 1..Len(obs) : Tells(more[i], obs[i])
  BY <1>4, <1>8 DEF Telling
<1>10. Telling(s, obs, calls, 1)
  <2>1. /\ t.provider_failed = FALSE /\ obs \in Seq(ToldObservations)
        /\ calls \in Seq(Calls) /\ Len(calls) > 0
        /\ t.steps[n].tool = ToolName[calls[Len(calls)]]
    BY DEF Telling
  <2>2. s.steps = more /\ Len(more) = n /\ Len(more) = Len(obs) + 1 /\ more[Len(more)] = e
    BY <1>1, <1>3, <1>4
  <2>3. /\ s.provider_failed = FALSE
        /\ Len(s.steps) = Len(obs) + 1
        /\ s.steps[Len(s.steps)].kind = "tool_attempt"
        /\ s.steps[Len(s.steps)].tool = ToolName[calls[Len(calls)]]
    BY <1>3, <2>1, <2>2
  <2>4. /\ \A i \in 1..Len(s.steps) : s.steps[i].kind # "session_error"
        /\ \A i \in 1..Len(obs) : Tells(s.steps[i], obs[i])
        /\ AreAttempts(s.steps, calls)
    BY <1>6, <1>7, <1>9, <2>2
  <2> QED
    BY <1>5, <2>1, <2>3, <2>4 DEF Telling
<1> QED
  BY <1>3, <1>4, <1>10

\* The call in flight fails without a result.
LEMMA TellingError ==
  ASSUME NEW t, NEW obs, NEW calls, Telling(t, obs, calls, 1), NEW type,
         NEW s, s = ShowToolError(t, type)
  PROVE  /\ Telling(s, obs, calls, 1)
         /\ s.steps[Len(s.steps)].success = FALSE
         /\ s.steps[Len(s.steps)].error_category
              = IF type \in Categories THEN type ELSE "EXECUTION_ERROR"
<1>1. PICK n : n = Len(t.steps)
  OBVIOUS
<1>2. PICK step : step = t.steps[n]
  OBVIOUS
<1>3. PICK c : c = IF type \in Categories THEN type ELSE "EXECUTION_ERROR"
  OBVIOUS
<1>4. PICK e : e = FailedAs(step, c)
  OBVIOUS
<1>5. /\ t.steps \in Seq(InvestigationStep) /\ n \in 1..n /\ TimelineShape(t)
      /\ step \in InvestigationStep
      /\ step.kind = "tool_attempt" /\ t.provider_failed = FALSE
  <2>1. /\ t.steps \in Seq(InvestigationStep) /\ TimelineShape(t) /\ n = Len(obs) + 1
        /\ Len(obs) \in Nat
    BY <1>1, TellingFacts
  <2>2. n \in 1..n
    BY <2>1
  <2> QED
    BY <1>1, <1>2, <2>1, <2>2 DEF Telling
<1>6. /\ e \in InvestigationStep /\ e.kind = step.kind /\ e.tool = step.tool
      /\ e.success = FALSE /\ e.error_category = c
  <2>1. c \in ShownCategories
    BY <1>3 DEF ShownCategories
  <2>2. step \in InvestigationStep
    BY <1>5
  <2>3. e \in InvestigationStep
    BY <1>4, <2>1, <2>2, FailedStepFacts
  <2>4. e.kind = step.kind
    BY <1>4, <2>2 DEF FailedAs, InvestigationStep
  <2>5. e.tool = step.tool
    BY <1>4, <2>2 DEF FailedAs, InvestigationStep
  <2>6. e.success = FALSE
    BY <1>4, <2>1, <2>2, FailedStepFacts
  <2>7. e.error_category = c
    BY <1>4, <2>1, <2>2, FailedStepFacts
  <2> QED
    BY <2>3, <2>4, <2>5, <2>6, <2>7
<1>7. s = [t EXCEPT !.steps = [t.steps EXCEPT ![n] = e]]
  <2>1. FailedStep(step, type, t.provider_failed) = e
    BY <1>3, <1>4, <1>5 DEF FailedStep, FailedAs
  <2> QED
    BY <1>1, <1>2, <1>5, <2>1 DEF ShowToolError, TimelineShape
<1>8. Telling(s, obs, calls, 1) /\ Len(s.steps) = n /\ s.steps[n] = e
  BY <1>1, <1>2, <1>5, <1>6, <1>7, TellingReplaced
<1> QED
  BY <1>3, <1>6, <1>8

\* The call in flight has been given this result by its step.
LEMMA TellingClosed ==
  ASSUME NEW t, NEW obs, NEW calls, Telling(t, obs, calls, 1),
         NEW o \in ToldObservations, Tells(t.steps[Len(t.steps)], o),
         NEW more, more = Append(obs, o)
  PROVE  Telling(t, more, calls, 0)
<1>1. PICK n \in Nat : n = Len(obs)
  BY TellingFacts
<1>2. Len(t.steps) = n + 1 /\ obs \in Seq(ToldObservations)
  BY <1>1, TellingFacts DEF Telling
<1>3. /\ more \in Seq(ToldObservations) /\ Len(more) = n + 1 /\ more[n + 1] = o
      /\ \A i \in 1..n : more[i] = obs[i]
  BY <1>1, <1>2
<1>4. \A i \in 1..Len(more) : Tells(t.steps[i], more[i])
  <2>1. ASSUME NEW i \in 1..Len(more) PROVE Tells(t.steps[i], more[i])
    <3>1. CASE i = n + 1
      BY <1>2, <1>3, <3>1
    <3>2. CASE i # n + 1
      <4>1. i \in 1..n
        BY <1>3, <3>2
      <4> QED
        BY <1>1, <1>3, <4>1 DEF Telling
    <3> QED
      BY <3>1, <3>2
  <2> QED
    BY <2>1
<1>5. Len(t.steps) = Len(more) + 0
  BY <1>2, <1>3
<1> QED
  BY <1>3, <1>4, <1>5 DEF Telling

\* The call in flight is answered.
LEMMA TellingAnswered ==
  ASSUME NEW t, NEW obs, NEW calls, Telling(t, obs, calls, 1),
         NEW o \in ToldObservations, IsToolResult(o), o.tool = ToolName[calls[Len(calls)]],
         Succeeded(o) => t.steps[Len(t.steps)].error_category = NULL,
         NEW s, s = ShowToolFinished(t, o), NEW more, more = Append(obs, o)
  PROVE  Telling(s, more, calls, 0)
<1>1. PICK n : n = Len(t.steps)
  OBVIOUS
<1>2. PICK step : step = t.steps[n]
  OBVIOUS
<1>3. /\ t.steps \in Seq(InvestigationStep) /\ n \in 1..n /\ TimelineShape(t)
      /\ step \in InvestigationStep
      /\ step.kind = "tool_attempt" /\ step.tool = SafeName(o.tool)
      /\ t.provider_failed = FALSE
  <2>1. /\ t.steps \in Seq(InvestigationStep) /\ TimelineShape(t) /\ n = Len(obs) + 1
        /\ Len(obs) \in Nat
    BY <1>1, TellingFacts
  <2>2. n \in 1..n
    BY <2>1
  <2>3. calls[Len(calls)] \in Calls
    BY DEF Telling
  <2>4. SafeName(o.tool) = ToolName[calls[Len(calls)]]
    BY <2>3, CalledToolShown
  <2> QED
    BY <1>1, <1>2, <2>1, <2>2, <2>4 DEF Telling
<1>4. CASE Succeeded(o)
  <2>1. PICK e : e = [step EXCEPT !.success = TRUE]
    OBVIOUS
  <2>2. /\ e.kind = step.kind /\ e.tool = step.tool
        /\ e.success = TRUE /\ e.error_category = step.error_category
    BY <1>3, <2>1 DEF InvestigationStep
  <2>3. e \in InvestigationStep
    BY <1>3, <2>1 DEF InvestigationStep
  <2>4. s = [t EXCEPT !.steps = [t.steps EXCEPT ![n] = e]]
    BY <1>1, <1>2, <1>3, <1>4, <2>1 DEF ShowToolFinished, TimelineShape
  <2>5. Telling(s, obs, calls, 1) /\ Len(s.steps) = n /\ s.steps[n] = e
    BY <1>1, <1>2, <1>3, <2>2, <2>3, <2>4, TellingReplaced
  <2>6. Tells(e, o)
    BY <1>1, <1>2, <1>3, <1>4, <2>2 DEF Tells
  <2>7. Tells(s.steps[Len(s.steps)], o)
    BY <2>5, <2>6
  <2> QED
    BY <2>5, <2>7, TellingClosed
<1>5. CASE ~Succeeded(o)
  <2>1. PICK type : type = o.outcome
    OBVIOUS
  <2>2. type \in Categories
    <3>1. type \in Outcomes /\ type # "PROVIDER_ERROR"
      BY <2>1 DEF ToldObservations, Observation
    <3>2. type # "OK"
      BY <1>5, <2>1 DEF Succeeded
    <3> QED
      BY <3>1, <3>2 DEF Categories
  <2>3. s = ShowToolError(t, type)
    BY <1>5, <2>1 DEF ShowToolFinished
  <2>4. PICK e : e = FailedAs(step, type)
    OBVIOUS
  <2>5. FailedStep(step, type, t.provider_failed) = e
    BY <2>2, <2>4 DEF FailedStep, FailedAs
  <2>6. /\ e.kind = step.kind /\ e.tool = step.tool
        /\ e.success = FALSE /\ e.error_category = type
    BY <1>3, <2>4 DEF FailedAs, InvestigationStep
  <2>7. e \in InvestigationStep
    BY <1>3, <2>2, <2>4, FailedStepFacts DEF ShownCategories
  <2>8. s = [t EXCEPT !.steps = [t.steps EXCEPT ![n] = e]]
    BY <1>1, <1>2, <1>3, <2>3, <2>5 DEF ShowToolError, TimelineShape
  <2>9. Telling(s, obs, calls, 1) /\ Len(s.steps) = n /\ s.steps[n] = e
    BY <1>1, <1>2, <1>3, <2>6, <2>7, <2>8, TellingReplaced
  <2>10. Tells(e, o)
    <3>1. (e.kind = "tool_attempt") /\ e.tool = SafeName(o.tool)
      BY <1>3, <2>6
    <3>2. e.success = Succeeded(o)
      BY <1>5, <2>6 DEF Succeeded
    <3>3. e.error_category = o.outcome
      BY <2>1, <2>6
    <3> QED
      BY <1>5, <3>1, <3>2, <3>3, Zenon DEF Tells
  <2>11. Tells(s.steps[Len(s.steps)], o)
    BY <2>9, <2>10
  <2> QED
    BY <2>9, <2>11, TellingClosed
<1> QED
  BY <1>4, <1>5

\* A decision is refused: its step is shown as failed, its feedback observed.
LEMMA TellingRefused ==
  ASSUME NEW t, NEW obs, NEW calls, Telling(t, obs, calls, 0),
         NEW tool \in Tools, NEW type \in {"REJECTED", "TOOL_CALL_LIMIT_REACHED",
                                           "IDENTICAL_TOOL_CALL_LIMIT_REACHED"},
         NEW kind, kind = "rejected_action", NEW retry \in BOOLEAN,
         t.selected = SafeStep(tool, kind, retry),
         NEW s, s = ShowDecisionError(t, type),
         NEW o, o = Failure(tool, type), NEW more, more = Append(obs, o)
  PROVE  Telling(s, more, calls, 0)
<1>1. PICK step : step = t.selected
  OBVIOUS
<1>2. /\ step \in InvestigationStep /\ step # NULL /\ step.kind = "rejected_action"
      /\ step.tool = SafeName(tool)
  <2>1. kind \in {"tool_attempt", "rejected_action", "session_error"}
    OBVIOUS
  <2>2. step \in InvestigationStep /\ step # NULL /\ step.kind = kind /\ step.tool = SafeName(tool)
    BY <1>1, <2>1, SafeStepFacts
  <2> QED
    BY <2>2
<1>3. type \in Categories /\ type \in Outcomes
  BY DEF Categories, Outcomes, LoopErrors
<1>4. PICK e : e = FailedAs(step, type)
  OBVIOUS
<1>5. /\ e.kind = "rejected_action" /\ e.tool = SafeName(tool)
      /\ e.success = FALSE /\ e.error_category = type
  BY <1>2, <1>4 DEF FailedAs, InvestigationStep
<1>6. e \in InvestigationStep
  BY <1>2, <1>3, <1>4, FailedStepFacts DEF ShownCategories
<1>7. o \in Observation /\ o.tool = tool /\ o.outcome = type
  BY <1>3, FailureType DEF Failure
<1>8. o \in ToldObservations /\ ~IsToolResult(o) /\ ~Succeeded(o)
  BY <1>7 DEF ToldObservations, IsToolResult, Succeeded
<1>9. Tells(e, o)
  <2>1. e.kind # "tool_attempt" /\ e.tool = SafeName(o.tool) /\ e.error_category = o.outcome
    BY <1>5, <1>7
  <2>2. e.success = Succeeded(o)
    BY <1>5, <1>8 DEF Succeeded
  <2> QED
    BY <1>8, <2>1, <2>2, Zenon DEF Tells
<1>10. PICK n \in Nat : n = Len(obs)
  BY TellingFacts
<1>11. TimelineShape(t) /\ Len(t.steps) = n /\ t.steps \in Seq(InvestigationStep)
  BY <1>10, TellingFacts
<1>12. s = [t EXCEPT !.steps = Append(t.steps, e)]
  <2>1. FailedStep(step, type, t.provider_failed) = e
    BY <1>3, <1>4 DEF FailedStep, FailedAs
  <2> QED
    BY <1>1, <1>2, <1>11, <2>1 DEF ShowDecisionError, TimelineShape
<1>13. /\ s.steps = Append(t.steps, e) /\ s.selected = t.selected
       /\ s.provider_failed = t.provider_failed
       /\ s = [steps |-> s.steps, selected |-> s.selected,
               provider_failed |-> s.provider_failed, attempt_count |-> s.attempt_count]
  BY <1>11, <1>12 DEF TimelineShape
<1>14. /\ s.steps \in Seq(InvestigationStep) /\ Len(s.steps) = n + 1 /\ s.steps[n + 1] = e
       /\ \A i \in 1..n : s.steps[i] = t.steps[i]
  BY <1>6, <1>11, <1>13
<1>15. TimelineShape(s)
  BY <1>11, <1>13, <1>14 DEF TimelineShape
<1>16. /\ more \in Seq(ToldObservations) /\ Len(more) = n + 1 /\ more[n + 1] = o
       /\ \A i \in 1..n : more[i] = obs[i]
  BY <1>8, <1>10 DEF Telling
<1>17. AreAttempts(s.steps, calls)
  <2>1. AreAttempts(t.steps, calls) /\ calls \in Seq(Calls)
    BY DEF Telling
  <2>2. AreAttempts(Append(t.steps, e), calls)
    BY <1>5, <1>6, <1>11, <2>1, AttemptsAppend
  <2> QED
    BY <1>13, <2>2
<1>18. \A i \in 1..(n + 1) : i \in 1..n \/ i = n + 1
  BY <1>10
<1>19. \A i \in 1..Len(s.steps) : s.steps[i].kind # "session_error"
  BY <1>5, <1>11, <1>14, <1>18 DEF Telling
<1>20. \A i \in 1..Len(more) : Tells(s.steps[i], more[i])
  BY <1>9, <1>10, <1>14, <1>16, <1>18 DEF Telling
<1>21. Len(s.steps) = Len(more) + 0
  BY <1>14, <1>16
<1> QED
  BY <1>13, <1>15, <1>16, <1>17, <1>19, <1>20, <1>21 DEF Telling

\* What a timeline shows of a session error, or that there was none.
Extended(t, s) ==
  \/ s.steps = t.steps
  \/ \E e \in InvestigationStep : /\ s.steps = Append(t.steps, e)
                                  /\ e.kind = "session_error" /\ e.success = FALSE

\* The decision that was awaited fails, and the session with it.
LEMMA SessionError ==
  ASSUME NEW t, TimelineShape(t), t.selected = NULL, t.provider_failed = FALSE,
         NEW type, NEW s, s = ShowDecisionError(t, type)
  PROVE  LET failed == type \notin {"SESSION_TIMEOUT", "CANCELLED"}
         IN  /\ TimelineShape(s) /\ Extended(t, s) /\ s.steps # t.steps
             /\ s.provider_failed = failed
             /\ failed /\ type \notin Categories
                  => s.steps[Len(s.steps)].error_category = "PROVIDER_ERROR"
<1>1. PICK tool, kind, retry, step :
        /\ tool = NULL /\ kind = "session_error" /\ retry = FALSE
        /\ step = SafeStep(tool, kind, retry)
  OBVIOUS
<1>2. step \in InvestigationStep /\ step.kind = "session_error"
  <2>1. /\ tool \in Tools \cup {NULL} /\ retry \in BOOLEAN
        /\ kind \in {"tool_attempt", "rejected_action", "session_error"}
    BY <1>1
  <2>2. step \in InvestigationStep /\ step.kind = kind
    BY <1>1, <2>1, SafeStepFacts
  <2> QED
    BY <1>1, <2>2
<1>3. PICK failed : failed = (type \notin {"SESSION_TIMEOUT", "CANCELLED"})
  OBVIOUS
<1>4. PICK c : c = IF type \in Categories THEN type
                   ELSE IF failed THEN "PROVIDER_ERROR" ELSE "EXECUTION_ERROR"
  OBVIOUS
<1>5. c \in ShownCategories
  BY <1>4 DEF ShownCategories
<1>6. PICK e : e = FailedAs(step, c)
  OBVIOUS
<1>7. e.kind = "session_error" /\ e.success = FALSE /\ e.error_category = c
  BY <1>2, <1>6 DEF FailedAs, InvestigationStep
<1>8. e \in InvestigationStep
  BY <1>2, <1>5, <1>6, FailedStepFacts
<1>9. s = [t EXCEPT !.steps = Append(t.steps, e), !.provider_failed = failed]
  <2>1. FailedStep(step, type, failed) = e
    BY <1>4, <1>6 DEF FailedStep, FailedAs
  <2>2. SafeStep(NULL, "session_error", FALSE) = step
    BY <1>1
  <2> QED
    BY <1>3, <2>1, <2>2 DEF ShowDecisionError
<1>10. /\ s.steps = Append(t.steps, e) /\ s.selected = t.selected
       /\ s.provider_failed = failed
       /\ s = [steps |-> s.steps, selected |-> s.selected,
               provider_failed |-> s.provider_failed, attempt_count |-> s.attempt_count]
  BY <1>9 DEF TimelineShape
<1>11. /\ s.steps \in Seq(InvestigationStep) /\ s.steps[Len(s.steps)] = e
       /\ Len(s.steps) = Len(t.steps) + 1 /\ Len(t.steps) \in Nat
  BY <1>8, <1>10 DEF TimelineShape
<1>12. s.steps # t.steps
  BY <1>11
<1>13. TimelineShape(s)
  BY <1>10, <1>11 DEF TimelineShape
<1>14. Extended(t, s)
  BY <1>7, <1>8, <1>10 DEF Extended
<1> QED
  BY <1>3, <1>4, <1>7, <1>10, <1>11, <1>12, <1>13, <1>14

-----------------------------------------------------------------------------
(* A step calls three hooks at most *)

LEMMA DisplayedHooks ==
  ASSUME NEW r, NEW hs, Len(hs) \in 0..3
  PROVE  Displayed(r, hs) =
           IF Len(hs) = 0 THEN r
           ELSE IF Len(hs) = 1 THEN Show(r, hs[1])
           ELSE IF Len(hs) = 2 THEN Show(Show(r, hs[1]), hs[2])
           ELSE Show(Show(Show(r, hs[1]), hs[2]), hs[3])
<1> DEFINE one == Show(r, hs[1])
           two == Show(one, hs[2])
           three == Show(two, hs[3])
           n == Len(hs)
           Steps(f) == f = [i \in 0..n |-> IF i = 0 THEN r ELSE Show(f[i - 1], hs[i])]
           g == [i \in 0..n |-> IF i = 0 THEN r ELSE IF i = 1 THEN one
                                ELSE IF i = 2 THEN two ELSE three]
<1>1. Displayed(r, hs) = (CHOOSE f : Steps(f))[n]
  BY DEF Displayed
<1>2. ASSUME NEW i \in 0..n
      PROVE  g[i] = IF i = 0 THEN r ELSE Show(g[i - 1], hs[i])
  <2>0. i \in {0, 1, 2, 3}
    <3> HIDE DEF n, g
    <3>1. n \in 0..3
      BY DEF n
    <3> QED
      BY <3>1
  <2>1. g[i] = IF i = 0 THEN r ELSE IF i = 1 THEN one ELSE IF i = 2 THEN two ELSE three
    OBVIOUS
  <2>2. i # 0 => /\ i - 1 \in 0..n
                 /\ g[i - 1] = IF i = 1 THEN r ELSE IF i = 2 THEN one ELSE two
    BY <2>0, <2>1
  <2> QED
    BY <2>0, <2>1, <2>2
<1> DEFINE h == [i \in 0..n |-> IF i = 0 THEN r ELSE Show(g[i - 1], hs[i])]
<1>3. g = [i \in 0..n |-> g[i]]
  OBVIOUS
<1> HIDE DEF g
<1>4. \A i \in 0..n : g[i] = h[i]
  BY <1>2
<1>5. g = h
  BY <1>3, <1>4
<1>6. Steps(g)
  BY <1>5
<1>7. PICK f : Steps(f) /\ Displayed(r, hs) = f[n]
  BY <1>1, <1>6
<1>8. \A i \in 0..n : f[i] = IF i = 0 THEN r ELSE Show(f[i - 1], hs[i])
  BY <1>7
<1>9. /\ f[0] = r
      /\ n > 0 => f[1] = Show(f[0], hs[1])
      /\ n > 1 => f[2] = Show(f[1], hs[2])
      /\ n > 2 => f[3] = Show(f[2], hs[3])
  <2> HIDE DEF n
  <2>1. n \in 0..3
    BY DEF n
  <2>2. 1 - 1 = 0 /\ 2 - 1 = 1 /\ 3 - 1 = 2
    OBVIOUS
  <2> QED
    BY <1>8, <2>1, <2>2
<1>10. n \in {0, 1, 2, 3}
  OBVIOUS
<1> HIDE DEF n, one, two, three
<1> QED
  BY <1>7, <1>9, <1>10 DEF n

LEMMA DisplayedAfter ==
  /\ \A r : Displayed(r, <<>>) = r
  /\ \A r, a : Displayed(r, <<a>>) = Show(r, a)
  /\ \A r, a, b : Displayed(r, <<a, b>>) = Show(Show(r, a), b)
  /\ \A r, a, b, c : Displayed(r, <<a, b, c>>) = Show(Show(Show(r, a), b), c)
<1>1. ASSUME NEW r PROVE Displayed(r, <<>>) = r
  <2>1. PICK hs : hs = <<>>
    OBVIOUS
  <2>2. Len(hs) = 0
    BY <2>1
  <2> QED
    BY <2>1, <2>2, DisplayedHooks
<1>2. ASSUME NEW r, NEW a PROVE Displayed(r, <<a>>) = Show(r, a)
  <2>1. PICK hs : hs = <<a>>
    OBVIOUS
  <2>2. Len(hs) = 1 /\ hs[1] = a
    BY <2>1
  <2> QED
    BY <2>1, <2>2, DisplayedHooks
<1>3. ASSUME NEW r, NEW a, NEW b PROVE Displayed(r, <<a, b>>) = Show(Show(r, a), b)
  <2>1. PICK hs : hs = <<a, b>>
    OBVIOUS
  <2>2. Len(hs) = 2 /\ hs[1] = a /\ hs[2] = b
    BY <2>1
  <2> QED
    BY <2>1, <2>2, DisplayedHooks
<1>4. ASSUME NEW r, NEW a, NEW b, NEW c
      PROVE  Displayed(r, <<a, b, c>>) = Show(Show(Show(r, a), b), c)
  <2>1. PICK hs : hs = <<a, b, c>>
    OBVIOUS
  <2>2. Len(hs) = 3 /\ hs[1] = a /\ hs[2] = b /\ hs[3] = c
    BY <2>1
  <2> QED
    BY <2>1, <2>2, DisplayedHooks
<1> QED
  BY <1>1, <1>2, <1>3, <1>4

LEMMA ShowCases ==
  ASSUME NEW t, NEW h
  PROVE  /\ h.hook = "decision_started" => Show(t, h) = ShowDecisionStarted(t)
         /\ h.hook = "decision_returned" => Show(t, h) = ShowDecisionReturned(t, h.decision)
         /\ h.hook = "tool_started" => Show(t, h) = ShowToolStarted(t, h)
         /\ h.hook = "tool_finished" => Show(t, h) = ShowToolFinished(t, h.observation)
         /\ h.hook = "error" /\ h.scope = "tool" => Show(t, h) = ShowToolError(t, h.error_type)
         /\ h.hook = "error" /\ h.scope = "decision"
              => Show(t, h) = ShowDecisionError(t, h.error_type)
         /\ h.hook = "finish" => Show(t, h) = ShowFinish(t)
BY DEF Show

\* The hooks as the loop calls them.
LEMMA ShowHooks ==
  ASSUME NEW t
  PROVE  /\ Show(t, DecisionStarted) = ShowDecisionStarted(t)
         /\ \A d : Show(t, DecisionReturned(d)) = ShowDecisionReturned(t, d)
         /\ \A o : Show(t, ToolFinished(o)) = ShowToolFinished(t, o)
         /\ \A type : Show(t, Error("tool", type)) = ShowToolError(t, type)
         /\ \A type : Show(t, Error("decision", type)) = ShowDecisionError(t, type)
         /\ Show(t, Finish) = ShowFinish(t)
<1>1. Show(t, DecisionStarted) = ShowDecisionStarted(t)
  BY ShowCases DEF DecisionStarted
<1>2. ASSUME NEW d PROVE Show(t, DecisionReturned(d)) = ShowDecisionReturned(t, d)
  <2>1. PICK h : h = DecisionReturned(d)
    OBVIOUS
  <2>2. h.hook = "decision_returned" /\ h.decision = d
    BY <2>1 DEF DecisionReturned
  <2> QED
    BY <2>1, <2>2, ShowCases
<1>3. ASSUME NEW o PROVE Show(t, ToolFinished(o)) = ShowToolFinished(t, o)
  <2>1. PICK h : h = ToolFinished(o)
    OBVIOUS
  <2>2. h.hook = "tool_finished" /\ h.observation = o
    BY <2>1 DEF ToolFinished
  <2> QED
    BY <2>1, <2>2, ShowCases
<1>4. ASSUME NEW type PROVE Show(t, Error("tool", type)) = ShowToolError(t, type)
  <2>1. PICK h : h = Error("tool", type)
    OBVIOUS
  <2>2. h.hook = "error" /\ h.scope = "tool" /\ h.error_type = type
    BY <2>1 DEF Error
  <2> QED
    BY <2>1, <2>2, ShowCases
<1>5. ASSUME NEW type PROVE Show(t, Error("decision", type)) = ShowDecisionError(t, type)
  <2>1. PICK h : h = Error("decision", type)
    OBVIOUS
  <2>2. h.hook = "error" /\ h.scope = "decision" /\ h.error_type = type
    BY <2>1 DEF Error
  <2> QED
    BY <2>1, <2>2, ShowCases
<1>6. Show(t, Finish) = ShowFinish(t)
  <2>1. PICK h : h = Finish
    OBVIOUS
  <2>2. h.hook = "finish"
    BY <2>1 DEF Finish
  <2> QED
    BY <2>1, <2>2, ShowCases
<1> QED
  BY <1>1, <1>2, <1>3, <1>4, <1>5, <1>6

-----------------------------------------------------------------------------
(* The end of a session *)

\* finish counts the attempts.
LEMMA FinishedShown ==
  ASSUME NEW n, TimelineShape(n), NEW s, s = ShowFinish(n)
  PROVE  /\ s.steps = n.steps /\ s.provider_failed = n.provider_failed
         /\ s.attempt_count = Len(Selected(n.steps, CallSteps))
<1>1. PICK steps : steps = n.steps
  OBVIOUS
<1>2. steps \in Seq(InvestigationStep)
  BY <1>1 DEF TimelineShape
<1>3. {i \in 1..Len(steps) : steps[i].kind = "tool_attempt"}
        = {i \in 1..Len(steps) : steps[i] \in CallSteps}
  BY <1>2 DEF CallSteps
<1>4. Cardinality({i \in 1..Len(steps) : steps[i].kind = "tool_attempt"})
        = Len(Selected(steps, CallSteps))
  BY <1>2, <1>3, SelectedCount
<1>5. /\ s.steps = n.steps /\ s.provider_failed = n.provider_failed
      /\ s.attempt_count
           = Cardinality({i \in 1..Len(n.steps) : n.steps[i].kind = "tool_attempt"})
  BY DEF ShowFinish, TimelineShape
<1> QED
  BY <1>1, <1>4, <1>5

\* An extended timeline shows the same steps and attempts.
LEMMA ExtendedShown ==
  ASSUME NEW m, NEW obs, NEW calls, NEW open \in 0..1, Telling(m, obs, calls, open),
         NEW n, Extended(m, n)
  PROVE  /\ Selected(n.steps, ShownSteps) = m.steps
         /\ AreAttempts(n.steps, calls)
<1>1. PICK steps : steps = m.steps
  OBVIOUS
<1>2. /\ steps \in Seq(InvestigationStep) /\ AreAttempts(steps, calls)
      /\ calls \in Seq(Calls)
      /\ \A i \in 1..Len(steps) : steps[i] \in ShownSteps
  <2>1. /\ steps \in Seq(InvestigationStep) /\ AreAttempts(steps, calls)
        /\ calls \in Seq(Calls)
        /\ \A i \in 1..Len(steps) : steps[i].kind # "session_error"
    BY <1>1, TellingFacts DEF Telling
  <2>2. \A i \in 1..Len(steps) : steps[i] \in InvestigationStep
    BY <2>1
  <2>3. \A i \in 1..Len(steps) : steps[i] \in ShownSteps
    BY <2>1, <2>2 DEF ShownSteps
  <2> QED
    BY <2>1, <2>3
<1>3. Selected(steps, ShownSteps) = steps
  BY <1>2, SelectedAll
<1>4. CASE n.steps = steps
  BY <1>1, <1>2, <1>3, <1>4
<1>5. ASSUME NEW e \in InvestigationStep, n.steps = Append(steps, e),
             e.kind = "session_error"
      PROVE  /\ Selected(n.steps, ShownSteps) = m.steps
             /\ AreAttempts(n.steps, calls)
  <2>1. e \notin ShownSteps /\ e.kind # "tool_attempt"
    BY <1>5 DEF ShownSteps
  <2>2. Selected(Append(steps, e), ShownSteps) = Selected(steps, ShownSteps)
    BY <1>2, <2>1, SelectedAppend
  <2>3. AreAttempts(Append(steps, e), calls)
    BY <1>2, <2>1, AttemptsAppend
  <2> QED
    BY <1>1, <1>3, <1>5, <2>2, <2>3
<1> QED
  BY <1>1, <1>4, <1>5 DEF Extended

\* Whatever the timeline is when the session is over, it is that of the session.
LEMMA TimelineEnds ==
  ASSUME NEW m, NEW obs, NEW calls, NEW open \in 0..1, Telling(m, obs, calls, open),
         NEW n, TimelineShape(n), Extended(m, n),
         NEW s, s = timeline', s = ShowFinish(n),
         Ended', obs = Told', calls = CallsMade',
         open = IF pending_call' = NoCall THEN 0 ELSE 1,
         Response' # "none" /\ open = 1 => m.steps[Len(m.steps)].success # NULL
  PROVE  TimelineFollowsSession'
<1>1. s.steps = n.steps /\ s.attempt_count = Len(Selected(n.steps, CallSteps))
  BY FinishedShown
<1>2. Selected(n.steps, ShownSteps) = m.steps /\ AreAttempts(n.steps, calls)
  BY ExtendedShown
<1>3. Shown' = m.steps
  BY <1>1, <1>2 DEF Shown, ShownSteps
<1>4. Attempts' = Selected(n.steps, CallSteps)
  BY <1>1 DEF Attempts, CallSteps
<1>5. AttemptsCounted'
  BY <1>1, <1>2, <1>4 DEF AttemptsCounted, AreAttempts
<1>6. /\ m.steps \in Seq(InvestigationStep) /\ Len(m.steps) \in Nat /\ Len(obs) \in Nat
      /\ Len(m.steps) = Len(obs) + open
      /\ \A i \in 1..Len(m.steps) : m.steps[i].kind # "session_error"
      /\ \A i \in 1..Len(obs) : Tells(m.steps[i], obs[i])
  BY TellingFacts DEF Telling
<1>7. Len(Shown') = Len(Told') + (IF pending_call' = NoCall THEN 0 ELSE 1)
  BY <1>3, <1>6
<1>8. \A i \in 1..Len(Told') :
        /\ (Shown[i].kind = "tool_attempt")' <=> IsToolResult(Told'[i])
        /\ Shown'[i].tool = SafeName(Told'[i].tool)
        /\ Shown'[i].success = Succeeded(Told'[i])
        /\ Shown'[i].error_category = IF Succeeded(Told'[i]) THEN NULL ELSE Told'[i].outcome
  BY <1>3, <1>6 DEF Tells
<1>9. ASSUME NEW i \in 1..Len(m.steps)
      PROVE  Response' # "none" => m.steps[i].success # NULL
  <2>1. CASE i \in 1..Len(obs)
    <3>1. m.steps[i].success = Succeeded(obs[i])
      BY <1>6, <2>1 DEF Tells
    <3>2. Succeeded(obs[i]) \in BOOLEAN
      BY DEF Succeeded
    <3> QED
      BY <3>1, <3>2, NullAssumption
  <2>2. CASE i \notin 1..Len(obs)
    <3>1. open = 1 /\ i = Len(m.steps)
      BY <1>6, <2>2
    <3> QED
      BY <3>1
  <2> QED
    BY <2>1, <2>2
<1>10. \A i \in 1..Len(n.steps) :
         /\ n.steps[i].kind = "session_error" => i = Len(n.steps)
         /\ Response' # "none" => n.steps[i].success # NULL
  <2>1. CASE n.steps = m.steps
    BY <1>6, <1>9, <2>1
  <2>2. ASSUME NEW e \in InvestigationStep, n.steps = Append(m.steps, e),
               e.success = FALSE
        PROVE  \A i \in 1..Len(n.steps) :
                 /\ n.steps[i].kind = "session_error" => i = Len(n.steps)
                 /\ Response' # "none" => n.steps[i].success # NULL
    <3>1. PICK k \in Nat : k = Len(m.steps)
      BY <1>6
    <3>2. /\ Len(n.steps) = k + 1 /\ n.steps[k + 1] = e
          /\ \A i \in 1..k : n.steps[i] = m.steps[i]
          /\ \A i \in 1..(k + 1) : i \in 1..k \/ i = k + 1
      BY <1>6, <2>2, <3>1
    <3>3. e.success # NULL
      BY <2>2, NullAssumption
    <3> QED
      BY <1>6, <1>9, <3>1, <3>2, <3>3
  <2> QED
    BY <2>1, <2>2 DEF Extended
<1>11. StepsFollowObservations'
  BY <1>1, <1>7, <1>8, <1>10 DEF StepsFollowObservations
<1> QED
  BY <1>5, <1>11 DEF TimelineFollowsSession

\* What was observed has been told, but for the provider's failure.
LEMMA ToldSame ==
  ASSUME NEW obs \in Seq(ToldObservations)
  PROVE  Selected(obs, ToldObservations) = obs
BY SelectedAll

\* A session that returned is answered as it should be.
LEMMA RightlyAnswered ==
  ASSUME NEW s, s = timeline', pc' = "returned",
         s.provider_failed <=> ProviderFailedInReturn',
         s.provider_failed => s.steps[Len(s.steps)].error_category = "PROVIDER_ERROR"
  PROVE  OnlyProviderFailuresAre502'
<1>1. Response' = IF s.provider_failed THEN "502" ELSE "200"
  BY DEF Response
<1>2. (Response' = "502") <=> s.provider_failed
  BY <1>1
<1> QED
  BY <1>2 DEF OnlyProviderFailuresAre502, Last

\* A provider's failure is the last observation, a deadline the last result.
LEMMA NoFailureInReturn ==
  ASSUME observations' \in Seq(ToldObservations),
         \/ diagnosis'.status # "LIMIT_REACHED"
         \/ diagnosis'.missing_evidence # "SESSION_TIMEOUT"
         \/ expired'
         \/ /\ Len(observations') > 0
            /\ observations'[Len(observations')].outcome = "SESSION_TIMEOUT"
  PROVE  ~ProviderFailedInReturn'
<1>1. PICK obs : obs = observations'
  OBVIOUS
<1>2. Len(obs) > 0 => obs[Len(obs)] \in ToldObservations
  BY <1>1
<1>3. Len(obs) > 0 => obs[Len(obs)].outcome # "PROVIDER_ERROR"
  BY <1>2 DEF ToldObservations
<1> QED
  BY <1>1, <1>3 DEF ProviderFailedInReturn

\* A session that ends between two calls, without an error.
LEMMA QuietEndShown ==
  ASSUME BudgetInv, DemoInv, pc \in {"loop", "deciding"}, pc' = "returned",
         UNCHANGED <<observations, tool_history, pending_call>>,
         \/ diagnosis'.status # "LIMIT_REACHED"
         \/ diagnosis'.missing_evidence # "SESSION_TIMEOUT",
         timeline' = ShowFinish(timeline)
  PROVE  DemoInv'
<1>1. PICK m, s, obs, calls, open :
        /\ m = timeline /\ s = timeline' /\ obs = observations /\ calls = CallsMade
        /\ open = 0
  OBVIOUS
<1>2. pending_call = NoCall /\ ~Ended /\ Ended'
  BY DEF BudgetInv, TaskConsistent, Ended
<1>3. Telling(m, obs, calls, open)
  BY <1>1, <1>2 DEF DemoInv, Open
<1>4. obs \in Seq(ToldObservations) /\ TimelineShape(m) /\ m.provider_failed = FALSE
  BY <1>3 DEF Telling
<1>5. obs = Told' /\ calls = CallsMade'
  <2>1. Told' = Selected(obs, ToldObservations)
    BY <1>1 DEF Told, ToldObservations
  <2> QED
    BY <1>1, <1>4, <2>1, ToldSame DEF CallsMade
<1>6. Extended(m, m) /\ s = ShowFinish(m)
  BY <1>1 DEF Extended
<1>7. open \in 0..1 /\ open = IF pending_call' = NoCall THEN 0 ELSE 1
  BY <1>1, <1>2
<1>8. Response' # "none" /\ open = 1 => m.steps[Len(m.steps)].success # NULL
  BY <1>1
<1>9. TimelineFollowsSession'
  BY <1>1, <1>2, <1>3, <1>4, <1>5, <1>6, <1>7, <1>8, TimelineEnds
<1>10. s.provider_failed = FALSE
  BY <1>4, <1>6, FinishedShown
<1>11. ~ProviderFailedInReturn'
  BY <1>1, <1>4, NoFailureInReturn
<1>12. OnlyProviderFailuresAre502'
  BY <1>1, <1>10, <1>11, RightlyAnswered
<1> QED
  BY <1>2, <1>9, <1>12 DEF DemoInv

\* The deadline's handler gives the call in flight a result.
LEMMA TimedOutCallShown ==
  ASSUME BudgetInv, TypeOK', pending_call # NoCall, ReturnTimedOut,
         NEW r, Telling(r, observations, CallsMade, 1),
         timeline' = ShowFinish(ShowToolFinished(r, Failure(ToolName[pending_call],
                                                            "SESSION_TIMEOUT")))
  PROVE  DemoInv'
<1>1. PICK o : o = Failure(ToolName[pending_call], "SESSION_TIMEOUT")
  OBVIOUS
<1>2. pending_call \in Calls /\ tool_history \in Seq(Calls)
  BY DEF BudgetInv, TypeOK
<1>3. /\ o \in Observation /\ o.tool = ToolName[pending_call] /\ o.outcome = "SESSION_TIMEOUT"
  BY <1>1, <1>2, CallFacts, FailureType DEF Outcomes, LoopErrors, Failure
<1>4. o \in ToldObservations /\ IsToolResult(o) /\ ~Succeeded(o)
  BY <1>3 DEF ToldObservations, IsToolResult, Succeeded
<1>5. /\ RecordToolResult(pending_call, o) /\ pc' = "returned" /\ pending_call' = NoCall
  BY <1>1 DEF ReturnTimedOut, Return
<1>6. PICK m, s, obs, seen, calls, open :
        /\ m = ShowToolFinished(r, o) /\ s = timeline' /\ obs = Append(seen, o)
        /\ seen = observations /\ calls = CallsMade /\ open = 0
  OBVIOUS
<1>7. calls[Len(calls)] = pending_call /\ Telling(r, seen, calls, 1)
  BY <1>2, <1>6 DEF CallsMade
<1>8. Telling(m, obs, calls, open)
  BY <1>3, <1>4, <1>6, <1>7, TellingAnswered
<1>9. obs \in Seq(ToldObservations) /\ TimelineShape(m) /\ m.provider_failed = FALSE
  BY <1>8 DEF Telling
<1>10. observations' = obs /\ tool_history' = calls
  <2>1. observations' = Append(seen, o)
    BY <1>5, <1>6 DEF RecordToolResult
  <2>2. tool_history' = CallsMade
    BY <1>5 DEF RecordToolResult, CallsMade
  <2> QED
    BY <1>6, <2>1, <2>2
<1>11. obs = Told' /\ calls = CallsMade'
  <2>1. Told' = Selected(obs, ToldObservations)
    BY <1>10 DEF Told, ToldObservations
  <2> QED
    BY <1>5, <1>9, <1>10, <2>1, ToldSame DEF CallsMade
<1>12. Extended(m, m) /\ s = ShowFinish(m) /\ Ended'
  BY <1>1, <1>5, <1>6 DEF Extended, Ended
<1>13. open \in 0..1 /\ open = IF pending_call' = NoCall THEN 0 ELSE 1
  BY <1>5, <1>6
<1>14. Response' # "none" /\ open = 1 => m.steps[Len(m.steps)].success # NULL
  BY <1>6
<1>15. TimelineFollowsSession'
  BY <1>6, <1>8, <1>9, <1>11, <1>12, <1>13, <1>14, TimelineEnds
<1>16. s.provider_failed = FALSE
  BY <1>9, <1>12, FinishedShown
<1>17. /\ Len(observations') > 0
       /\ observations'[Len(observations')].outcome = "SESSION_TIMEOUT"
  <2>1. seen \in Seq(ToldObservations)
    BY <1>7 DEF Telling
  <2>2. Len(obs) > 0 /\ obs[Len(obs)] = o
    BY <1>4, <1>6, <2>1
  <2> QED
    BY <1>3, <1>10, <2>2
<1>18. ~ProviderFailedInReturn'
  BY <1>9, <1>10, <1>17, NoFailureInReturn
<1>19. OnlyProviderFailuresAre502'
  BY <1>5, <1>6, <1>16, <1>18, RightlyAnswered
<1> QED
  BY <1>5, <1>12, <1>15, <1>19 DEF DemoInv

\* A call in flight that is left by an exception or by a cancellation.
LEMMA CallLeftShown ==
  ASSUME BudgetInv, pc = "calling", pc' \in {"raised", "cancelled"},
         UNCHANGED <<observations, tool_history, pending_call>>,
         NEW m, Telling(m, observations, CallsMade, 1),
         pc' = "raised" => m.steps[Len(m.steps)].success # NULL,
         timeline' = ShowFinish(m)
  PROVE  DemoInv'
<1>1. PICK s, obs, calls, open :
        /\ s = timeline' /\ obs = observations /\ calls = CallsMade /\ open = 1
  OBVIOUS
<1>2. pending_call # NoCall /\ Ended'
  BY DEF BudgetInv, TaskConsistent, Ended
<1>3. Telling(m, obs, calls, open)
  BY <1>1
<1>4. obs \in Seq(ToldObservations) /\ TimelineShape(m)
  BY <1>3 DEF Telling
<1>5. obs = Told' /\ calls = CallsMade'
  <2>1. Told' = Selected(obs, ToldObservations)
    BY <1>1 DEF Told, ToldObservations
  <2> QED
    BY <1>1, <1>4, <2>1, ToldSame DEF CallsMade
<1>6. Extended(m, m) /\ s = ShowFinish(m)
  BY <1>1 DEF Extended
<1>7. open \in 0..1 /\ open = IF pending_call' = NoCall THEN 0 ELSE 1
  BY <1>1, <1>2
<1>8. Response' # "none" /\ open = 1 => m.steps[Len(m.steps)].success # NULL
  BY DEF Response
<1>9. TimelineFollowsSession'
  BY <1>1, <1>2, <1>3, <1>4, <1>5, <1>6, <1>7, <1>8, TimelineEnds
<1>10. OnlyProviderFailuresAre502'
  BY DEF OnlyProviderFailuresAre502
<1> QED
  BY <1>2, <1>9, <1>10 DEF DemoInv

\* The awaited decision comes to nothing, and the session ends.
LEMMA DecisionFailureShown ==
  ASSUME BudgetInv, DemoInv, pc = "deciding", Ended', Told' = observations,
         UNCHANGED <<tool_history, pending_call>>,
         NEW type, timeline' = ShowFinish(ShowDecisionError(timeline, type)),
         pc' = "returned" =>
           /\ type \notin {"SESSION_TIMEOUT", "CANCELLED"} <=> ProviderFailedInReturn'
           /\ type \notin {"SESSION_TIMEOUT", "CANCELLED"} => type \notin Categories
  PROVE  DemoInv'
<1>1. PICK m, n, s, obs, calls, open :
        /\ m = timeline /\ n = ShowDecisionError(m, type) /\ s = timeline'
        /\ obs = observations /\ calls = CallsMade /\ open = 0
  OBVIOUS
<1>2. pending_call = NoCall /\ ~Ended
  BY DEF BudgetInv, TaskConsistent, Ended
<1>3. Telling(m, obs, calls, open) /\ m.selected = NULL
  BY <1>1, <1>2 DEF DemoInv, Open
<1>4. TimelineShape(m) /\ m.provider_failed = FALSE
  BY <1>3 DEF Telling
<1>5. PICK failed : failed = (type \notin {"SESSION_TIMEOUT", "CANCELLED"})
  OBVIOUS
<1>6. /\ TimelineShape(n) /\ Extended(m, n) /\ n.provider_failed = failed
      /\ failed /\ type \notin Categories
           => n.steps[Len(n.steps)].error_category = "PROVIDER_ERROR"
  BY <1>1, <1>3, <1>4, <1>5, SessionError
<1>7. obs = Told' /\ calls = CallsMade'
  BY <1>1 DEF CallsMade
<1>8. s = ShowFinish(n)
  BY <1>1
<1>9. open \in 0..1 /\ open = IF pending_call' = NoCall THEN 0 ELSE 1
  BY <1>1, <1>2
<1>10. Response' # "none" /\ open = 1 => m.steps[Len(m.steps)].success # NULL
  BY <1>1
<1>11. TimelineFollowsSession'
  BY <1>1, <1>3, <1>6, <1>7, <1>8, <1>9, <1>10, TimelineEnds
<1>12. s.steps = n.steps /\ s.provider_failed = failed
  BY <1>6, <1>8, FinishedShown
<1>13. CASE pc' = "returned"
  <2>1. s.provider_failed <=> ProviderFailedInReturn'
    BY <1>5, <1>12, <1>13
  <2>2. s.provider_failed => s.steps[Len(s.steps)].error_category = "PROVIDER_ERROR"
    BY <1>5, <1>6, <1>12, <1>13
  <2>3. OnlyProviderFailuresAre502'
    BY <1>1, <1>13, <2>1, <2>2, RightlyAnswered
  <2> QED
    BY <1>11, <1>13, <2>3 DEF DemoInv, Ended
<1>14. CASE pc' # "returned"
  <2>1. OnlyProviderFailuresAre502'
    BY <1>14 DEF OnlyProviderFailuresAre502
  <2>2. pc' \notin {"deciding", "calling"}
    BY DEF Ended
  <2> QED
    BY <1>11, <2>1, <2>2 DEF DemoInv
<1> QED
  BY <1>13, <1>14

-----------------------------------------------------------------------------
(* The steps of the loop *)

\* A session that goes on, once its timeline tells it.
LEMMA StillTelling ==
  ASSUME ~Ended', NEW s, s = timeline', NEW obs, obs = observations',
         NEW calls, calls = CallsMade', NEW open, open = Open',
         Telling(s, obs, calls, open),
         \A i \in 1..Len(obs) : obs[i].outcome # "SESSION_TIMEOUT",
         pc' = "deciding" => s.selected = NULL,
         pc' = "calling" => s.steps[Len(s.steps)].error_category = NULL
  PROVE  DemoInv'
BY DEF DemoInv

\* One more observation that is no deadline's.
LEMMA NoDeadlineYet ==
  ASSUME NEW seen \in Seq(Observation), NEW o \in Observation, o.outcome # "SESSION_TIMEOUT",
         \A i \in 1..Len(seen) : seen[i].outcome # "SESSION_TIMEOUT",
         NEW obs, obs = Append(seen, o)
  PROVE  \A i \in 1..Len(obs) : obs[i].outcome # "SESSION_TIMEOUT"
BY DEF Observation

LEMMA StartDecisionShown ==
  ASSUME BudgetInv, DemoInv, StartDecision, timeline' = Show(timeline, DecisionStarted)
  PROVE  DemoInv'
<1>1. /\ pc = "loop" /\ pc' = "deciding" /\ pending_call = NoCall
      /\ UNCHANGED <<observations, tool_history, pending_call>>
  BY DEF StartDecision, session, BudgetInv, TaskConsistent
<1>2. ~Ended /\ ~Ended'
  BY <1>1 DEF Ended
<1>3. PICK t, s, obs, calls, open, v :
        /\ t = timeline /\ s = timeline' /\ obs = observations /\ calls = CallsMade
        /\ open = 0 /\ v = NULL
  OBVIOUS
<1>4. Telling(t, obs, calls, open) /\ \A i \in 1..Len(obs) : obs[i].outcome # "SESSION_TIMEOUT"
  BY <1>1, <1>2, <1>3 DEF DemoInv, Open
<1>5. s = [t EXCEPT !.selected = v]
  BY <1>3, ShowHooks DEF ShowDecisionStarted
<1>6. Telling(s, obs, calls, open) /\ s.selected = NULL
  BY <1>3, <1>4, <1>5, TellingSelected
<1>7. obs = observations' /\ calls = CallsMade' /\ open = Open'
  BY <1>1, <1>3 DEF CallsMade, Open
<1> QED
  BY <1>1, <1>2, <1>3, <1>4, <1>6, <1>7, StillTelling

LEMMA DecisionLimitShown ==
  ASSUME BudgetInv, DemoInv, ReachDecisionLimit, timeline' = Show(timeline, Finish)
  PROVE  DemoInv'
<1>1. /\ pc = "loop" /\ pc' = "returned"
      /\ UNCHANGED <<observations, tool_history, pending_call>>
      /\ diagnosis'.missing_evidence # "SESSION_TIMEOUT"
  BY DEF ReachDecisionLimit, Return, LimitReached
<1>2. timeline' = ShowFinish(timeline)
  BY ShowHooks
<1> QED
  BY <1>1, <1>2, QuietEndShown

LEMMA FinalAnswerShown ==
  ASSUME BudgetInv, DemoInv, NEW answer \in Answers, AcceptFinalAnswer(answer),
         timeline' = Show(Show(timeline, DecisionReturned(FinalAnswer)), Finish)
  PROVE  DemoInv'
<1>1. /\ pc = "deciding" /\ pc' = "returned"
      /\ UNCHANGED <<observations, tool_history, pending_call>>
      /\ diagnosis'.status # "LIMIT_REACHED"
  BY AnswersAssumption DEF AcceptFinalAnswer, DecisionArrives, Return
<1>2. timeline' = ShowFinish(timeline)
  <2>1. PICK d : d = FinalAnswer
    OBVIOUS
  <2>2. Show(timeline, DecisionReturned(d)) = timeline
    BY <2>1, ShowHooks DEF ShowDecisionReturned
  <2> QED
    BY <2>1, <2>2, ShowHooks
<1> QED
  BY <1>1, <1>2, QuietEndShown

LEMMA ProviderFailureShown ==
  ASSUME BudgetInv, DemoInv, ProviderFails,
         timeline' = Show(Show(timeline, Error("decision", "PROVIDER_ERROR")), Finish)
  PROVE  DemoInv'
<1>1. PICK o, type : o = Failure(Provider, "PROVIDER_ERROR") /\ type = "PROVIDER_ERROR"
  OBVIOUS
<1>2. /\ pc = "deciding" /\ pc' = "returned" /\ UNCHANGED <<tool_history, pending_call>>
      /\ observations' = Append(observations, o)
  BY <1>1 DEF ProviderFails, DecisionArrives, RecordFeedback, Return
<1>3. o \in Observation /\ o.outcome = "PROVIDER_ERROR"
  BY <1>1, FailureType DEF Outcomes, Failure
<1>4. PICK obs, calls, open : obs = observations /\ calls = CallsMade /\ open = 0
  OBVIOUS
<1>5. pending_call = NoCall /\ ~Ended
  BY <1>2 DEF BudgetInv, TaskConsistent, Ended
<1>6. Telling(timeline, obs, calls, open)
  BY <1>4, <1>5 DEF DemoInv, Open
<1>7. obs \in Seq(ToldObservations) /\ obs \in Seq(Observation) /\ Len(obs) \in Nat
  BY <1>4, <1>6 DEF Telling, BudgetInv, TypeOK
<1>8. Told' = observations
  <2>1. Told' = Selected(Append(obs, o), ToldObservations)
    BY <1>2, <1>4 DEF Told, ToldObservations
  <2>2. o \notin ToldObservations
    BY <1>3 DEF ToldObservations
  <2>3. Selected(Append(obs, o), ToldObservations) = Selected(obs, ToldObservations)
    BY <1>3, <1>7, <2>2, SelectedAppend
  <2> QED
    BY <1>4, <1>7, <2>1, <2>3, ToldSame
<1>9. ProviderFailedInReturn'
  <2>1. PICK more : more = observations'
    OBVIOUS
  <2>2. more = Append(obs, o)
    BY <1>2, <1>4, <2>1
  <2>3. Len(more) > 0 /\ more[Len(more)] = o
    BY <1>3, <1>7, <2>2
  <2> QED
    BY <1>3, <2>1, <2>3 DEF ProviderFailedInReturn
<1>10. timeline' = ShowFinish(ShowDecisionError(timeline, type))
  BY <1>1, ShowHooks
<1>11. type \notin {"SESSION_TIMEOUT", "CANCELLED"} /\ type \notin Categories
  BY <1>1 DEF Categories
<1>12. Ended'
  BY <1>2 DEF Ended
<1>13. pc' = "returned" =>
         /\ type \notin {"SESSION_TIMEOUT", "CANCELLED"} <=> ProviderFailedInReturn'
         /\ type \notin {"SESSION_TIMEOUT", "CANCELLED"} => type \notin Categories
  BY <1>9, <1>11
<1> QED
  BY <1>2, <1>8, <1>10, <1>12, <1>13, DecisionFailureShown

RejectedStep(tool) == SafeStep(tool, "rejected_action", FALSE)

\* The loop has a call in mind, which it refuses or makes.
LEMMA RequestShown ==
  ASSUME BudgetInv, DemoInv, pc = "deciding", NEW r \in Requests,
         NEW m, m = Show(timeline, DecisionReturned(r)), NEW tool, tool = ToolName[r]
  PROVE  /\ Telling(m, observations, CallsMade, 0) /\ m.selected = RejectedStep(tool)
         /\ m.steps = timeline.steps
         /\ tool \in Tools /\ pending_call = NoCall
         /\ \A i \in 1..Len(observations) : observations[i].outcome # "SESSION_TIMEOUT"
<1>1. pending_call = NoCall /\ ~Ended /\ r # FinalAnswer /\ tool \in Tools
  BY DecisionsAssumption, RequestsAssumption DEF BudgetInv, TaskConsistent, Ended
<1>2. PICK t, obs, calls, open, v :
        /\ t = timeline /\ obs = observations /\ calls = CallsMade /\ open = 0
        /\ v = RejectedStep(tool)
  OBVIOUS
<1>3. Telling(t, obs, calls, open) /\ \A i \in 1..Len(obs) : obs[i].outcome # "SESSION_TIMEOUT"
  BY <1>1, <1>2 DEF DemoInv, Open
<1>4. v \in InvestigationStep
  <2>1. PICK kind, retry : kind = "rejected_action" /\ retry = FALSE
    OBVIOUS
  <2>2. /\ tool \in Tools \cup {NULL} /\ retry \in BOOLEAN
        /\ kind \in {"tool_attempt", "rejected_action", "session_error"}
    BY <1>1, <2>1
  <2>3. v = SafeStep(tool, kind, retry)
    BY <1>2, <2>1 DEF RejectedStep
  <2> QED
    BY <2>2, <2>3, SafeStepFacts
<1>5. m = [t EXCEPT !.selected = v]
  <2>1. m = ShowDecisionReturned(t, r)
    BY <1>2, ShowHooks
  <2> QED
    BY <1>1, <1>2, <2>1 DEF ShowDecisionReturned, RejectedStep
<1>6. Telling(m, obs, calls, open) /\ m.selected = v /\ m.steps = t.steps
  BY <1>3, <1>4, <1>5, TellingSelected
<1> QED
  BY <1>1, <1>2, <1>3, <1>6

Refusals == {"REJECTED", "TOOL_CALL_LIMIT_REACHED", "IDENTICAL_TOOL_CALL_LIMIT_REACHED"}

LEMMA RefusalShown ==
  ASSUME BudgetInv, DemoInv, NEW r \in Requests, NEW type \in Refusals,
         NEW tool, tool = ToolName[r], Refuse(tool, type),
         NEW scope, scope = "decision",
         timeline' = Show(Show(timeline, DecisionReturned(r)), Error(scope, type))
  PROVE  DemoInv'
<1>1. PICK o : o = Failure(tool, type)
  OBVIOUS
<1>2. /\ pc = "deciding" /\ pc' = "loop" /\ UNCHANGED <<tool_history, pending_call>>
      /\ observations' = Append(observations, o) /\ observations \in Seq(Observation)
  BY <1>1 DEF Refuse, DecisionArrives, RecordFeedback, BudgetInv, TypeOK
<1>3. PICK m, kind, retry : /\ m = Show(timeline, DecisionReturned(r))
                            /\ kind = "rejected_action" /\ retry = FALSE
  OBVIOUS
<1>4. PICK s, seen, obs, calls, open :
        /\ s = timeline' /\ seen = observations /\ obs = Append(seen, o)
        /\ calls = CallsMade /\ open = 0
  OBVIOUS
<1>5. /\ Telling(m, seen, calls, 0) /\ m.selected = SafeStep(tool, kind, retry)
      /\ tool \in Tools /\ pending_call = NoCall
      /\ \A i \in 1..Len(seen) : seen[i].outcome # "SESSION_TIMEOUT"
  <2>1. /\ Telling(m, observations, CallsMade, 0)
        /\ tool \in Tools /\ pending_call = NoCall
        /\ \A i \in 1..Len(observations) : observations[i].outcome # "SESSION_TIMEOUT"
    BY <1>2, <1>3, RequestShown
  <2>2. m.selected = RejectedStep(tool)
    BY <1>2, <1>3, RequestShown
  <2> QED
    BY <1>3, <1>4, <2>1, <2>2 DEF RejectedStep
<1>6. s = ShowDecisionError(m, type)
  BY <1>3, <1>4, ShowHooks
<1>7. type \in {"REJECTED", "TOOL_CALL_LIMIT_REACHED", "IDENTICAL_TOOL_CALL_LIMIT_REACHED"}
  BY DEF Refusals
<1>8. Telling(s, obs, calls, open)
  <2>1. retry \in BOOLEAN
    BY <1>3
  <2> QED
    BY <1>1, <1>3, <1>4, <1>5, <1>6, <1>7, <2>1, TellingRefused
<1>9. o \in Observation /\ o.outcome # "SESSION_TIMEOUT"
  <2>1. type \in Outcomes /\ tool \in Tools \cup {Provider}
    BY <1>5, <1>7 DEF Outcomes, LoopErrors
  <2> QED
    BY <1>1, <1>7, <2>1, FailureType DEF Failure
<1>10. \A i \in 1..Len(obs) : obs[i].outcome # "SESSION_TIMEOUT"
  BY <1>2, <1>4, <1>5, <1>9, NoDeadlineYet
<1>11. obs = observations' /\ calls = CallsMade' /\ open = Open' /\ ~Ended'
  BY <1>2, <1>4, <1>5 DEF CallsMade, Open, Ended
<1>12. pc' # "deciding" /\ pc' # "calling"
  BY <1>2
<1> QED
  BY <1>4, <1>8, <1>10, <1>11, <1>12, StillTelling

\* A call is made, by a decision or to repeat one that timed out.
LEMMA CallShown ==
  ASSUME NEW m, NEW obs, obs = observations', NEW calls, calls = tool_history',
         Telling(m, obs, calls, 0), NEW c \in Calls, NEW retry \in BOOLEAN,
         \A i \in 1..Len(obs) : obs[i].outcome # "SESSION_TIMEOUT",
         pc' = "calling", pending_call' = c,
         timeline' = Show(m, ToolStarted(c, retry))
  PROVE  DemoInv'
<1>1. PICK h, s : h = ToolStarted(c, retry) /\ s = timeline'
  OBVIOUS
<1>2. h.hook = "tool_started" /\ h.call = c /\ h.retry = retry
  BY <1>1 DEF ToolStarted
<1>3. s = ShowToolStarted(m, h)
  BY <1>1, <1>2, ShowCases
<1>4. PICK more, open : more = Append(calls, c) /\ open = 1
  OBVIOUS
<1>5. Telling(s, obs, more, open) /\ s.steps[Len(s.steps)].error_category = NULL
  <2>1. h.call \in Calls /\ h.retry \in BOOLEAN
    BY <1>2
  <2>2. /\ Telling(s, obs, Append(calls, h.call), 1)
        /\ s.steps[Len(s.steps)].error_category = NULL
    BY <1>3, <2>1, TellingCall
  <2> QED
    BY <1>2, <1>4, <2>2
<1>6. more = CallsMade' /\ open = Open' /\ ~Ended'
  BY <1>4, CallFacts DEF CallsMade, Open, Ended
<1> QED
  BY <1>1, <1>5, <1>6, StillTelling

LEMMA DispatchShown ==
  ASSUME BudgetInv, DemoInv, NEW r \in Requests, Dispatch(r),
         timeline' = Show(Show(timeline, DecisionReturned(r)), ToolStarted(Normal[r], FALSE))
  PROVE  DemoInv'
<1>1. /\ pc = "deciding" /\ pc' = "calling" /\ pending_call' = Normal[r]
      /\ UNCHANGED <<observations, tool_history>> /\ Normal[r] # Rejected
  BY DEF Dispatch, DecisionArrives
<1>2. PICK m, tool, retry, c :
        /\ m = Show(timeline, DecisionReturned(r)) /\ tool = ToolName[r]
        /\ retry = FALSE /\ c = Normal[r]
  OBVIOUS
<1>3. /\ Telling(m, observations, CallsMade, 0) /\ pending_call = NoCall
      /\ \A i \in 1..Len(observations) : observations[i].outcome # "SESSION_TIMEOUT"
  BY <1>1, <1>2, RequestShown
<1>4. PICK obs, calls : obs = observations' /\ calls = tool_history'
  OBVIOUS
<1>5. Telling(m, obs, calls, 0) /\ \A i \in 1..Len(obs) : obs[i].outcome # "SESSION_TIMEOUT"
  BY <1>1, <1>3, <1>4 DEF CallsMade
<1>6. c \in Calls /\ retry \in BOOLEAN /\ pending_call' = c
  BY <1>1, <1>2, CallFacts
<1>7. timeline' = Show(m, ToolStarted(c, retry))
  BY <1>2
<1> QED
  BY <1>1, <1>4, <1>5, <1>6, <1>7, CallShown

\* What a result leaves on the timeline, before the loop goes on with it.
LEMMA AnswerShown ==
  ASSUME BudgetInv, DemoInv, pc = "calling", pending_call # NoCall,
         NEW o \in Results(pending_call), RecordToolResult(pending_call, o),
         NEW m, m = Show(timeline, ToolFinished(o)),
         NEW obs, obs = observations', NEW calls, calls = tool_history'
  PROVE  /\ Telling(m, obs, calls, 0)
         /\ \A i \in 1..Len(obs) : obs[i].outcome # "SESSION_TIMEOUT"
<1>1. pending_call \in Calls /\ tool_history \in Seq(Calls) /\ observations \in Seq(Observation)
  BY DEF BudgetInv, TypeOK
<1>2. /\ o \in Observation /\ o.tool = ToolName[pending_call]
      /\ o.outcome \in {"OK", "TOOL_TIMEOUT", "TOOL_ERROR"}
  BY <1>1, ResultsType
<1>3. o \in ToldObservations /\ IsToolResult(o) /\ o.outcome # "SESSION_TIMEOUT"
  BY <1>2 DEF ToldObservations, IsToolResult
<1>4. PICK t, seen : t = timeline /\ seen = observations
  OBVIOUS
<1>5. calls = CallsMade /\ obs = Append(seen, o) /\ calls[Len(calls)] = pending_call
  BY <1>1, <1>4 DEF RecordToolResult, CallsMade
<1>6. /\ Telling(t, seen, calls, 1) /\ t.steps[Len(t.steps)].error_category = NULL
      /\ \A i \in 1..Len(seen) : seen[i].outcome # "SESSION_TIMEOUT"
  BY <1>4, <1>5 DEF DemoInv, Open, Ended
<1>7. m = ShowToolFinished(t, o)
  BY <1>4, ShowHooks
<1>8. Telling(m, obs, calls, 0)
  BY <1>2, <1>3, <1>5, <1>6, <1>7, TellingAnswered
<1>9. \A i \in 1..Len(obs) : obs[i].outcome # "SESSION_TIMEOUT"
  BY <1>1, <1>2, <1>3, <1>4, <1>5, <1>6, NoDeadlineYet
<1> QED
  BY <1>8, <1>9

LEMMA ResultShown ==
  ASSUME BudgetInv, DemoInv, pending_call # NoCall,
         NEW o \in Results(pending_call), RecordResult(o),
         timeline' = Show(timeline, ToolFinished(o))
  PROVE  DemoInv'
<1>1. /\ pc = "calling" /\ pc' = "loop" /\ pending_call' = NoCall
      /\ RecordToolResult(pending_call, o)
  BY DEF RecordResult, ToolAnswers
<1>2. PICK s, obs, calls, open :
        /\ s = timeline' /\ obs = observations' /\ calls = tool_history' /\ open = 0
  OBVIOUS
<1>3. Telling(s, obs, calls, open) /\ \A i \in 1..Len(obs) : obs[i].outcome # "SESSION_TIMEOUT"
  BY <1>1, <1>2, AnswerShown
<1>4. calls = CallsMade' /\ open = Open' /\ ~Ended'
  BY <1>1, <1>2 DEF CallsMade, Open, Ended
<1> QED
  BY <1>1, <1>2, <1>3, <1>4, StillTelling

LEMMA RetryShown ==
  ASSUME BudgetInv, DemoInv, pending_call # NoCall,
         NEW o \in Results(pending_call), RetryTimeout(o),
         timeline' = Show(Show(timeline, ToolFinished(o)), ToolStarted(pending_call, TRUE))
  PROVE  DemoInv'
<1>1. /\ pc = "calling" /\ pc' = "calling" /\ pending_call' = pending_call
      /\ RecordToolResult(pending_call, o) /\ pending_call \in Calls
  BY DEF RetryTimeout, ToolAnswers, BudgetInv, TypeOK
<1>2. PICK m, obs, calls, c, retry :
        /\ m = Show(timeline, ToolFinished(o)) /\ obs = observations'
        /\ calls = tool_history' /\ c = pending_call /\ retry = TRUE
  OBVIOUS
<1>3. Telling(m, obs, calls, 0) /\ \A i \in 1..Len(obs) : obs[i].outcome # "SESSION_TIMEOUT"
  BY <1>1, <1>2, AnswerShown
<1>4. c \in Calls /\ retry \in BOOLEAN /\ pending_call' = c
  BY <1>1, <1>2
<1>5. timeline' = Show(m, ToolStarted(c, retry))
  BY <1>2
<1> QED
  BY <1>1, <1>2, <1>3, <1>4, <1>5, CallShown

\* Both ways into the deadline's handler: the timer's, and a TimeoutError of the awaited
\* collaborator's own, which is shown first.
LEMMA TimeOutShown ==
  ASSUME BudgetInv, TypeOK', DemoInv,
         \/ Hooked(ResumeTimedOut, CancellationHooks \o HandlerHooks \o <<Finish>>)
         \/ Hooked(RaiseTimeoutError, RaisedAt("TimeoutError") \o HandlerHooks \o <<Finish>>),
         timeline' = Displayed(timeline, hooks')
  PROVE  DemoInv'
<1>1. Suspended /\ ReturnTimedOut /\ Ended' /\ pc' = "returned"
  BY DEF Hooked, ResumeTimedOut, RaiseTimeoutError, ReturnTimedOut, Return, Ended
<1>2. PICK type, scope : /\ type = IF Hooked(ResumeTimedOut,
                                              CancellationHooks \o HandlerHooks \o <<Finish>>)
                                   THEN "SESSION_TIMEOUT" ELSE "TimeoutError"
                         /\ scope = "decision"
  OBVIOUS
<1>3. CASE pc = "deciding"
  <2>1. pending_call = NoCall /\ HandlerHooks = <<>> /\ ~Ended
    BY <1>3 DEF BudgetInv, TaskConsistent, HandlerHooks, Ended
  <2>2. hooks' = <<Error(scope, type)>> \o <<>> \o <<Finish>>
    BY <1>1, <1>2, <1>3, <2>1
       DEF Hooked, ResumeTimedOut, CancellationHooks, RaisedAt
  <2>3. hooks' = <<Error(scope, type), Finish>>
    BY <2>2, Concatenations
  <2>4. timeline' = Show(Show(timeline, Error(scope, type)), Finish)
    BY <2>3, DisplayedAfter
  <2>5. timeline' = ShowFinish(ShowDecisionError(timeline, type))
    BY <1>2, <2>4, ShowHooks
  <2>6. /\ UNCHANGED <<tool_history, pending_call, observations, expired>>
        /\ diagnosis' = LimitReached("SESSION_TIMEOUT", observations)
    BY <1>1, <2>1 DEF ReturnTimedOut, Return
  <2>7. PICK obs : obs = observations
    OBVIOUS
  <2>8. /\ obs \in Seq(ToldObservations)
        /\ \A i \in 1..Len(obs) : obs[i].outcome # "SESSION_TIMEOUT"
    BY <2>1, <2>7 DEF DemoInv, Telling
  <2>9. Told' = observations
    <3>1. Told' = Selected(obs, ToldObservations)
      BY <2>6, <2>7 DEF Told, ToldObservations
    <3> QED
      BY <2>7, <2>8, <3>1, ToldSame
  <2>10. type \notin {"SESSION_TIMEOUT", "CANCELLED"} <=> ProviderFailedInReturn'
    <3>1. CASE Hooked(ResumeTimedOut, CancellationHooks \o HandlerHooks \o <<Finish>>)
      <4>1. expired'
        BY <2>6, <3>1 DEF Hooked, ResumeTimedOut
      <4>2. ~ProviderFailedInReturn'
        BY <2>6, <2>7, <2>8, <4>1, NoFailureInReturn
      <4> QED
        BY <1>2, <3>1, <4>2
    <3>2. CASE ~Hooked(ResumeTimedOut, CancellationHooks \o HandlerHooks \o <<Finish>>)
      <4>1. ~expired'
        BY <2>6, <3>2 DEF Hooked, RaiseTimeoutError, Interrupted
      <4>2. /\ diagnosis'.status = "LIMIT_REACHED"
            /\ diagnosis'.missing_evidence = "SESSION_TIMEOUT"
        BY <2>6 DEF LimitReached
      <4>3. PICK n : n = Len(obs) /\ n \in Nat
        BY <2>8
      <4>4. ~(n > 0 /\ obs[n].outcome = "SESSION_TIMEOUT")
        BY <2>8, <4>3
      <4>5. ProviderFailedInReturn'
        BY <2>6, <2>7, <4>1, <4>2, <4>3, <4>4 DEF ProviderFailedInReturn
      <4> QED
        BY <1>2, <3>2, <4>5
    <3> QED
      BY <3>1, <3>2
  <2>11. type \notin {"SESSION_TIMEOUT", "CANCELLED"} => type \notin Categories
    BY <1>2 DEF Categories, Outcomes, LoopErrors
  <2>12. UNCHANGED <<tool_history, pending_call>>
    BY <2>6
  <2> QED
    BY <1>1, <1>3, <2>5, <2>9, <2>10, <2>11, <2>12, DecisionFailureShown
<1>4. CASE pc = "calling" /\ Hooked(ResumeTimedOut,
                                    CancellationHooks \o HandlerHooks \o <<Finish>>)
  <2>1. pending_call # NoCall /\ ~Ended
    BY <1>4 DEF BudgetInv, TaskConsistent, Ended
  <2>2. hooks' = <<>> \o <<TimedOutCall>> \o <<Finish>>
    BY <1>4, <2>1 DEF Hooked, ResumeTimedOut, CancellationHooks, HandlerHooks
  <2>3. hooks' = <<TimedOutCall, Finish>>
    BY <2>2, Concatenations
  <2>4. timeline' = Show(Show(timeline, TimedOutCall), Finish)
    BY <2>3, DisplayedAfter
  <2>5. PICK r : r = timeline
    OBVIOUS
  <2>6. Telling(r, observations, CallsMade, 1)
    BY <2>1, <2>5 DEF DemoInv, Open
  <2>7. timeline' = ShowFinish(ShowToolFinished(r, Failure(ToolName[pending_call],
                                                           "SESSION_TIMEOUT")))
    BY <2>4, <2>5, ShowHooks DEF TimedOutCall
  <2> QED
    BY <1>1, <2>1, <2>6, <2>7, TimedOutCallShown
<1>5. CASE pc = "calling" /\ Hooked(RaiseTimeoutError,
                                    RaisedAt("TimeoutError") \o HandlerHooks \o <<Finish>>)
  <2>1. pending_call # NoCall /\ ~Ended
    BY <1>5 DEF BudgetInv, TaskConsistent, Ended
  <2>2. PICK h, e : h = Error("tool", "TimeoutError") /\ e = "TimeoutError"
    OBVIOUS
  <2>3. hooks' = <<h>> \o <<TimedOutCall>> \o <<Finish>>
    BY <1>5, <2>1, <2>2 DEF Hooked, RaisedAt, HandlerHooks
  <2>4. hooks' = <<h, TimedOutCall, Finish>>
    BY <2>3, Concatenations
  <2>5. timeline' = Show(Show(Show(timeline, h), TimedOutCall), Finish)
    BY <2>4, DisplayedAfter
  <2>6. PICK t, r : t = timeline /\ r = ShowToolError(t, e)
    OBVIOUS
  <2>7. Show(timeline, h) = r
    <3>1. h.hook = "error" /\ h.scope = "tool" /\ h.error_type = e
      BY <2>2 DEF Error
    <3> QED
      BY <2>6, <3>1, ShowCases
  <2>8. Telling(t, observations, CallsMade, 1)
    BY <2>1, <2>6 DEF DemoInv, Open
  <2>9. Telling(r, observations, CallsMade, 1)
    <3>1. PICK obs, calls : obs = observations /\ calls = CallsMade
      OBVIOUS
    <3> QED
      BY <2>6, <2>8, <3>1, TellingError
  <2>10. timeline' = ShowFinish(ShowToolFinished(r, Failure(ToolName[pending_call],
                                                            "SESSION_TIMEOUT")))
    BY <2>5, <2>7, ShowHooks DEF TimedOutCall
  <2> QED
    BY <1>1, <2>1, <2>9, <2>10, TimedOutCallShown
<1> QED
  BY <1>1, <1>3, <1>4, <1>5 DEF Suspended

\* A run that is left by an exception or by a cancellation.
LEMMA AbandonShown ==
  ASSUME BudgetInv, DemoInv,
         \/ Hooked(ResumeCancelled, CancellationHooks \o <<Finish>>)
         \/ Hooked(RaiseException, RaisedAt("Exception") \o <<Finish>>),
         timeline' = Displayed(timeline, hooks')
  PROVE  DemoInv'
<1>1. /\ Suspended /\ Ended' /\ pc' \in {"raised", "cancelled"} /\ ~Ended
      /\ UNCHANGED <<tool_history, pending_call, observations>>
  BY DEF Hooked, ResumeCancelled, RaiseException, session, Ended, Suspended
<1>2. PICK type, scope, at :
        /\ type = IF Hooked(ResumeCancelled, CancellationHooks \o <<Finish>>)
                  THEN IF pc = "deciding" /\ expired THEN "SESSION_TIMEOUT" ELSE "CANCELLED"
                  ELSE "Exception"
        /\ scope = "decision" /\ at = "tool"
  OBVIOUS
<1>3. CASE pc = "deciding"
  <2>1. hooks' = <<Error(scope, type)>> \o <<Finish>>
    BY <1>2, <1>3 DEF Hooked, CancellationHooks, RaisedAt
  <2>2. hooks' = <<Error(scope, type), Finish>>
    BY <2>1, Concatenations
  <2>3. timeline' = Show(Show(timeline, Error(scope, type)), Finish)
    BY <2>2, DisplayedAfter
  <2>4. timeline' = ShowFinish(ShowDecisionError(timeline, type))
    BY <1>2, <2>3, ShowHooks
  <2>5. Told' = observations
    <3>1. PICK obs : obs = observations
      OBVIOUS
    <3>2. obs \in Seq(ToldObservations)
      BY <1>1, <3>1 DEF DemoInv, Telling
    <3>3. Told' = Selected(obs, ToldObservations)
      BY <1>1, <3>1 DEF Told, ToldObservations
    <3> QED
      BY <3>1, <3>2, <3>3, ToldSame
  <2>6. UNCHANGED <<tool_history, pending_call>> /\ pc' # "returned"
    BY <1>1
  <2> QED
    BY <1>1, <1>3, <2>4, <2>5, <2>6, DecisionFailureShown
<1>4. CASE pc = "calling"
  <2>1. pending_call # NoCall /\ UNCHANGED <<observations, tool_history, pending_call>>
    BY <1>1, <1>4 DEF BudgetInv, TaskConsistent
  <2>2. PICK t, obs, calls : t = timeline /\ obs = observations /\ calls = CallsMade
    OBVIOUS
  <2>3. Telling(t, obs, calls, 1)
    BY <1>1, <2>1, <2>2 DEF DemoInv, Open
  <2>4. CASE hooks' = <<Error(at, type)>> \o <<Finish>>
    <3>1. hooks' = <<Error(at, type), Finish>>
      BY <2>4, Concatenations
    <3>2. timeline' = Show(Show(timeline, Error(at, type)), Finish)
      BY <3>1, DisplayedAfter
    <3>3. PICK m : m = ShowToolError(t, type)
      OBVIOUS
    <3>4. timeline' = ShowFinish(m)
      BY <1>2, <2>2, <3>2, <3>3, ShowHooks
    <3>5. Telling(m, obs, calls, 1) /\ m.steps[Len(m.steps)].success = FALSE
      BY <2>3, <3>3, TellingError
    <3>6. FALSE # NULL
      BY NullAssumption
    <3>7. m.steps[Len(m.steps)].success # NULL
      BY <3>5, <3>6
    <3> QED
      BY <1>1, <1>4, <2>1, <2>2, <3>4, <3>5, <3>7, CallLeftShown
  <2>5. CASE hooks' # <<Error(at, type)>> \o <<Finish>>
    <3>1. hooks' = <<>> \o <<Finish>> /\ pc' = "cancelled"
      BY <1>2, <1>4, <2>5 DEF Hooked, ResumeCancelled, CancellationHooks, RaisedAt
    <3>2. hooks' = <<Finish>>
      BY <3>1, Concatenations
    <3>3. timeline' = Show(timeline, Finish)
      BY <3>2, DisplayedAfter
    <3>4. timeline' = ShowFinish(t)
      BY <2>2, <3>3, ShowHooks
    <3> QED
      BY <1>1, <1>4, <2>1, <2>2, <2>3, <3>1, <3>4, CallLeftShown
  <2> QED
    BY <2>4, <2>5
<1> QED
  BY <1>1, <1>3, <1>4 DEF Suspended

LEMMA ProviderShown ==
  ASSUME BudgetInv, DemoInv, RProviderAnswers, timeline' = Displayed(timeline, hooks')
  PROVE  DemoInv'
<1>1. ASSUME NEW answer \in Answers,
             Hooked(AcceptFinalAnswer(answer), <<DecisionReturned(FinalAnswer), Finish>>)
      PROVE  DemoInv'
  <2>1. timeline' = Show(Show(timeline, DecisionReturned(FinalAnswer)), Finish)
    BY <1>1, DisplayedAfter DEF Hooked
  <2> QED
    BY <1>1, <2>1, FinalAnswerShown DEF Hooked
<1>2. CASE Hooked(ProviderFails, <<Error("decision", "PROVIDER_ERROR"), Finish>>)
  <2>1. PICK h : h = Error("decision", "PROVIDER_ERROR")
    OBVIOUS
  <2>2. hooks' = <<h, Finish>>
    BY <1>2, <2>1 DEF Hooked
  <2>3. timeline' = Show(Show(timeline, h), Finish)
    BY <2>2, DisplayedAfter
  <2> QED
    BY <1>2, <2>1, <2>3, ProviderFailureShown DEF Hooked
<1>3. ASSUME NEW r \in Requests, NEW e \in Refusals,
             Refuse(ToolName[r], e), hooks' = <<DecisionReturned(r), Error("decision", e)>>
      PROVE  DemoInv'
  <2>1. PICK scope, tool : scope = "decision" /\ tool = ToolName[r]
    OBVIOUS
  <2>2. hooks' = <<DecisionReturned(r), Error(scope, e)>>
    BY <1>3, <2>1
  <2>3. timeline' = Show(Show(timeline, DecisionReturned(r)), Error(scope, e))
    BY <2>2, DisplayedAfter
  <2> QED
    BY <1>3, <2>1, <2>3, RefusalShown
<1>4. ASSUME NEW r \in Requests,
             Hooked(Dispatch(r), <<DecisionReturned(r), ToolStarted(Normal[r], FALSE)>>)
      PROVE  DemoInv'
  <2>1. PICK h : h = ToolStarted(Normal[r], FALSE)
    OBVIOUS
  <2>2. hooks' = <<DecisionReturned(r), h>>
    BY <1>4, <2>1 DEF Hooked
  <2>3. timeline' = Show(Show(timeline, DecisionReturned(r)), h)
    BY <2>2, DisplayedAfter
  <2> QED
    BY <1>4, <2>1, <2>3, DispatchShown DEF Hooked
<1>5. ASSUME NEW r \in Requests,
             \/ Hooked(RejectRequest(r),
                       <<DecisionReturned(r), Error("decision", "REJECTED")>>)
             \/ Hooked(RefuseOverBudget(r),
                       <<DecisionReturned(r), Error("decision", "TOOL_CALL_LIMIT_REACHED")>>)
             \/ Hooked(RefuseIdentical(r),
                       <<DecisionReturned(r),
                         Error("decision", "IDENTICAL_TOOL_CALL_LIMIT_REACHED")>>)
      PROVE  DemoInv'
  <2>1. \E e \in Refusals : /\ Refuse(ToolName[r], e)
                            /\ hooks' = <<DecisionReturned(r), Error("decision", e)>>
    BY <1>5 DEF Hooked, RejectRequest, RefuseOverBudget, RefuseIdentical, Refusals
  <2> QED
    BY <1>3, <2>1
<1> QED
  BY <1>1, <1>2, <1>4, <1>5 DEF RProviderAnswers

\* The steps that call no hook.
LEMMA QuietShown ==
  ASSUME DemoInv, timeline' = timeline,
         TimerFires \/ Cancel \/ Rest \/ UNCHANGED vars
  PROVE  DemoInv'
<1>1. CASE UNCHANGED vars
  <2>1. UNCHANGED <<pc, observations, tool_history, pending_call, expired, diagnosis>>
    BY <1>1 DEF vars, session
  <2>2. /\ (Ended <=> Ended') /\ CallsMade' = CallsMade /\ Open' = Open
        /\ UNCHANGED <<pc, observations, timeline>>
    BY <2>1 DEF Ended, CallsMade, Open
  <2>3. TimelineFollowsSession <=> TimelineFollowsSession'
    BY <2>1, <2>2 DEF TimelineFollowsSession, StepsFollowObservations, AttemptsCounted,
                      Shown, Attempts, Told, Response
  <2>4. OnlyProviderFailuresAre502 <=> OnlyProviderFailuresAre502'
    BY <2>1 DEF OnlyProviderFailuresAre502, Response, ProviderFailedInReturn
  <2> QED
    BY <2>2, <2>3, <2>4 DEF DemoInv
<1>2. CASE TimerFires \/ Cancel
  <2>1. /\ ~Ended /\ ~Ended'
        /\ UNCHANGED <<pc, observations, tool_history, pending_call, timeline>>
    BY <1>2 DEF TimerFires, Cancel, Suspended, Ended, session
  <2>2. CallsMade' = CallsMade /\ Open' = Open
    BY <2>1 DEF CallsMade, Open
  <2> QED
    BY <2>1, <2>2 DEF DemoInv
<1> QED
  BY <1>1, <1>2 DEF Rest

LEMMA DemoStep ==
  ASSUME BudgetInv, DemoInv, [RNext /\ DStep]_dvars
  PROVE  BudgetInv' /\ DemoInv'
<1>1. BudgetInv' /\ TypeOK'
  <2>1. [RNext]_rvars
    BY DEF dvars
  <2> QED
    BY <2>1, RecordedStep, BudgetStep DEF BudgetInv
<1>2. ASSUME RNext, timeline' = Displayed(timeline, hooks')
      PROVE  DemoInv'
  <2>1. CASE Hooked(StartDecision, <<DecisionStarted>>)
    <3>1. timeline' = Show(timeline, DecisionStarted)
      BY <1>2, <2>1, DisplayedAfter DEF Hooked
    <3> QED
      BY <2>1, <3>1, StartDecisionShown DEF Hooked
  <2>2. CASE Hooked(ReachDecisionLimit, <<Finish>>)
    <3>1. timeline' = Show(timeline, Finish)
      BY <1>2, <2>2, DisplayedAfter DEF Hooked
    <3> QED
      BY <2>2, <3>1, DecisionLimitShown DEF Hooked
  <2>3. CASE \/ Hooked(ResumeTimedOut, CancellationHooks \o HandlerHooks \o <<Finish>>)
             \/ Hooked(RaiseTimeoutError,
                       RaisedAt("TimeoutError") \o HandlerHooks \o <<Finish>>)
    BY <1>1, <1>2, <2>3, TimeOutShown
  <2>4. CASE \/ Hooked(ResumeCancelled, CancellationHooks \o <<Finish>>)
             \/ Hooked(RaiseException, RaisedAt("Exception") \o <<Finish>>)
    BY <1>2, <2>4, AbandonShown
  <2>5. CASE RProviderAnswers
    BY <1>2, <2>5, ProviderShown
  <2>6. ASSUME pending_call # NoCall, NEW o \in Results(pending_call),
               Hooked(RecordResult(o), <<ToolFinished(o)>>)
        PROVE  DemoInv'
    <3>1. timeline' = Show(timeline, ToolFinished(o))
      BY <1>2, <2>6, DisplayedAfter DEF Hooked
    <3> QED
      BY <2>6, <3>1, ResultShown DEF Hooked
  <2>7. ASSUME pending_call # NoCall, NEW o \in Results(pending_call),
               Hooked(RetryTimeout(o), <<ToolFinished(o), ToolStarted(pending_call, TRUE)>>)
        PROVE  DemoInv'
    <3>1. PICK h : h = ToolStarted(pending_call, TRUE)
      OBVIOUS
    <3>2. hooks' = <<ToolFinished(o), h>>
      BY <2>7, <3>1 DEF Hooked
    <3>3. timeline' = Show(Show(timeline, ToolFinished(o)), h)
      BY <1>2, <3>2, DisplayedAfter
    <3> QED
      BY <2>7, <3>1, <3>3, RetryShown DEF Hooked
  <2>8. CASE RInterrupt \/ Hooked(Rest, <<>>)
    <3>1. timeline' = timeline
      BY <1>2, <2>8, DisplayedAfter DEF RInterrupt, Hooked
    <3> QED
      BY <2>8, <3>1, QuietShown DEF RInterrupt, Hooked
  <2> QED
    BY <1>2, <2>1, <2>2, <2>3, <2>4, <2>5, <2>6, <2>7, <2>8
       DEF RNext, RLocal, RToolReturns, RRaise
<1>3. CASE UNCHANGED dvars
  <2>1. UNCHANGED rvars /\ timeline' = timeline
    BY <1>3 DEF dvars
  <2>2. UNCHANGED vars
    BY <2>1 DEF rvars
  <2> QED
    BY <1>1, <2>1, <2>2, QuietShown
<1> QED
  BY <1>1, <1>2, <1>3 DEF DStep

LEMMA DemoInit ==
  ASSUME RInit, DInit
  PROVE  BudgetInv /\ DemoInv
<1>1. Init /\ BudgetInv
  BY BudgetInit DEF RInit
<1>2. /\ timeline = NewTimeline /\ observations = <<>> /\ pending_call = NoCall
      /\ tool_history = <<>> /\ ~Ended /\ pc = "loop"
  BY <1>1 DEF DInit, Init, Ended
<1>3. PICK t, obs, calls, open, steps :
        /\ t = timeline /\ obs = observations /\ calls = CallsMade /\ open = Open
        /\ steps = t.steps
  OBVIOUS
<1>4. /\ steps = <<>> /\ t.selected = NULL /\ t.provider_failed = FALSE
      /\ t = [steps |-> t.steps, selected |-> t.selected,
              provider_failed |-> t.provider_failed, attempt_count |-> t.attempt_count]
  BY <1>2, <1>3 DEF NewTimeline
<1>5. obs = <<>> /\ calls = <<>> /\ open = 0
  BY <1>2, <1>3 DEF CallsMade, Open
<1>6. \A S : <<>> \in Seq(S)
  OBVIOUS
<1>7. steps \in Seq(InvestigationStep) /\ obs \in Seq(ToldObservations) /\ calls \in Seq(Calls)
  BY <1>4, <1>5, <1>6
<1>8. TimelineShape(t)
  BY <1>3, <1>4, <1>7 DEF TimelineShape
<1>9. AreAttempts(steps, calls)
  <2>1. Selected(steps, CallSteps) = <<>>
    BY <1>4, SelectedEmpty
  <2> QED
    BY <1>5, <2>1 DEF AreAttempts
<1>10. Telling(t, obs, calls, open)
  BY <1>3, <1>4, <1>5, <1>7, <1>8, <1>9 DEF Telling
<1> QED
  BY <1>1, <1>2, <1>3, <1>5, <1>10 DEF DemoInv

-----------------------------------------------------------------------------
(* What the timeline says *)

\* The timeline is the execution at every moment of it: its steps are what the session
\* observed, its attempts the calls the session made, with only the call in flight ahead.
THEOREM TimelineIsTheSession == DSpec => []TimelineFollowsSession
<1>1. ASSUME DemoInv PROVE TimelineFollowsSession
  <2>1. CASE Ended
    BY <1>1, <2>1 DEF DemoInv
  <2>2. CASE ~Ended
    <3>1. PICK t, obs, calls, open :
            /\ t = timeline /\ obs = observations /\ calls = CallsMade
            /\ open = IF pending_call = NoCall THEN 0 ELSE 1
      OBVIOUS
    <3>2. Telling(t, obs, calls, open) /\ open \in 0..1
      BY <1>1, <2>2, <3>1 DEF DemoInv, Open
    <3>3. /\ t.steps \in Seq(InvestigationStep) /\ Len(t.steps) = Len(obs) + open
          /\ Len(obs) \in Nat /\ obs \in Seq(ToldObservations)
          /\ \A i \in 1..Len(t.steps) : t.steps[i].kind # "session_error"
          /\ \A i \in 1..Len(obs) : Tells(t.steps[i], obs[i])
          /\ AreAttempts(t.steps, calls)
      BY <3>2, TellingFacts DEF Telling
    <3>4. Selected(t.steps, ShownSteps) = t.steps
      <4>1. Extended(t, t)
        BY DEF Extended
      <4> QED
        BY <3>2, <4>1, ExtendedShown
    <3>5. Shown = t.steps /\ Attempts = Selected(t.steps, CallSteps)
      BY <3>1, <3>4 DEF Shown, ShownSteps, Attempts, CallSteps
    <3>6. Told = obs
      <4>1. Told = Selected(obs, ToldObservations)
        BY <3>1 DEF Told, ToldObservations
      <4> QED
        BY <3>3, <4>1, ToldSame
    <3>7. Response = "none"
      BY <2>2 DEF Response, Ended
    <3>8. AttemptsCounted
      BY <2>2, <3>1, <3>3, <3>5 DEF AttemptsCounted, AreAttempts
    <3>9. StepsFollowObservations
      <4>1. Len(Shown) = Len(Told) + (IF pending_call = NoCall THEN 0 ELSE 1)
        BY <3>1, <3>3, <3>5, <3>6
      <4>2. \A i \in 1..Len(Told) :
              /\ (Shown[i].kind = "tool_attempt") <=> IsToolResult(Told[i])
              /\ Shown[i].tool = SafeName(Told[i].tool)
              /\ Shown[i].success = Succeeded(Told[i])
              /\ Shown[i].error_category = IF Succeeded(Told[i]) THEN NULL ELSE Told[i].outcome
        BY <3>3, <3>5, <3>6 DEF Tells
      <4> QED
        BY <3>1, <3>3, <3>7, <4>1, <4>2 DEF StepsFollowObservations
    <3> QED
      BY <3>8, <3>9 DEF TimelineFollowsSession
  <2> QED
    BY <2>1, <2>2
<1>2. RInit /\ DInit => BudgetInv /\ DemoInv
  BY DemoInit
<1>3. BudgetInv /\ DemoInv /\ [RNext /\ DStep]_dvars => BudgetInv' /\ DemoInv'
  BY DemoStep
<1> QED
  BY <1>1, <1>2, <1>3, PTL DEF DSpec

\* A session that returned is answered 502 exactly when the provider failed while it was
\* awaited, with an error of its own or with a TimeoutError, and the timeline ends so.
THEOREM ProviderFailuresAre502 == DSpec => []OnlyProviderFailuresAre502
<1>1. DemoInv => OnlyProviderFailuresAre502
  BY DEF DemoInv, OnlyProviderFailuresAre502, Ended
<1>2. RInit /\ DInit => BudgetInv /\ DemoInv
  BY DemoInit
<1>3. BudgetInv /\ DemoInv /\ [RNext /\ DStep]_dvars => BudgetInv' /\ DemoInv'
  BY DemoStep
<1> QED
  BY <1>1, <1>2, <1>3, PTL DEF DSpec
-----------------------------------------------------------------------------
(* Judged on what was known *)

\* A record s that has grown out of r: what was observed and what the first n decisions
\* decided is as it was, and so are the attempts that led to the observations of r.
Grown(r, s, n) ==
  /\ Continues(s.observations, r.observations)
  /\ n <= Len(s.decisions)
  /\ \A i \in 1..n : s.decisions[i] = r.decisions[i]
  /\ \A t \in Attempt :
       t.observation \in 1..Len(r.observations)
         => (t \in ToSet(s.tool_attempts) <=> t \in ToSet(r.tool_attempts))

LEMMA GrownSame ==
  ASSUME NEW r, r.observations \in Seq(Observation), NEW n, n <= Len(r.decisions),
         NEW s, s.observations = r.observations, s.decisions = r.decisions, s.tool_attempts = r.tool_attempts
  PROVE  Grown(r, s, n)
BY DEF Grown, Continues

LEMMA GrownTransitive ==
  ASSUME NEW r, NEW s, NEW u, NEW n, Grown(r, s, n), Grown(s, u, n),
         r.observations \in Seq(Observation)
  PROVE  Grown(r, u, n)
<1>1. /\ Len(r.observations) \in Nat /\ Len(s.observations) \in Nat
      /\ Len(u.observations) \in Nat
      /\ Len(r.observations) <= Len(s.observations)
      /\ Len(s.observations) <= Len(u.observations)
  BY DEF Grown, Continues
<1>2. Continues(u.observations, r.observations)
  <2>1. u.observations \in Seq(Observation)
    BY DEF Grown, Continues
  <2>2. ASSUME NEW k \in 1..Len(r.observations)
        PROVE  u.observations[k] = r.observations[k]
    BY <1>1, <2>2 DEF Grown, Continues
  <2> QED
    BY <1>1, <2>1, <2>2 DEF Continues
<1>3. ASSUME NEW t \in Attempt, t.observation \in 1..Len(r.observations)
      PROVE  t \in ToSet(u.tool_attempts) <=> t \in ToSet(r.tool_attempts)
  <2>1. t.observation \in 1..Len(s.observations)
    BY <1>1, <1>3
  <2> QED
    BY <1>3, <2>1 DEF Grown
<1> QED
  BY <1>2, <1>3 DEF Grown

\* What the evaluators read of the observations seen.
LEMMA SameEvidence ==
  ASSUME NEW r, NEW s, NEW n, Grown(r, s, n), NEW seen, seen \subseteq 1..Len(r.observations)
  PROVE  /\ \A c : KnownRequestIds(c, s, seen) = KnownRequestIds(c, r, seen)
         /\ HasRuntimeFailure(s, seen) <=> HasRuntimeFailure(r, seen)
         /\ \A tool : SucceededWith(s, seen, tool) <=> SucceededWith(r, seen, tool)
<1>1. \A k \in seen : s.observations[k] = r.observations[k]
  BY DEF Grown, Continues
<1>2. ASSUME NEW c PROVE KnownRequestIds(c, s, seen) = KnownRequestIds(c, r, seen)
  <2> DEFINE Http(x) == {k \in seen : x.observations[k].tool = HttpTool
                                        /\ Succeeded(x.observations[k])}
  <2>1. Http(s) = Http(r)
    BY <1>1
  <2>2. {s.observations[k].request_id : k \in Http(s)}
          = {r.observations[k].request_id : k \in Http(r)}
    BY <1>1, <2>1
  <2> QED
    BY <2>2 DEF KnownRequestIds
<1>3. HasRuntimeFailure(s, seen) <=> HasRuntimeFailure(r, seen)
  BY <1>1 DEF HasRuntimeFailure
<1>4. ASSUME NEW tool PROVE SucceededWith(s, seen, tool) <=> SucceededWith(r, seen, tool)
  BY <1>1 DEF SucceededWith
<1> QED
  BY <1>2, <1>3, <1>4

LEMMA SameInspections ==
  ASSUME NEW r, NEW s, NEW n, Grown(r, s, n), NEW seen, seen \subseteq 1..Len(r.observations),
         r.tool_attempts \in Seq(Attempt), s.tool_attempts \in Seq(Attempt), NEW call
  PROVE  AlreadyInspected(s, seen, call) <=> AlreadyInspected(r, seen, call)
<1>1. ToSet(r.tool_attempts) \subseteq Attempt /\ ToSet(s.tool_attempts) \subseteq Attempt
  BY DEF ToSet
<1>2. \A t \in Attempt :
        t.observation \in seen =>
          /\ t \in ToSet(s.tool_attempts) <=> t \in ToSet(r.tool_attempts)
          /\ s.observations[t.observation] = r.observations[t.observation]
  BY DEF Grown, Continues
<1> QED
  BY <1>1, <1>2 DEF AlreadyInspected

\* So both evaluators of a decision say the same of it.
LEMMA SameView ==
  ASSUME NEW r, NEW s, NEW n, Grown(r, s, n), NEW i \in 1..n,
         r.decisions[i].prior \in 0..Len(r.observations),
         Len(r.observations) \in Nat,
         r.tool_attempts \in Seq(Attempt), s.tool_attempts \in Seq(Attempt), NEW c
  PROVE  /\ Selection(c, s, i) = Selection(c, r, i)
         /\ Arguments(c, s, i) = Arguments(c, r, i)
<1>1. PICK d, seen : d = r.decisions[i].decision /\ seen = Prior(r, i)
  OBVIOUS
<1>2. /\ s.decisions[i].decision = d /\ Prior(s, i) = seen
      /\ seen \subseteq 1..Len(r.observations)
  BY <1>1 DEF Grown, Prior
<1>3. /\ KnownRequestIds(c, s, seen) = KnownRequestIds(c, r, seen)
      /\ HasRuntimeFailure(s, seen) <=> HasRuntimeFailure(r, seen)
      /\ \A tool : SucceededWith(s, seen, tool) <=> SucceededWith(r, seen, tool)
  <2>1. Grown(r, s, n) /\ seen \subseteq 1..Len(r.observations)
    BY <1>2
  <2>2. \A x : KnownRequestIds(x, s, seen) = KnownRequestIds(x, r, seen)
    BY <2>1, SameEvidence
  <2>3. HasRuntimeFailure(s, seen) <=> HasRuntimeFailure(r, seen)
    BY <2>1, SameEvidence
  <2>4. \A tool : SucceededWith(s, seen, tool) <=> SucceededWith(r, seen, tool)
    BY <2>1, SameEvidence
  <2> QED
    BY <2>2, <2>3, <2>4
<1>4. \A call : AlreadyInspected(s, seen, call) <=> AlreadyInspected(r, seen, call)
  BY <1>2, SameInspections
<1>5. ClearlyUseful(c, s, seen, ToolName[d]) <=> ClearlyUseful(c, r, seen, ToolName[d])
  BY <1>3 DEF ClearlyUseful
<1>6. Selection(c, s, i) = Selection(c, r, i)
  BY <1>1, <1>2, <1>4, <1>5 DEF Selection
<1>7. Arguments(c, s, i) = Arguments(c, r, i)
  BY <1>1, <1>2, <1>3 DEF Arguments
<1> QED
  BY <1>6, <1>7

\* Each hook only adds to the record.
LEMMA ErrorKeeps ==
  ASSUME NEW r, Shape(r), NEW scope, NEW type, NEW n, n <= Len(r.decisions),
         NEW s, s = OnError(r, scope, type)
  PROVE  Grown(r, s, n) /\ s.decisions = r.decisions
<1>1. /\ s.observations = r.observations /\ s.decisions = r.decisions
      /\ s.tool_attempts = r.tool_attempts /\ r.observations \in Seq(Observation)
  BY DEF Shape, OnError
<1> QED
  BY <1>1, GrownSame

LEMMA FinishKeeps ==
  ASSUME NEW r, Shape(r), NEW h, Continues(h.observations, r.observations),
         NEW n, n <= Len(r.decisions), NEW s, s = OnFinish(r, h)
  PROVE  Grown(r, s, n) /\ s.decisions = r.decisions
<1>1. /\ s.observations = h.observations /\ s.decisions = r.decisions
      /\ s.tool_attempts = r.tool_attempts
  <2>1. PICK m : m = Sync(r, h.observations)
    OBVIOUS
  <2>2. /\ m = [observations |-> m.observations, decisions |-> m.decisions,
                tool_attempts |-> m.tool_attempts, errors |-> m.errors,
                diagnosis |-> m.diagnosis, finished |-> m.finished]
        /\ m.observations = h.observations /\ m.decisions = r.decisions
        /\ m.tool_attempts = r.tool_attempts
    BY <2>1 DEF Shape, Sync
  <2>3. s = [m EXCEPT !.diagnosis = h.diagnosis, !.finished = TRUE]
    BY <2>1 DEF OnFinish
  <2> QED
    BY <2>2, <2>3
<1> QED
  BY <1>1 DEF Grown

LEMMA DecisionStartedKeeps ==
  ASSUME NEW r, Shape(r), NEW h, Continues(h.observations, r.observations),
         NEW n \in Nat, n <= Len(r.decisions), NEW s, s = OnDecisionStarted(r, h)
  PROVE  /\ Grown(r, s, n)
         /\ Len(s.decisions) = Len(r.decisions) + 1
         /\ s.decisions[Len(s.decisions)].decision = NoDecision
<1>1. PICK m : m = Sync(r, h.observations)
  OBVIOUS
<1>2. /\ m = [observations |-> m.observations, decisions |-> m.decisions,
              tool_attempts |-> m.tool_attempts, errors |-> m.errors,
              diagnosis |-> m.diagnosis, finished |-> m.finished]
      /\ m.observations = h.observations /\ m.decisions = r.decisions
      /\ m.tool_attempts = r.tool_attempts
  BY <1>1 DEF Shape, Sync
<1>3. PICK new : new = [prior |-> Len(m.observations), decision |-> NoDecision]
  OBVIOUS
<1>4. new \in DecisionRecord /\ new.decision = NoDecision
  BY <1>2, <1>3 DEF DecisionRecord, Continues
<1>5. s = [m EXCEPT !.decisions = Append(m.decisions, new)]
  BY <1>1, <1>3 DEF OnDecisionStarted
<1>6. /\ s.observations = h.observations /\ s.tool_attempts = r.tool_attempts
      /\ s.decisions = Append(r.decisions, new)
  BY <1>2, <1>5
<1>7. r.decisions \in Seq(DecisionRecord) /\ Len(r.decisions) \in Nat
  BY DEF Shape
<1>8. /\ Len(s.decisions) = Len(r.decisions) + 1
      /\ s.decisions[Len(r.decisions) + 1] = new
      /\ \A i \in 1..Len(r.decisions) : s.decisions[i] = r.decisions[i]
  BY <1>4, <1>6, <1>7
<1> QED
  BY <1>4, <1>6, <1>7, <1>8 DEF Grown

LEMMA DecisionReturnedKeeps ==
  ASSUME NEW r, Shape(r), NEW h, NEW n \in Nat, n < Len(r.decisions),
         NEW s, s = OnDecisionReturned(r, h)
  PROVE  Grown(r, s, n)
<1>1. PICK k \in Nat : k = Len(r.decisions) /\ k > 0
  BY DEF Shape
<1>2. /\ s.observations = r.observations /\ s.tool_attempts = r.tool_attempts
      /\ s.decisions = [r.decisions EXCEPT ![k].decision = h.decision]
      /\ r.decisions \in Seq(DecisionRecord) /\ r.observations \in Seq(Observation)
  BY <1>1 DEF Shape, OnDecisionReturned
<1>3. Len(s.decisions) = k /\ \A i \in 1..n : s.decisions[i] = r.decisions[i]
  BY <1>1, <1>2
<1> QED
  BY <1>1, <1>2, <1>3, ContinuesSame DEF Grown

LEMMA ToolStartedKeeps ==
  ASSUME NEW r, Shape(r), NEW h, h.call \in Calls, h.retry \in BOOLEAN,
         NEW n, n <= Len(r.decisions), NEW s, s = OnToolStarted(r, h)
  PROVE  Grown(r, s, n) /\ s.decisions = r.decisions
<1>1. PICK new : new = [decision |-> Len(r.decisions), call |-> h.call,
                        timeout_retry |-> h.retry, observation |-> 0]
  OBVIOUS
<1>2. new \in Attempt /\ new.observation = 0
  <2>1. Len(r.decisions) \in Nat
    BY DEF Shape
  <2> QED
    BY <1>1, <2>1 DEF Attempt
<1>3. /\ s.observations = r.observations /\ s.decisions = r.decisions
      /\ s.tool_attempts = Append(r.tool_attempts, new)
      /\ r.tool_attempts \in Seq(Attempt) /\ r.observations \in Seq(Observation)
  BY <1>1 DEF Shape, OnToolStarted
<1>4. ToSet(s.tool_attempts) = ToSet(r.tool_attempts) \cup {new}
  BY <1>2, <1>3, SetOfAppend
<1>5. ASSUME NEW t \in Attempt, t.observation \in 1..Len(r.observations)
      PROVE  t \in ToSet(s.tool_attempts) <=> t \in ToSet(r.tool_attempts)
  <2>1. t # new
    BY <1>2, <1>5
  <2> QED
    BY <1>4, <2>1
<1> QED
  BY <1>3, <1>5, ContinuesSame DEF Grown

LEMMA ToolFinishedKeeps ==
  ASSUME NEW r, Shape(r), Len(r.tool_attempts) > 0,
         r.tool_attempts[Len(r.tool_attempts)].observation = 0,
         NEW h, h.observation \in Observation,
         NEW n, n <= Len(r.decisions), NEW s, s = OnToolFinished(r, h)
  PROVE  Grown(r, s, n) /\ s.decisions = r.decisions
<1>1. PICK m \in Nat : m = Len(r.tool_attempts)
  BY ShapeFacts
<1>2. PICK k \in Nat : k = Len(r.observations)
  BY DEF Shape
<1>3. PICK q : q = [r EXCEPT !.observations = Append(r.observations, h.observation),
                             !.tool_attempts[m].observation = k + 1]
  OBVIOUS
<1>4. /\ q.observations = Append(r.observations, h.observation)
      /\ q.decisions = r.decisions
      /\ q.tool_attempts = [r.tool_attempts EXCEPT ![m].observation = k + 1]
      /\ q = [observations |-> q.observations, decisions |-> q.decisions,
              tool_attempts |-> q.tool_attempts, errors |-> q.errors,
              diagnosis |-> q.diagnosis, finished |-> q.finished]
  BY <1>3 DEF Shape
<1>5. s = q \/ s = OnError(q, "tool", h.observation.outcome)
  BY <1>1, <1>2, <1>3 DEF OnToolFinished
<1>6. /\ s.observations = Append(r.observations, h.observation)
      /\ s.decisions = r.decisions
      /\ s.tool_attempts = [r.tool_attempts EXCEPT ![m].observation = k + 1]
  BY <1>4, <1>5 DEF OnError
<1>7. r.tool_attempts \in Seq(Attempt) /\ r.observations \in Seq(Observation)
  BY DEF Shape
<1>8. PICK was, is : was = r.tool_attempts /\ is = s.tool_attempts
  OBVIOUS
<1>9. /\ DOMAIN was = 1..m /\ DOMAIN is = 1..m /\ m \in 1..m
      /\ was[m].observation = 0 /\ is[m].observation = k + 1
      /\ \A i \in 1..m : i # m => is[i] = was[i]
  <2>1. was[m] \in Attempt /\ m \in DOMAIN was /\ DOMAIN was = 1..m
    BY <1>1, <1>7, <1>8
  <2> QED
    BY <1>1, <1>6, <1>8, <2>1 DEF Attempt
<1>10. ASSUME NEW t \in Attempt, t.observation \in 1..k
       PROVE  t \in ToSet(is) <=> t \in ToSet(was)
  <2>1. ASSUME NEW i \in 1..m, t = is[i] PROVE t \in ToSet(was)
    <3>1. i # m
      BY <1>2, <1>9, <1>10, <2>1
    <3> QED
      BY <1>9, <2>1, <3>1 DEF ToSet
  <2>2. ASSUME NEW i \in 1..m, t = was[i] PROVE t \in ToSet(is)
    <3>1. i # m
      BY <1>2, <1>9, <1>10, <2>2
    <3> QED
      BY <1>9, <2>2, <3>1 DEF ToSet
  <2> QED
    BY <1>9, <2>1, <2>2 DEF ToSet
<1>11. Continues(s.observations, r.observations)
  <2>1. PICK o \in Observation : o = h.observation
    OBVIOUS
  <2> QED
    BY <1>6, <1>7, <2>1, ContinuesAppend
<1> QED
  BY <1>2, <1>6, <1>8, <1>10, <1>11 DEF Grown

\* The same, of the hooks as the loop calls them.
LEMMA NotedKeeps ==
  ASSUME NEW r, Shape(r), NEW scope, NEW type, NEW n, n <= Len(r.decisions),
         NEW s, s = Apply(r, Error(scope, type))
  PROVE  Grown(r, s, n) /\ s.decisions = r.decisions
<1>1. PICK h : h = Error(scope, type)
  OBVIOUS
<1>2. s = OnError(r, scope, type)
  BY <1>1, ErrorHook, ApplyCases
<1> QED
  BY <1>2, ErrorKeeps

LEMMA EndKeeps ==
  ASSUME NEW r, Shape(r), Continues(observations', r.observations),
         NEW n, n <= Len(r.decisions), NEW s, s = Apply(r, Finish)
  PROVE  Grown(r, s, n)
<1>1. PICK h : h = Finish
  OBVIOUS
<1>2. h.hook = "finish" /\ h.observations = observations'
  BY <1>1 DEF Finish
<1>3. s = OnFinish(r, h) /\ Continues(h.observations, r.observations)
  BY <1>1, <1>2, ApplyCases
<1> QED
  BY <1>3, FinishKeeps

LEMMA TakenKeeps ==
  ASSUME NEW r, Shape(r), NEW d, NEW n \in Nat, n < Len(r.decisions),
         NEW s, s = Apply(r, DecisionReturned(d))
  PROVE  Grown(r, s, n)
<1>1. PICK h : h = DecisionReturned(d)
  OBVIOUS
<1>2. h.hook = "decision_returned"
  BY <1>1 DEF DecisionReturned
<1>3. s = OnDecisionReturned(r, h)
  BY <1>1, <1>2, ApplyCases
<1> QED
  BY <1>3, DecisionReturnedKeeps

LEMMA CalledKeeps ==
  ASSUME NEW r, Shape(r), NEW c \in Calls, NEW retry \in BOOLEAN,
         NEW n, n <= Len(r.decisions), NEW s, s = Apply(r, ToolStarted(c, retry))
  PROVE  Grown(r, s, n)
<1>1. PICK h : h = ToolStarted(c, retry)
  OBVIOUS
<1>2. h.hook = "tool_started" /\ h.call = c /\ h.retry = retry
  BY <1>1 DEF ToolStarted
<1>3. h.call \in Calls /\ h.retry \in BOOLEAN /\ s = OnToolStarted(r, h)
  BY <1>1, <1>2, ApplyCases
<1> QED
  BY <1>3, ToolStartedKeeps

LEMMA AnsweredKeeps ==
  ASSUME NEW r, NEW calls, Sound(r, calls, 1), NEW o \in Observation,
         NEW n, n <= Len(r.decisions), NEW s, s = Apply(r, ToolFinished(o))
  PROVE  Grown(r, s, n)
<1>1. PICK h : h = ToolFinished(o)
  OBVIOUS
<1>2. h.hook = "tool_finished" /\ h.observation = o
  BY <1>1 DEF ToolFinished
<1>3. s = OnToolFinished(r, h) /\ h.observation \in Observation
  BY <1>1, <1>2, ApplyCases
<1>4. Shape(r) /\ Len(r.tool_attempts) > 0
  BY DEF Sound
<1>5. Len(r.tool_attempts) \in 1..Len(r.tool_attempts)
  BY <1>4, ShapeFacts
<1>6. r.tool_attempts[Len(r.tool_attempts)].observation = 0
  BY <1>5 DEF Sound
<1> QED
  BY <1>3, <1>4, <1>6, ToolFinishedKeeps

\* A record m on the way keeps what run had, and its last hook keeps what m has.
LEMMA GrownOnward ==
  ASSUME NEW r, Shape(r), NEW m, NEW s, NEW n, Grown(r, m, n), Grown(m, s, n)
  PROVE  Grown(r, s, n)
<1>1. r.observations \in Seq(Observation)
  BY DEF Shape
<1> QED
  BY <1>1, GrownTransitive

\* The n decisions that have been viewed, which the awaited one is not among.
Viewed(n) ==
  n \in Nat /\ n <= Len(run.decisions) /\ (pc = "deciding" => n < Len(run.decisions))

LEMMA DecisionFailureKeeps ==
  ASSUME BudgetInv, TypeOK', RecorderInv, pc = "deciding",
         NEW scope, NEW type, scope = "decision", type \in ErrorTypes,
         run' = Apply(Apply(run, Error(scope, type)), Finish),
         Continues(observations', observations), NEW n, Viewed(n)
  PROVE  Grown(run, run', n)
<1>1. PICK h : h = Error(scope, type)
  OBVIOUS
<1>2. h.hook = "error" /\ h.scope = "decision" /\ h.error_type = type
  BY <1>1, ErrorHook
<1>3. PICK m : m = Apply(run, h)
  OBVIOUS
<1>4. /\ Sound(m, CallsMade, 0) /\ m.observations = observations
  BY <1>2, <1>3, DecisionFails
<1>5. Shape(run) /\ Shape(m)
  BY <1>4 DEF Sound, RecorderInv
<1>6. Grown(run, m, n) /\ n <= Len(m.decisions)
  BY <1>1, <1>3, <1>5, NotedKeeps DEF Viewed
<1>7. Grown(m, run', n)
  <2>1. Continues(observations', m.observations) /\ run' = Apply(m, Finish)
    BY <1>1, <1>3, <1>4
  <2>2. PICK s : s = run'
    OBVIOUS
  <2> QED
    BY <1>5, <1>6, <2>1, <2>2, EndKeeps
<1> QED
  BY <1>5, <1>6, <1>7, GrownOnward

LEMMA CallFailureKeeps ==
  ASSUME BudgetInv, TypeOK', RecorderInv, pc = "calling", pending_call # NoCall,
         NEW scope, NEW type, scope = "tool", type \in ErrorTypes,
         run' = Apply(Apply(run, Error(scope, type)), Finish),
         UNCHANGED observations, NEW n, Viewed(n)
  PROVE  Grown(run, run', n)
<1>1. PICK h : h = Error(scope, type)
  OBVIOUS
<1>2. h.hook = "error" /\ h.scope = "tool" /\ h.error_type = type
  BY <1>1, ErrorHook
<1>3. PICK m : m = Apply(run, h)
  OBVIOUS
<1>4. /\ Sound(m, CallsMade, 1) /\ m.observations = observations
  BY <1>2, <1>3, CallFails
<1>5. Shape(run) /\ Shape(m)
  BY <1>4 DEF Sound, RecorderInv
<1>6. Grown(run, m, n) /\ n <= Len(m.decisions)
  BY <1>1, <1>3, <1>5, NotedKeeps DEF Viewed
<1>7. Grown(m, run', n)
  <2>1. Continues(observations', m.observations) /\ run' = Apply(m, Finish)
    BY <1>1, <1>3, <1>4, ContinuesSame DEF TypeOK
  <2>2. PICK s : s = run'
    OBVIOUS
  <2> QED
    BY <1>5, <1>6, <2>1, <2>2, EndKeeps
<1> QED
  BY <1>5, <1>6, <1>7, GrownOnward

LEMMA TimedOutCallKeeps ==
  ASSUME BudgetInv, TypeOK', pending_call # NoCall, ReturnTimedOut,
         NEW r, Sound(r, CallsMade, 1), AllSettled(r), r.observations = observations,
         run' = Apply(Apply(r, TimedOutCall), Finish),
         NEW n, n <= Len(r.decisions)
  PROVE  Grown(r, run', n)
<1>1. PICK o : o = Failure(ToolName[pending_call], "SESSION_TIMEOUT")
  OBVIOUS
<1>2. pending_call \in Calls
  BY DEF BudgetInv, TypeOK
<1>3. /\ o \in Observation /\ IsToolResult(o) /\ o.tool = ToolName[pending_call]
  BY <1>1, <1>2, CallFacts, FailureType DEF Outcomes, LoopErrors, Failure, IsToolResult
<1>4. RecordToolResult(pending_call, o)
  BY <1>1 DEF ReturnTimedOut
<1>5. PICK h : h = TimedOutCall
  OBVIOUS
<1>6. h.hook = "tool_finished" /\ h.observation = o /\ h = ToolFinished(o)
  BY <1>1, <1>5 DEF TimedOutCall, ToolFinished
<1>7. PICK m : m = Apply(r, h)
  OBVIOUS
<1>8. /\ Sound(m, tool_history', 0) /\ m.observations = observations'
  BY <1>3, <1>4, <1>6, <1>7, CallAnswered
<1>9. Shape(m) /\ Shape(r)
  BY <1>8 DEF Sound
<1>10. Grown(r, m, n) /\ n <= Len(m.decisions)
  <2>1. PICK calls : calls = CallsMade
    OBVIOUS
  <2>2. Grown(r, m, n)
    BY <1>3, <1>6, <1>7, <2>1, AnsweredKeeps
  <2> QED
    BY <2>2 DEF Grown
<1>11. Grown(m, run', n)
  <2>1. Continues(observations', m.observations) /\ run' = Apply(m, Finish)
    BY <1>5, <1>7, <1>8, ContinuesSame DEF TypeOK
  <2>2. PICK s : s = run'
    OBVIOUS
  <2> QED
    BY <1>9, <1>10, <2>1, <2>2, EndKeeps
<1> QED
  BY <1>9, <1>10, <1>11, GrownOnward

LEMMA TimeOutKeeps ==
  ASSUME BudgetInv, TypeOK', RecorderInv,
         \/ Hooked(ResumeTimedOut, CancellationHooks \o HandlerHooks \o <<Finish>>)
         \/ Hooked(RaiseTimeoutError, RaisedAt("TimeoutError") \o HandlerHooks \o <<Finish>>),
         run' = Recorded(run, hooks'), NEW n, Viewed(n)
  PROVE  Grown(run, run', n)
<1>1. Suspended /\ ReturnTimedOut
  BY DEF Hooked, ResumeTimedOut, RaiseTimeoutError
<1>2. PICK type, scope : /\ type = IF Hooked(ResumeTimedOut,
                                              CancellationHooks \o HandlerHooks \o <<Finish>>)
                                   THEN "SESSION_TIMEOUT" ELSE "TimeoutError"
                         /\ scope = "decision"
  OBVIOUS
<1>3. type \in ErrorTypes
  BY <1>2 DEF ErrorTypes, Outcomes, LoopErrors
<1>4. CASE pc = "deciding"
  <2>1. pending_call = NoCall /\ HandlerHooks = <<>>
    BY <1>4 DEF BudgetInv, TaskConsistent, HandlerHooks
  <2>2. /\ ReturnTimedOut
        /\ hooks' = <<Error(scope, type)>> \o <<>> \o <<Finish>>
    BY <1>1, <1>2, <1>4, <2>1
       DEF Hooked, ResumeTimedOut, CancellationHooks, RaisedAt
  <2>3. hooks' = <<Error(scope, type), Finish>>
    BY <2>2, Concatenations
  <2>4. run' = Apply(Apply(run, Error(scope, type)), Finish)
    BY <2>3, RecordedAfter
  <2>5. Continues(observations', observations)
    BY <1>1, <2>1, ContinuesSame DEF ReturnTimedOut, Return, TypeOK
  <2> QED
    BY <1>2, <1>3, <1>4, <2>4, <2>5, DecisionFailureKeeps
<1>5. CASE pc = "calling" /\ Hooked(ResumeTimedOut,
                                    CancellationHooks \o HandlerHooks \o <<Finish>>)
  <2>1. pending_call # NoCall
    BY <1>5 DEF BudgetInv, TaskConsistent
  <2>2. hooks' = <<>> \o <<TimedOutCall>> \o <<Finish>>
    BY <1>5, <2>1 DEF Hooked, ResumeTimedOut, CancellationHooks, HandlerHooks
  <2>3. hooks' = <<TimedOutCall, Finish>>
    BY <2>2, Concatenations
  <2>4. run' = Apply(Apply(run, TimedOutCall), Finish)
    BY <2>3, RecordedAfter
  <2>5. PICK r : r = run
    OBVIOUS
  <2>6. Sound(r, CallsMade, 1) /\ AllSettled(r) /\ r.observations = observations
    BY <1>5, <2>1, <2>5 DEF RecorderInv, Open, AllSettled
  <2>7. n <= Len(r.decisions) /\ run' = Apply(Apply(r, TimedOutCall), Finish)
    BY <2>4, <2>5 DEF Viewed
  <2>8. Grown(r, run', n)
    BY <1>1, <2>1, <2>6, <2>7, TimedOutCallKeeps
  <2> QED
    BY <2>5, <2>8
<1>6. CASE pc = "calling" /\ Hooked(RaiseTimeoutError,
                                    RaisedAt("TimeoutError") \o HandlerHooks \o <<Finish>>)
  <2>1. pending_call # NoCall
    BY <1>6 DEF BudgetInv, TaskConsistent
  <2>2. PICK h : h = Error("tool", "TimeoutError")
    OBVIOUS
  <2>3. hooks' = <<h>> \o <<TimedOutCall>> \o <<Finish>>
    BY <1>6, <2>1, <2>2 DEF Hooked, RaisedAt, HandlerHooks
  <2>4. hooks' = <<h, TimedOutCall, Finish>>
    BY <2>3, Concatenations
  <2>5. run' = Apply(Apply(Apply(run, h), TimedOutCall), Finish)
    BY <2>4, RecordedAfter
  <2>6. PICK r : r = Apply(run, h)
    OBVIOUS
  <2>7. PICK t, at : t = "TimeoutError" /\ at = "tool"
    OBVIOUS
  <2>8. h.hook = "error" /\ h.scope = "tool" /\ h.error_type = t /\ t \in ErrorTypes
    BY <2>2, <2>7 DEF Error, ErrorTypes
  <2>9. Sound(r, CallsMade, 1) /\ AllSettled(r) /\ r.observations = observations
    BY <1>6, <2>1, <2>6, <2>8, CallFails
  <2>10. Shape(run) /\ n <= Len(run.decisions)
    BY DEF RecorderInv, Sound, Viewed
  <2>11. Grown(run, r, n) /\ r.decisions = run.decisions
    <3>1. r = Apply(run, Error(at, t))
      BY <2>2, <2>6, <2>7
    <3> QED
      BY <2>10, <3>1, NotedKeeps
  <2>12. Grown(r, run', n)
    <3>1. n <= Len(r.decisions) /\ run' = Apply(Apply(r, TimedOutCall), Finish)
      BY <2>5, <2>6, <2>10, <2>11
    <3> QED
      BY <1>1, <2>1, <2>9, <3>1, TimedOutCallKeeps
  <2> QED
    BY <2>10, <2>11, <2>12, GrownOnward
<1> QED
  BY <1>1, <1>4, <1>5, <1>6 DEF Suspended

LEMMA AbandonKeeps ==
  ASSUME BudgetInv, TypeOK', RecorderInv,
         \/ Hooked(ResumeCancelled, CancellationHooks \o <<Finish>>)
         \/ Hooked(RaiseException, RaisedAt("Exception") \o <<Finish>>),
         run' = Recorded(run, hooks'), NEW n, Viewed(n)
  PROVE  Grown(run, run', n)
<1>1. Suspended /\ UNCHANGED <<pending_call, observations>>
  BY DEF Hooked, ResumeCancelled, RaiseException, session
<1>2. PICK type, scope, at :
        /\ type = IF Hooked(ResumeCancelled, CancellationHooks \o <<Finish>>)
                  THEN IF pc = "deciding" /\ expired THEN "SESSION_TIMEOUT" ELSE "CANCELLED"
                  ELSE "Exception"
        /\ scope = "decision" /\ at = "tool"
  OBVIOUS
<1>3. type \in ErrorTypes
  BY <1>2 DEF ErrorTypes, Outcomes, LoopErrors
<1>4. Continues(observations', observations)
  BY <1>1, ContinuesSame DEF TypeOK
<1>5. CASE pc = "deciding"
  <2>1. hooks' = <<Error(scope, type)>> \o <<Finish>>
    BY <1>2, <1>5 DEF Hooked, CancellationHooks, RaisedAt
  <2>2. hooks' = <<Error(scope, type), Finish>>
    BY <2>1, Concatenations
  <2>3. run' = Apply(Apply(run, Error(scope, type)), Finish)
    BY <2>2, RecordedAfter
  <2> QED
    BY <1>2, <1>3, <1>4, <1>5, <2>3, DecisionFailureKeeps
<1>6. CASE pc = "calling" /\ hooks' = <<Error(at, type)>> \o <<Finish>>
  <2>1. pending_call # NoCall
    BY <1>6 DEF BudgetInv, TaskConsistent
  <2>2. hooks' = <<Error(at, type), Finish>>
    BY <1>6, Concatenations
  <2>3. run' = Apply(Apply(run, Error(at, type)), Finish)
    BY <2>2, RecordedAfter
  <2> QED
    BY <1>1, <1>2, <1>3, <1>6, <2>1, <2>3, CallFailureKeeps
<1>7. CASE pc = "calling" /\ hooks' # <<Error(at, type)>> \o <<Finish>>
  <2>1. hooks' = <<>> \o <<Finish>>
    BY <1>2, <1>7 DEF Hooked, ResumeCancelled, CancellationHooks, RaisedAt
  <2>2. hooks' = <<Finish>>
    BY <2>1, Concatenations
  <2>3. PICK r, s : r = run /\ s = run'
    OBVIOUS
  <2>4. s = Apply(r, Finish)
    BY <2>2, <2>3, RecordedAfter
  <2>5. Shape(r) /\ Continues(observations', r.observations) /\ n <= Len(r.decisions)
    BY <1>4, <1>7, <2>3 DEF RecorderInv, Sound, Viewed
  <2> QED
    BY <2>3, <2>4, <2>5, EndKeeps
<1> QED
  BY <1>1, <1>5, <1>6, <1>7 DEF Suspended

\* The decision that was awaited is not among those viewed, so that it may be taken.
LEMMA DecisionTakenKeeps ==
  ASSUME BudgetInv, RecorderInv, pc = "deciding",
         NEW d \in Requests \cup {FinalAnswer},
         NEW m, m = Apply(run, DecisionReturned(d)), NEW n, Viewed(n)
  PROVE  /\ Grown(run, m, n) /\ Shape(run) /\ Shape(m)
         /\ n <= Len(m.decisions) /\ m.observations = observations
<1>1. /\ Sound(m, CallsMade, 0) /\ m.observations = observations
      /\ Len(m.decisions) = Len(run.decisions)
  BY DecisionTaken
<1>2. Shape(run) /\ Shape(m)
  BY <1>1 DEF Sound, RecorderInv
<1>3. n \in Nat /\ n < Len(run.decisions) /\ n <= Len(run.decisions)
  BY DEF Viewed
<1>4. Grown(run, m, n)
  BY <1>2, <1>3, TakenKeeps
<1> QED
  BY <1>1, <1>2, <1>3, <1>4

LEMMA ProviderKeeps ==
  ASSUME BudgetInv, TypeOK', RecorderInv, RProviderAnswers, run' = Recorded(run, hooks'),
         NEW n, Viewed(n)
  PROVE  Grown(run, run', n)
<1>1. ASSUME NEW answer \in Answers,
             Hooked(AcceptFinalAnswer(answer), <<DecisionReturned(FinalAnswer), Finish>>)
      PROVE  Grown(run, run', n)
  <2>1. PICK d, m : d = FinalAnswer /\ m = Apply(run, DecisionReturned(d))
    OBVIOUS
  <2>2. PICK s : s = run'
    OBVIOUS
  <2>3. s = Apply(m, Finish)
    BY <1>1, <2>1, <2>2, RecordedAfter DEF Hooked
  <2>4. pc = "deciding" /\ observations' = observations
    BY <1>1 DEF Hooked, AcceptFinalAnswer, DecisionArrives, Return
  <2>5. /\ Grown(run, m, n) /\ Shape(run) /\ Shape(m)
        /\ n <= Len(m.decisions) /\ m.observations = observations
    BY <2>1, <2>4, DecisionTakenKeeps
  <2>6. Continues(observations', m.observations)
    BY <2>4, <2>5, ContinuesSame DEF TypeOK
  <2>7. Grown(m, s, n)
    BY <2>3, <2>5, <2>6, EndKeeps
  <2> QED
    BY <2>2, <2>5, <2>7, GrownOnward
<1>2. CASE Hooked(ProviderFails, <<Error("decision", "PROVIDER_ERROR"), Finish>>)
  <2>1. PICK scope, type : scope = "decision" /\ type = "PROVIDER_ERROR"
    OBVIOUS
  <2>2. type \in ErrorTypes
    BY <2>1 DEF ErrorTypes, Outcomes
  <2>3. hooks' = <<Error(scope, type), Finish>>
    BY <1>2, <2>1 DEF Hooked
  <2>4. run' = Apply(Apply(run, Error(scope, type)), Finish)
    BY <2>3, RecordedAfter
  <2>5. /\ pc = "deciding"
        /\ observations' = Append(observations, Failure(Provider, "PROVIDER_ERROR"))
        /\ observations \in Seq(Observation)
    BY <1>2 DEF Hooked, ProviderFails, DecisionArrives, RecordFeedback, Return, Ended,
                BudgetInv, TypeOK
  <2>6. Failure(Provider, "PROVIDER_ERROR") \in Observation
    BY FailureType DEF Outcomes
  <2>7. Continues(observations', observations)
    BY <2>5, <2>6, ContinuesAppend
  <2> QED
    BY <2>1, <2>2, <2>4, <2>5, <2>7, DecisionFailureKeeps
<1>3. ASSUME NEW r \in Requests, pc = "deciding", NEW e,
             hooks' = <<DecisionReturned(r), Error("decision", e)>>
      PROVE  Grown(run, run', n)
  <2>1. PICK scope, m : scope = "decision" /\ m = Apply(run, DecisionReturned(r))
    OBVIOUS
  <2>2. PICK s : s = run'
    OBVIOUS
  <2>3. s = Apply(m, Error(scope, e))
    BY <1>3, <2>1, <2>2, RecordedAfter
  <2>4. Grown(run, m, n) /\ Shape(run) /\ Shape(m) /\ n <= Len(m.decisions)
    BY <1>3, <2>1, DecisionTakenKeeps
  <2>5. Grown(m, s, n)
    BY <2>3, <2>4, NotedKeeps
  <2> QED
    BY <2>2, <2>4, <2>5, GrownOnward
<1>4. ASSUME NEW r \in Requests,
             Hooked(Dispatch(r), <<DecisionReturned(r), ToolStarted(Normal[r], FALSE)>>)
      PROVE  Grown(run, run', n)
  <2>1. PICK m, c, retry : /\ m = Apply(run, DecisionReturned(r))
                           /\ c = Normal[r] /\ retry = FALSE
    OBVIOUS
  <2>2. PICK s : s = run'
    OBVIOUS
  <2>3. s = Apply(m, ToolStarted(c, retry))
    <3>1. PICK h : h = ToolStarted(Normal[r], FALSE)
      OBVIOUS
    <3>2. hooks' = <<DecisionReturned(r), h>>
      BY <1>4, <3>1 DEF Hooked
    <3>3. s = Apply(m, h)
      BY <2>1, <2>2, <3>2, RecordedAfter
    <3> QED
      BY <2>1, <3>1, <3>3
  <2>4. pc = "deciding" /\ c \in Calls /\ retry \in BOOLEAN
    BY <1>4, <2>1, CallFacts DEF Hooked, Dispatch, DecisionArrives
  <2>5. Grown(run, m, n) /\ Shape(run) /\ Shape(m) /\ n <= Len(m.decisions)
    BY <2>1, <2>4, DecisionTakenKeeps
  <2>6. Grown(m, s, n)
    BY <2>3, <2>4, <2>5, CalledKeeps
  <2> QED
    BY <2>2, <2>5, <2>6, GrownOnward
<1>5. ASSUME NEW r \in Requests,
             \/ Hooked(RejectRequest(r),
                       <<DecisionReturned(r), Error("decision", "REJECTED")>>)
             \/ Hooked(RefuseOverBudget(r),
                       <<DecisionReturned(r), Error("decision", "TOOL_CALL_LIMIT_REACHED")>>)
             \/ Hooked(RefuseIdentical(r),
                       <<DecisionReturned(r),
                         Error("decision", "IDENTICAL_TOOL_CALL_LIMIT_REACHED")>>)
      PROVE  Grown(run, run', n)
  BY <1>3, <1>5 DEF Hooked, RejectRequest, RefuseOverBudget, RefuseIdentical, Refuse,
                    DecisionArrives
<1> QED
  BY <1>1, <1>2, <1>4, <1>5 DEF RProviderAnswers

\* An answer to the call in flight.
LEMMA AnswerKeeps ==
  ASSUME BudgetInv, TypeOK', RecorderInv, pc = "calling", pending_call # NoCall,
         NEW o \in Results(pending_call), RecordToolResult(pending_call, o),
         NEW m, m = Apply(run, ToolFinished(o)), NEW n, Viewed(n)
  PROVE  Grown(run, m, n) /\ Shape(run) /\ Shape(m) /\ n <= Len(m.decisions)
<1>1. o \in Observation
  BY ResultsType DEF BudgetInv, TypeOK
<1>2. PICK calls : calls = CallsMade
  OBVIOUS
<1>3. Sound(run, calls, 1) /\ n <= Len(run.decisions)
  BY <1>2 DEF RecorderInv, Open, Viewed
<1>4. Grown(run, m, n)
  BY <1>1, <1>3, AnsweredKeeps
<1>5. Sound(m, tool_history', 0)
  BY AnswerRecorded
<1> QED
  BY <1>3, <1>4, <1>5 DEF Sound, Grown

\* Whatever the loop does, its record keeps what has been viewed.
LEMMA RecordKeeps ==
  ASSUME BudgetInv, RecorderInv, [ENext]_evars, NEW n, Viewed(n)
  PROVE  Grown(run, run', n)
<1>1. BudgetInv' /\ TypeOK'
  BY RecordedStep, BudgetStep DEF ENext, evars, BudgetInv
<1>2. Shape(run) /\ n <= Len(run.decisions) /\ n \in Nat
  BY DEF RecorderInv, Sound, Viewed
<1>3. CASE run' = run
  <2>1. PICK s : s = run'
    OBVIOUS
  <2>2. s.observations = run.observations /\ s.decisions = run.decisions
        /\ s.tool_attempts = run.tool_attempts /\ run.observations \in Seq(Observation)
    BY <1>2, <1>3, <2>1 DEF Shape
  <2> QED
    BY <1>2, <2>1, <2>2, GrownSame
<1>4. ASSUME RNext, run' = Recorded(run, hooks')
      PROVE  Grown(run, run', n)
  <2>1. CASE Hooked(StartDecision, <<DecisionStarted>>)
    <3>1. PICK h, s : h = DecisionStarted /\ s = run'
      OBVIOUS
    <3>2. s = Apply(run, h)
      BY <1>4, <2>1, <3>1, RecordedAfter DEF Hooked
    <3>3. h.hook = "decision_started" /\ h.observations = observations
      BY <3>1 DEF DecisionStarted
    <3>4. s = OnDecisionStarted(run, h) /\ Continues(h.observations, run.observations)
      BY <3>2, <3>3, ApplyCases DEF RecorderInv
    <3> QED
      BY <1>2, <3>1, <3>4, DecisionStartedKeeps
  <2>2. CASE Hooked(ReachDecisionLimit, <<Finish>>)
    <3>1. PICK s : s = run'
      OBVIOUS
    <3>2. s = Apply(run, Finish)
      BY <1>4, <2>2, <3>1, RecordedAfter DEF Hooked
    <3>3. Continues(observations', run.observations)
      BY <2>2 DEF Hooked, ReachDecisionLimit, Return, RecorderInv
    <3> QED
      BY <1>2, <3>1, <3>2, <3>3, EndKeeps
  <2>3. CASE \/ Hooked(ResumeTimedOut, CancellationHooks \o HandlerHooks \o <<Finish>>)
             \/ Hooked(RaiseTimeoutError,
                       RaisedAt("TimeoutError") \o HandlerHooks \o <<Finish>>)
    BY <1>1, <1>4, <2>3, TimeOutKeeps
  <2>4. CASE \/ Hooked(ResumeCancelled, CancellationHooks \o <<Finish>>)
             \/ Hooked(RaiseException, RaisedAt("Exception") \o <<Finish>>)
    BY <1>1, <1>4, <2>4, AbandonKeeps
  <2>5. CASE RProviderAnswers
    BY <1>1, <1>4, <2>5, ProviderKeeps
  <2>6. ASSUME pending_call # NoCall, NEW o \in Results(pending_call),
               Hooked(RecordResult(o), <<ToolFinished(o)>>)
        PROVE  Grown(run, run', n)
    <3>1. PICK s : s = run'
      OBVIOUS
    <3>2. s = Apply(run, ToolFinished(o))
      BY <1>4, <2>6, <3>1, RecordedAfter DEF Hooked
    <3>3. pc = "calling" /\ RecordToolResult(pending_call, o)
      BY <2>6 DEF Hooked, RecordResult, ToolAnswers
    <3> QED
      BY <1>1, <2>6, <3>1, <3>2, <3>3, AnswerKeeps
  <2>7. ASSUME pending_call # NoCall, NEW o \in Results(pending_call),
               Hooked(RetryTimeout(o), <<ToolFinished(o), ToolStarted(pending_call, TRUE)>>)
        PROVE  Grown(run, run', n)
    <3>1. PICK h : h = ToolStarted(pending_call, TRUE)
      OBVIOUS
    <3>2. hooks' = <<ToolFinished(o), h>>
      BY <2>7, <3>1 DEF Hooked
    <3>3. PICK m, s : m = Apply(run, ToolFinished(o)) /\ s = run'
      OBVIOUS
    <3>4. s = Apply(m, h)
      BY <1>4, <3>2, <3>3, RecordedAfter
    <3>5. PICK c, retry : c = pending_call /\ retry = TRUE
      OBVIOUS
    <3>6. c \in Calls /\ retry \in BOOLEAN /\ h = ToolStarted(c, retry)
      BY <2>7, <3>1, <3>5 DEF BudgetInv, TypeOK
    <3>7. pc = "calling" /\ RecordToolResult(pending_call, o)
      BY <2>7 DEF Hooked, RetryTimeout, ToolAnswers
    <3>8. Grown(run, m, n) /\ Shape(run) /\ Shape(m) /\ n <= Len(m.decisions)
      BY <1>1, <2>7, <3>3, <3>7, AnswerKeeps
    <3>9. s = Apply(m, ToolStarted(c, retry))
      BY <3>4, <3>6
    <3>10. Grown(m, s, n)
      BY <3>6, <3>8, <3>9, CalledKeeps
    <3> QED
      BY <3>3, <3>8, <3>10, GrownOnward
  <2>8. CASE RInterrupt \/ Hooked(Rest, <<>>)
    <3>1. run' = run
      BY <1>4, <2>8, RecordedAfter DEF RInterrupt, Hooked
    <3> QED
      BY <1>3, <3>1
  <2> QED
    BY <1>4, <2>1, <2>2, <2>3, <2>4, <2>5, <2>6, <2>7, <2>8
       DEF RNext, RLocal, RToolReturns, RRaise
<1> QED
  BY <1>3, <1>4 DEF ENext, evars

\* The decision that is awaited has no content yet.
Awaited == pc = "deciding" =>
  Len(run.decisions) > 0 /\ run.decisions[Len(run.decisions)].decision = NoDecision

LEMMA StillAwaited ==
  ASSUME BudgetInv, RecorderInv, [ENext]_evars, Awaited
  PROVE  Awaited'
<1>1. CASE pc' # "deciding"
  BY <1>1 DEF Awaited
<1>2. CASE pc = "deciding" /\ pc' = "deciding"
  <2>1. run' = run
    <3>1. ASSUME RNext, run' = Recorded(run, hooks') PROVE run' = run
      <4>1. RInterrupt \/ Hooked(Rest, <<>>)
        BY <1>2, <3>1 DEF RNext, RLocal, RProviderAnswers, RToolReturns, RRaise, Hooked,
             StartDecision, ReachDecisionLimit, ResumeTimedOut, ResumeCancelled, Return,
             ReturnTimedOut, AcceptFinalAnswer, ProviderFails, RejectRequest,
             RefuseOverBudget, RefuseIdentical, Refuse, Dispatch, RecordResult,
             RetryTimeout, ToolAnswers, RaiseTimeoutError, RaiseException
      <4> QED
        BY <3>1, <4>1, RecordedAfter DEF RInterrupt, Hooked
    <3> QED
      BY <3>1 DEF ENext, evars
  <2> QED
    BY <1>2, <2>1 DEF Awaited
<1>3. CASE pc # "deciding" /\ pc' = "deciding"
  <2>1. RNext /\ run' = Recorded(run, hooks')
    BY <1>3 DEF ENext, evars, rvars, vars, session
  <2>2. Hooked(StartDecision, <<DecisionStarted>>)
    BY <1>3, <2>1 DEF RNext, RLocal, RProviderAnswers, RToolReturns, RRaise, RInterrupt,
         Hooked, ReachDecisionLimit, ResumeTimedOut, ResumeCancelled, Return,
         ReturnTimedOut, AcceptFinalAnswer, ProviderFails, RejectRequest,
         RefuseOverBudget, RefuseIdentical, Refuse, Dispatch, RecordResult,
         RetryTimeout, ToolAnswers, RaiseTimeoutError, RaiseException, TimerFires, Cancel,
         Rest, vars, session
  <2>3. PICK h, s : h = DecisionStarted /\ s = run'
    OBVIOUS
  <2>4. s = Apply(run, h)
    BY <2>1, <2>2, <2>3, RecordedAfter DEF Hooked
  <2>5. h.hook = "decision_started" /\ h.observations = observations
    BY <2>3 DEF DecisionStarted
  <2>6. s = OnDecisionStarted(run, h) /\ Continues(h.observations, run.observations)
    BY <2>4, <2>5, ApplyCases DEF RecorderInv
  <2>7. Shape(run) /\ 0 \in Nat /\ 0 <= Len(run.decisions) /\ Len(run.decisions) \in Nat
    BY ShapeFacts DEF RecorderInv, Sound
  <2>8. /\ Len(s.decisions) = Len(run.decisions) + 1
        /\ s.decisions[Len(s.decisions)].decision = NoDecision
    BY <2>6, <2>7, DecisionStartedKeeps
  <2> QED
    BY <1>3, <2>3, <2>7, <2>8 DEF Awaited
<1> QED
  BY <1>1, <1>2, <1>3

Verdicts ==
  [state : {"SCORED", "UNDETERMINED", "NOT_APPLICABLE"},
   label : {"INVALID_TOOL", "UNNECESSARY", "APPROPRIATE", "INCORRECT", "CORRECT", "NONE"}]

LEMMA VerdictType ==
  ASSUME NEW c, NEW r, NEW i
  PROVE  Selection(c, r, i) \in Verdicts /\ Arguments(c, r, i) \in Verdicts
<1>1. Selection(c, r, i) \in Verdicts
  BY DEF Selection, Scored, Undetermined, NotApplicable, Unscored, Verdicts
<1>2. Arguments(c, r, i) \in Verdicts
  BY DEF Arguments, Scored, Undetermined, NotApplicable, Unscored, Verdicts
<1> QED
  BY <1>1, <1>2

View(c, r, i) == <<Selection(c, r, i), Arguments(c, r, i)>>

\* The inductive invariant: what was first said of a decision is what can be said of it.
ViewInv ==
  /\ BudgetInv /\ RecorderInv /\ Awaited
  /\ firstView \in Seq(Verdicts \X Verdicts)
  /\ Len(firstView) <= Len(run.decisions)
  /\ \A i \in 1..Len(firstView) :
       /\ run.decisions[i].decision # NoDecision
       /\ firstView[i] = View(case, run, i)

LEMMA ViewInit ==
  ASSUME VInit
  PROVE  ViewInv
<1>1. BudgetInv /\ RecorderInv
  BY RecorderInit DEF VInit
<1>2. pc = "loop" /\ run.decisions = <<>>
  BY DEF VInit, EInit, RInit, Init, NewRun
<1>3. Awaited
  BY <1>2 DEF Awaited
<1> QED
  BY <1>1, <1>2, <1>3 DEF ViewInv, VInit

\* Nothing that a step of the session adds changes what has been said.
LEMMA ViewsKept ==
  ASSUME ViewInv, [ENext]_evars, UNCHANGED case
  PROVE  /\ BudgetInv' /\ RecorderInv' /\ Awaited'
         /\ Len(firstView) <= Len(run'.decisions)
         /\ \A i \in 1..Len(firstView) :
              /\ run'.decisions[i].decision # NoDecision
              /\ firstView[i] = View(case, run', i)
<1>1. BudgetInv' /\ RecorderInv' /\ Awaited'
  BY RecorderStep, StillAwaited DEF ViewInv
<1>2. PICK n \in Nat : n = Len(firstView)
  BY DEF ViewInv
<1>3. /\ Shape(run) /\ Shape(run') /\ Len(run.decisions) \in Nat
      /\ Len(run.observations) \in Nat
      /\ \A i \in 1..Len(run.decisions) :
           run.decisions[i].prior \in 0..Len(run.observations)
  <2>1. Shape(run) /\ Shape(run')
    BY <1>1 DEF ViewInv, RecorderInv, Sound
  <2>2. \A i \in 1..Len(run.decisions) : run.decisions[i].prior <= Len(run.observations)
    BY DEF ViewInv, RecorderInv, Sound
  <2> QED
    BY <2>1, <2>2, ShapeFacts
<1>4. Viewed(n)
  <2>1. n <= Len(run.decisions)
    BY <1>2 DEF ViewInv
  <2>2. ASSUME pc = "deciding" PROVE n # Len(run.decisions)
    BY <1>2, <1>3, <2>2 DEF ViewInv, Awaited
  <2> QED
    BY <1>2, <1>3, <2>1, <2>2 DEF Viewed
<1>5. PICK s : s = run'
  OBVIOUS
<1>6. Grown(run, s, n)
  BY <1>4, <1>5, RecordKeeps DEF ViewInv
<1>7. ASSUME NEW i \in 1..n
      PROVE  /\ s.decisions[i].decision # NoDecision
             /\ firstView[i] = View(case, s, i)
  <2>1. i \in 1..Len(run.decisions) /\ run.decisions[i].decision # NoDecision
    BY <1>2, <1>3 DEF ViewInv
  <2>2. s.decisions[i] = run.decisions[i]
    BY <1>6 DEF Grown
  <2>3. run.tool_attempts \in Seq(Attempt) /\ s.tool_attempts \in Seq(Attempt)
    BY <1>3, <1>5 DEF Shape
  <2>4. /\ Selection(case, s, i) = Selection(case, run, i)
        /\ Arguments(case, s, i) = Arguments(case, run, i)
    BY <1>3, <1>6, <2>1, <2>3, SameView
  <2> QED
    BY <1>2, <2>1, <2>2, <2>4 DEF ViewInv, View
<1>8. n <= Len(s.decisions)
  BY <1>6 DEF Grown
<1> QED
  BY <1>1, <1>2, <1>5, <1>7, <1>8

LEMMA ViewStep ==
  ASSUME ViewInv, [VNext]_allvars
  PROVE  ViewInv'
<1>1. CASE SessionStep
  <2>1. ENext /\ UNCHANGED case
    BY <1>1 DEF SessionStep
  <2>2. /\ BudgetInv' /\ RecorderInv' /\ Awaited'
        /\ Len(firstView) <= Len(run'.decisions)
        /\ \A i \in 1..Len(firstView) :
             /\ run'.decisions[i].decision # NoDecision
             /\ firstView[i] = View(case, run', i)
    BY <2>1, ViewsKept
  <2>3. PICK n \in Nat : n = Len(firstView)
    BY DEF ViewInv
  <2>4. CASE n + 1 <= Len(run'.decisions) /\ run'.decisions[n + 1].decision # NoDecision
    <3>1. PICK v : v = View(case, run', n + 1)
      OBVIOUS
    <3>2. v \in Verdicts \X Verdicts
      BY <3>1, VerdictType DEF View
    <3>3. firstView' = Append(firstView, v)
      BY <1>1, <2>3, <2>4, <3>1 DEF SessionStep, View
    <3>4. /\ firstView' \in Seq(Verdicts \X Verdicts) /\ Len(firstView') = n + 1
          /\ firstView'[n + 1] = v
          /\ \A i \in 1..n : firstView'[i] = firstView[i]
      BY <2>3, <3>2, <3>3 DEF ViewInv
    <3>5. \A i \in 1..(n + 1) : i \in 1..n \/ i = n + 1
      OBVIOUS
    <3> QED
      BY <2>1, <2>2, <2>3, <2>4, <3>1, <3>4, <3>5 DEF ViewInv
  <2>5. CASE ~(n + 1 <= Len(run'.decisions) /\ run'.decisions[n + 1].decision # NoDecision)
    <3>1. firstView' = firstView
      BY <1>1, <2>3, <2>5 DEF SessionStep
    <3> QED
      BY <2>1, <2>2, <3>1 DEF ViewInv
  <2> QED
    BY <2>4, <2>5
<1>2. CASE UNCHANGED <<evars, case, firstView>>
  <2>1. /\ BudgetInv' /\ RecorderInv' /\ Awaited'
        /\ Len(firstView) <= Len(run'.decisions)
        /\ \A i \in 1..Len(firstView) :
             /\ run'.decisions[i].decision # NoDecision
             /\ firstView[i] = View(case, run', i)
    BY <1>2, ViewsKept
  <2> QED
    BY <1>2, <2>1 DEF ViewInv
<1>3. CASE \/ EvaluateByCode \/ InputTooLarge \/ AskJudge \/ CorrectJudge \/ JudgeFails
           \/ CloseBundle
  BY <1>2, <1>3 DEF EvaluateByCode, InputTooLarge, AskJudge, CorrectJudge, JudgeFails,
       CloseBundle, Conclude, SendRequest
<1>4. ASSUME NEW label, NEW cited, JudgeAnswers(label, cited)
      PROVE  ViewInv'
  BY <1>2, <1>4 DEF JudgeAnswers, Conclude
<1>5. CASE UNCHANGED allvars
  BY <1>2, <1>5 DEF allvars
<1> QED
  BY <1>1, <1>3, <1>4, <1>5 DEF VNext

\* Whatever the case and however long the session goes on after a decision, the code
\* evaluators say of it what they would have said the moment it returned.
THEOREM JudgedWithoutHindsight == VSpec => []WithoutHindsight
<1>1. ViewInv => WithoutHindsight
  BY DEF ViewInv, WithoutHindsight, View
<1>2. VInit => ViewInv
  BY ViewInit
<1>3. ViewInv /\ [VNext]_allvars => ViewInv'
  BY ViewStep
<1> QED
  BY <1>1, <1>2, <1>3, PTL DEF VSpec
-----------------------------------------------------------------------------
(* Sequences that are flattened *)

\* f is the recursion of FlattenSeq up to position n.
Flattens(f, seqs, n) ==
  f = [i \in 1..n |-> IF i = 1 THEN seqs[i] ELSE f[i - 1] \o seqs[i]]

LEMMA FlatteningExists ==
  ASSUME NEW seqs, NEW n \in Nat
  PROVE  \E f : Flattens(f, seqs, n)
<1> DEFINE N == {k \in Nat : \E f : Flattens(f, seqs, k)}
<1>1. 0 \in N
  <2>1. Flattens([i \in 1..0 |-> <<>>], seqs, 0)
    BY DEF Flattens
  <2> QED
    BY <2>1
<1>2. ASSUME NEW k \in Nat, k \in N PROVE k + 1 \in N
  <2>1. PICK f : Flattens(f, seqs, k)
    BY <1>2
  <2> DEFINE e == IF k = 0 THEN seqs[k + 1] ELSE f[k] \o seqs[k + 1]
             g == [i \in 1..(k + 1) |-> IF i = k + 1 THEN e ELSE f[i]]
  <2>2. \A i \in 1..k : f[i] = IF i = 1 THEN seqs[i] ELSE f[i - 1] \o seqs[i]
    BY <2>1 DEF Flattens
  <2>3. /\ \A i \in 1..k : g[i] = f[i]
        /\ g[k + 1] = e
    <3>1. \A i \in 1..k : i \in 1..(k + 1) /\ i # k + 1
      OBVIOUS
    <3>2. k + 1 \in 1..(k + 1)
      OBVIOUS
    <3> HIDE DEF e
    <3> QED
      BY <3>1, <3>2
  <2>4. ASSUME NEW i \in 1..(k + 1)
        PROVE  g[i] = IF i = 1 THEN seqs[i] ELSE g[i - 1] \o seqs[i]
    <3> HIDE DEF g
    <3>1. CASE i = k + 1
      <4>1. CASE k = 0
        BY <2>3, <3>1, <4>1
      <4>2. CASE k # 0
        <5>1. k \in 1..k /\ i - 1 = k /\ i # 1
          BY <3>1, <4>2
        <5> QED
          BY <2>3, <3>1, <4>2, <5>1
      <4> QED
        BY <4>1, <4>2
    <3>2. CASE i # k + 1
      <4>1. i \in 1..k /\ (i # 1 => i - 1 \in 1..k)
        BY <3>2
      <4> QED
        BY <2>2, <2>3, <4>1
    <3> QED
      BY <3>1, <3>2
  <2>5. Flattens(g, seqs, k + 1)
    <3> DEFINE h == [i \in 1..(k + 1) |-> IF i = 1 THEN seqs[i] ELSE g[i - 1] \o seqs[i]]
    <3>1. g = [i \in 1..(k + 1) |-> g[i]]
      OBVIOUS
    <3> HIDE DEF g
    <3>2. \A i \in 1..(k + 1) : g[i] = h[i]
      BY <2>4
    <3>3. g = h
      BY <3>1, <3>2
    <3> QED
      BY <3>3 DEF Flattens
  <2> QED
    BY <2>5
<1> HIDE DEF N
<1>3. Nat \subseteq N
  BY <1>1, <1>2, NatInd
<1> QED
  BY <1>3 DEF N

\* A flattened sequence of sequences over S is a sequence over S.
LEMMA FlattenSeqType ==
  ASSUME NEW S, NEW seqs \in Seq(Seq(S))
  PROVE  FlattenSeq(seqs) \in Seq(S)
<1>0. PICK n \in Nat : n = Len(seqs)
  OBVIOUS
<1>1. CASE n = 0
  <2>1. FlattenSeq(seqs) = seqs
    BY <1>0, <1>1 DEF FlattenSeq
  <2>2. seqs = <<>>
    <3>1. PICK U, t : U = Seq(S) /\ t = <<>>
      OBVIOUS
    <3>2. t \in Seq(U) /\ Len(t) = 0 /\ seqs \in Seq(U) /\ Len(seqs) = 0
      BY <1>0, <1>1, <3>1
    <3>3. \A i \in 1..Len(seqs) : seqs[i] = t[i]
      BY <3>2
    <3> QED
      BY <3>1, <3>2, <3>3, SameSequence
  <2> QED
    BY <2>1, <2>2
<1>2. CASE n # 0
  <2>1. PICK f : Flattens(f, seqs, n) /\ FlattenSeq(seqs) = f[n]
    <3>1. \E f : Flattens(f, seqs, n)
      BY FlatteningExists
    <3> QED
      BY <1>0, <1>2, <3>1 DEF FlattenSeq, Flattens
  <2>2. \A i \in 1..n : f[i] = IF i = 1 THEN seqs[i] ELSE f[i - 1] \o seqs[i]
    BY <2>1 DEF Flattens
  <2> DEFINE N == {k \in Nat : k \in 1..n => f[k] \in Seq(S)}
  <2>3. 0 \in N
    OBVIOUS
  <2>4. ASSUME NEW k \in Nat, k \in N PROVE k + 1 \in N
    <3> SUFFICES ASSUME k + 1 \in 1..n PROVE f[k + 1] \in Seq(S)
      OBVIOUS
    <3>1. seqs[k + 1] \in Seq(S)
      BY <1>0
    <3>2. CASE k = 0
      <4>1. f[k + 1] = seqs[k + 1]
        BY <2>2, <3>2
      <4> QED
        BY <3>1, <4>1
    <3>3. CASE k # 0
      <4>1. f[k] \in Seq(S) /\ (k + 1) - 1 = k
        BY <2>4, <3>3
      <4>2. f[k + 1] = f[k] \o seqs[k + 1]
        <5>1. k + 1 \in 1..n /\ k + 1 # 1
          BY <3>3
        <5> QED
          BY <2>2, <4>1, <5>1
      <4> QED
        BY <3>1, <4>1, <4>2
    <3> QED
      BY <3>2, <3>3
  <2> HIDE DEF N
  <2>5. Nat \subseteq N
    BY <2>3, <2>4, NatInd
  <2>6. n \in 1..n
    BY <1>2
  <2> QED
    BY <2>1, <2>5, <2>6 DEF N
<1> QED
  BY <1>1, <1>2

-----------------------------------------------------------------------------
(* Where the results of an evaluation come from *)

UnitRecord ==
  [evaluator : {"tool_selection", "tool_arguments", "root_cause", "grounding",
                "response_quality"},
   decision : Nat]

LEMMA UnitsType ==
  ASSUME NEW r, Len(r.decisions) \in Nat
  PROVE  Units(r) \in Seq(UnitRecord)
<1> DEFINE n == Len(r.decisions)
           pairs == [i \in 1..n |-> <<Unit("tool_selection", i), Unit("tool_arguments", i)>>]
           last == <<Unit("root_cause", 0), Unit("grounding", 0),
                     Unit("response_quality", 0)>>
<1>1. ASSUME NEW i \in 1..n
      PROVE  <<Unit("tool_selection", i), Unit("tool_arguments", i)>> \in Seq(UnitRecord)
  <2>1. Unit("tool_selection", i) \in UnitRecord /\ Unit("tool_arguments", i) \in UnitRecord
    BY DEF Unit, UnitRecord
  <2> QED
    BY <2>1
<1>2. pairs \in Seq(Seq(UnitRecord))
  BY <1>1
<1>3. FlattenSeq(pairs) \in Seq(UnitRecord)
  BY <1>2, FlattenSeqType
<1>4. last \in Seq(UnitRecord)
  <2>1. /\ Unit("root_cause", 0) \in UnitRecord /\ Unit("grounding", 0) \in UnitRecord
        /\ Unit("response_quality", 0) \in UnitRecord
    BY DEF Unit, UnitRecord
  <2> QED
    BY <2>1
<1>5. Units(r) = FlattenSeq(pairs) \o last
  BY DEF Units
<1> QED
  BY <1>3, <1>4, <1>5

ResultRecord ==
  [evaluator : {"tool_selection", "tool_arguments", "root_cause", "grounding",
                "response_quality"},
   decision : Nat,
   state : {"SCORED", "UNDETERMINED", "NOT_APPLICABLE", "ERROR"},
   label : {"APPROPRIATE", "UNNECESSARY", "INVALID_TOOL", "CORRECT", "INCORRECT",
            "GROUNDED", "UNGROUNDED", "GOOD", "POOR", "NONE"},
   source : {"code", "judge"}]

\* The code has no say on grounding and never finds a root cause to be the right one.
Attributed(x) ==
  /\ x.evaluator = "grounding" /\ x.state = "SCORED" => x.source = "judge"
  /\ x.evaluator = "root_cause" /\ x.state = "SCORED" /\ x.label = "CORRECT"
       => x.source = "judge"

ResultsInv ==
  /\ results \in Seq(ResultRecord)
  /\ \A x \in ToSet(results) : Attributed(x)

AnyVerdict ==
  [state : {"SCORED", "UNDETERMINED", "NOT_APPLICABLE", "ERROR"},
   label : {"APPROPRIATE", "UNNECESSARY", "INVALID_TOOL", "CORRECT", "INCORRECT",
            "GROUNDED", "UNGROUNDED", "GOOD", "POOR", "NONE"}]

LEMMA ThisUnitType ==
  ASSUME Shape(run), ResultsInv, Evaluating
  PROVE  ThisUnit \in UnitRecord
<1>1. Units(run) \in Seq(UnitRecord)
  BY ShapeFacts, UnitsType
<1>2. Len(results) \in Nat
  BY DEF ResultsInv
<1> QED
  BY <1>1, <1>2 DEF Evaluating, ThisUnit

LEMMA ConcludedResults ==
  ASSUME ResultsInv, NEW x \in ResultRecord, Attributed(x), results' = Append(results, x)
  PROVE  ResultsInv' /\ ToSet(results) \subseteq ToSet(results')
<1>1. results \in Seq(ResultRecord)
  BY DEF ResultsInv
<1>2. results' \in Seq(ResultRecord) /\ ToSet(results') = ToSet(results) \cup {x}
  BY <1>1, SetOfAppend
<1> QED
  BY <1>2 DEF ResultsInv

LEMMA JudgeConcludes ==
  ASSUME Shape(run), ResultsInv, Evaluating, NEW v \in AnyVerdict,
         results' = Append(results, EvaluatorResult(ThisUnit, v, "judge"))
  PROVE  ResultsInv' /\ ToSet(results) \subseteq ToSet(results')
<1>1. PICK u \in UnitRecord : u = ThisUnit
  BY ThisUnitType
<1>2. PICK x : x = EvaluatorResult(u, v, "judge")
  OBVIOUS
<1>3. x \in ResultRecord /\ Attributed(x)
  BY <1>1, <1>2 DEF EvaluatorResult, ResultRecord, AnyVerdict, UnitRecord, Attributed
<1> QED
  BY <1>1, <1>2, <1>3, ConcludedResults

LEMMA CodeConcludes ==
  ASSUME Shape(run), ResultsInv, EvaluateByCode
  PROVE  ResultsInv' /\ ToSet(results) \subseteq ToSet(results')
<1>1. PICK u \in UnitRecord : u = ThisUnit
  BY ThisUnitType DEF EvaluateByCode
<1>2. PICK v : v = ByCode(case, run, u)
  OBVIOUS
<1>3. PICK x : x = EvaluatorResult(u, v, "code")
  OBVIOUS
<1>4. results' = Append(results, x)
  BY <1>1, <1>2, <1>3 DEF EvaluateByCode, Conclude
<1>5. v \in AnyVerdict
  BY <1>2, VerdictType
     DEF ByCode, RootCauseByCode, Scored, Undetermined, NotApplicable, Unscored, AnyVerdict,
         Verdicts
<1>6. u.evaluator = "grounding" => v.state # "SCORED"
  BY <1>2 DEF ByCode, Undetermined, Unscored
<1>7. u.evaluator = "root_cause" => v.label # "CORRECT"
  BY <1>2 DEF ByCode, RootCauseByCode, Scored, Undetermined, NotApplicable, Unscored
<1>8. x \in ResultRecord /\ Attributed(x)
  BY <1>3, <1>5, <1>6, <1>7
     DEF EvaluatorResult, ResultRecord, AnyVerdict, UnitRecord, Attributed
<1> QED
  BY <1>4, <1>8, ConcludedResults

\* A requirement that is met is met by one of the results.
LEMMA MetByResult ==
  ASSUME NEW res \in Seq(ResultRecord), NEW need, Meets(res, need)
  PROVE  \E x \in ToSet(res) : /\ x.evaluator = need.evaluator
                               /\ x.state = "SCORED" /\ x.label = need.label
<1> DEFINE T == {x \in ToSet(res) : x.evaluator = need.evaluator}
<1>1. PICK matches : matches = VerdictOf(res, need.evaluator)
  OBVIOUS
<1>2. matches \in Seq(ResultRecord \cap T)
  BY <1>1, SelectedType DEF VerdictOf
<1>3. Len(matches) = 1 /\ matches[1].state = "SCORED" /\ matches[1].label = need.label
  BY <1>1 DEF Meets, Determined
<1>4. matches[1] \in T
  <2>1. PICK U : U = ResultRecord \cap T
    OBVIOUS
  <2>2. matches \in Seq(U) /\ Len(matches) = 1
    BY <1>2, <1>3, <2>1
  <2>3. matches[1] \in U
    BY <2>2
  <2> QED
    BY <2>1, <2>3
<1> QED
  BY <1>3, <1>4

LEMMA RequirementsMet ==
  ASSUME NEW c, NEW res, Unmet(c, res) = <<>>
  PROVE  /\ Meets(res, [evaluator |-> "grounding", label |-> "GROUNDED"])
         /\ c.kind = "bug" => Meets(res, [evaluator |-> "root_cause", label |-> "CORRECT"])
<1> DEFINE g == [evaluator |-> "grounding", label |-> "GROUNDED"]
           b == [evaluator |-> "root_cause", label |-> "CORRECT"]
           S == {g, b}
           s == Required(c)
<1>1. /\ s \in Seq(S) /\ Len(s) >= 1 /\ s[1] = g
      /\ c.kind = "bug" => Len(s) >= 2 /\ s[2] = b
  <2>1. CASE c.kind = "bug"
    <3>1. s = <<g, b>>
      BY <2>1, JoinedPair DEF Required
    <3> HIDE DEF s, g, b
    <3> QED
      BY <3>1
  <2>2. CASE c.kind # "bug"
    <3>1. s = <<g>> \o <<>>
      BY <2>2 DEF Required
    <3> HIDE DEF s, g, b
    <3>2. <<g>> \o <<>> = <<g>>
      OBVIOUS
    <3> QED
      BY <2>2, <3>1, <3>2
  <2> QED
    BY <2>1, <2>2
<1> DEFINE T == {need \in ToSet(s) : ~Meets(res, need)}
<1>2. Selected(s, T) = <<>>
  BY DEF Unmet
<1> HIDE DEF S, T
<1>3. ASSUME NEW i \in 1..Len(s) PROVE Meets(res, s[i])
  <2>1. s[i] \notin T
    BY <1>1, <1>2, SelectedNone
  <2>2. s[i] \in ToSet(s)
    BY <1>1 DEF ToSet
  <2> QED
    BY <2>1, <2>2 DEF T
<1> HIDE DEF s, g, b
<1>4. Len(s) \in Nat
  BY <1>1
<1>5. Meets(res, g)
  BY <1>1, <1>3, <1>4
<1>6. c.kind = "bug" => Meets(res, b)
  BY <1>1, <1>3, <1>4
<1> QED
  BY <1>5, <1>6 DEF g, b

\* What an eligible run has to show for itself.
LEMMA EligibleApproved ==
  ASSUME ResultsInv, AssessSuccess(case, run, results).eligible
  PROVE  /\ HasDiagnosis(run) /\ run.diagnosis.status = case.expected
         /\ Approved("grounding", "GROUNDED")
         /\ case.kind = "bug" => Approved("root_cause", "CORRECT")
<1>1. /\ HasDiagnosis(run) /\ run.diagnosis.status = case.expected
      /\ Unmet(case, results) = <<>>
  <2>1. ASSUME NEW reason PROVE ~Ineligible(reason).eligible
    BY DEF Ineligible
  <2> QED
    BY <2>1 DEF AssessSuccess, Shortfall
<1>2. results \in Seq(ResultRecord)
  BY DEF ResultsInv
<1>3. Approved("grounding", "GROUNDED")
  <2>1. PICK x \in ToSet(results) : /\ x.evaluator = "grounding"
                                    /\ x.state = "SCORED" /\ x.label = "GROUNDED"
    BY <1>1, <1>2, RequirementsMet, MetByResult
  <2> QED
    BY <2>1 DEF ResultsInv, Attributed, Approved
<1>4. ASSUME case.kind = "bug" PROVE Approved("root_cause", "CORRECT")
  <2>1. PICK x \in ToSet(results) : /\ x.evaluator = "root_cause"
                                    /\ x.state = "SCORED" /\ x.label = "CORRECT"
    BY <1>1, <1>2, <1>4, RequirementsMet, MetByResult
  <2> QED
    BY <2>1 DEF ResultsInv, Attributed, Approved
<1> QED
  BY <1>1, <1>3, <1>4

-----------------------------------------------------------------------------
(* Where a diagnosis comes from *)

\* A diagnosis that names no limit is the provider's own or stands for its failure.
Origin ==
  pc = "returned" /\ diagnosis.status # "LIMIT_REACHED" =>
    \/ Last(run.decisions).decision = FinalAnswer
    \/ diagnosis.status = "INCONCLUSIVE" /\ run.errors # <<>>

LEMMA FinalAnswerOrigin ==
  ASSUME BudgetInv, RecorderInv, pc = "deciding",
         run' = Apply(Apply(run, DecisionReturned(FinalAnswer)), Finish)
  PROVE  Last(run'.decisions).decision = FinalAnswer
<1>1. PICK h, m, d : h = DecisionReturned(d) /\ d = FinalAnswer /\ m = Apply(run, h)
  OBVIOUS
<1>2. h.hook = "decision_returned" /\ h.decision = d
  BY <1>1 DEF DecisionReturned
<1>3. m = OnDecisionReturned(run, h)
  BY <1>1, <1>2, ApplyCases
<1>4. PICK n \in Nat : n = Len(run.decisions) /\ n > 0 /\ run.decisions \in Seq(DecisionRecord)
  BY ShapeFacts DEF RecorderInv, Sound, Shape
<1>5. Shape(run)
  BY DEF RecorderInv, Sound
<1>6. m.decisions = [run.decisions EXCEPT ![n].decision = d]
  BY <1>2, <1>3, <1>4, <1>5 DEF OnDecisionReturned, Shape
<1>7. Len(m.decisions) = n /\ m.decisions[n].decision = d
  BY <1>4, <1>6 DEF DecisionRecord
<1>8. PICK f, s : f = Finish /\ s = run' /\ s = Apply(m, f)
  BY <1>1
<1>9. f.hook = "finish"
  BY <1>8 DEF Finish
<1>10. s = OnFinish(m, f)
  BY <1>8, <1>9, ApplyCases
<1>11. s.decisions = m.decisions
  <2>1. Shape(m)
    BY <1>1, DecisionTaken DEF Sound
  <2> QED
    BY <1>10, <2>1 DEF OnFinish, Sync, Shape
<1> QED
  BY <1>1, <1>7, <1>8, <1>11 DEF Last

LEMMA ProviderFailureOrigin ==
  ASSUME BudgetInv, RecorderInv, pc = "deciding",
         NEW scope, NEW type, scope = "decision", type \in ErrorTypes,
         run' = Apply(Apply(run, Error(scope, type)), Finish)
  PROVE  run'.errors # <<>>
<1>1. PICK h, m : h = Error(scope, type) /\ m = Apply(run, h)
  OBVIOUS
<1>2. h.hook = "error" /\ h.scope = scope /\ h.error_type = type
  BY <1>1, ErrorHook
<1>3. m = OnError(run, scope, type)
  BY <1>1, <1>2, ApplyCases
<1>4. Shape(run) /\ Shape(m)
  <2>1. Sound(m, CallsMade, 0)
    BY <1>1, <1>2, DecisionFails
  <2> QED
    BY <2>1 DEF RecorderInv, Sound
<1>5. \E e : m.errors = Append(run.errors, e)
  BY <1>3, <1>4 DEF OnError, Shape
<1>6. Len(m.errors) > 0
  <2>1. run.errors \in Seq(ErrorRecord)
    BY <1>4 DEF Shape
  <2> QED
    BY <1>5, <2>1
<1>7. PICK f, s : f = Finish /\ s = run' /\ s = Apply(m, f)
  BY <1>1
<1>8. f.hook = "finish"
  BY <1>7 DEF Finish
<1>9. s = OnFinish(m, f)
  BY <1>7, <1>8, ApplyCases
<1>10. s.errors = m.errors
  BY <1>4, <1>9 DEF OnFinish, Sync, Shape
<1> QED
  BY <1>6, <1>7, <1>10

\* The session that is over stays as it is.
LEMMA EndedRests ==
  ASSUME Ended, [ENext]_evars
  PROVE  UNCHANGED <<vars, run>>
<1>1. ASSUME RNext, run' = Recorded(run, hooks') PROVE UNCHANGED <<vars, run>>
  <2>1. Hooked(Rest, <<>>)
    BY <1>1 DEF RNext, RLocal, RProviderAnswers, RToolReturns, RRaise, RInterrupt, Hooked,
         Ended, StartDecision, ReachDecisionLimit, ResumeTimedOut, ResumeCancelled, Suspended,
         AcceptFinalAnswer, ProviderFails, RejectRequest, RefuseOverBudget, RefuseIdentical,
         Refuse, Dispatch, DecisionArrives, RecordResult, RetryTimeout, ToolAnswers,
         RaiseTimeoutError, RaiseException, TimerFires, Cancel
  <2> QED
    BY <1>1, <2>1, RecordedAfter DEF Hooked, Rest
<1>2. CASE UNCHANGED evars
  BY <1>2 DEF evars, rvars
<1> QED
  BY <1>1, <1>2 DEF ENext

LEMMA OriginStep ==
  ASSUME BudgetInv, RecorderInv, [ENext]_evars, Origin
  PROVE  Origin'
<1>1. CASE Ended
  <2>1. pc' = pc /\ diagnosis' = diagnosis /\ run' = run
    BY <1>1, EndedRests DEF vars
  <2> QED
    BY <2>1 DEF Origin
<1>2. CASE pc' # "returned"
  BY <1>2 DEF Origin
<1>3. CASE ~Ended /\ pc' = "returned"
  <2>1. RNext /\ run' = Recorded(run, hooks')
    BY <1>3 DEF ENext, evars, rvars, vars, Ended
  <2>2. \/ \E answer \in Answers :
             Hooked(AcceptFinalAnswer(answer), <<DecisionReturned(FinalAnswer), Finish>>)
        \/ Hooked(ProviderFails, <<Error("decision", "PROVIDER_ERROR"), Finish>>)
        \/ ReachDecisionLimit \/ ResumeTimedOut \/ RaiseTimeoutError
    BY <1>3, <2>1 DEF RNext, RLocal, RProviderAnswers, RToolReturns, RRaise, RInterrupt,
         Hooked, Ended, Rest, StartDecision, ResumeCancelled, RejectRequest,
         RefuseOverBudget, RefuseIdentical, Refuse, Dispatch, RecordResult, RetryTimeout,
         ToolAnswers, RaiseException, TimerFires, Cancel
  <2>3. ASSUME NEW answer \in Answers,
               Hooked(AcceptFinalAnswer(answer), <<DecisionReturned(FinalAnswer), Finish>>)
        PROVE  Origin'
    <3>1. run' = Apply(Apply(run, DecisionReturned(FinalAnswer)), Finish)
      BY <2>1, <2>3, RecordedAfter DEF Hooked
    <3>2. pc = "deciding"
      BY <2>3 DEF Hooked, AcceptFinalAnswer, DecisionArrives
    <3>3. Last(run'.decisions).decision = FinalAnswer
      BY <3>1, <3>2, FinalAnswerOrigin
    <3> QED
      BY <3>3 DEF Origin
  <2>4. CASE Hooked(ProviderFails, <<Error("decision", "PROVIDER_ERROR"), Finish>>)
    <3>1. PICK scope, type : scope = "decision" /\ type = "PROVIDER_ERROR"
      OBVIOUS
    <3>2. type \in ErrorTypes
      BY <3>1 DEF ErrorTypes, Outcomes
    <3>3. hooks' = <<Error(scope, type), Finish>>
      BY <2>4, <3>1 DEF Hooked
    <3>4. run' = Apply(Apply(run, Error(scope, type)), Finish)
      BY <2>1, <3>3, RecordedAfter
    <3>5. pc = "deciding" /\ diagnosis'.status = "INCONCLUSIVE"
      BY <2>4 DEF Hooked, ProviderFails, DecisionArrives, Return
    <3>6. run'.errors # <<>>
      BY <3>1, <3>2, <3>4, <3>5, ProviderFailureOrigin
    <3> QED
      BY <3>5, <3>6 DEF Origin
  <2>5. CASE ReachDecisionLimit \/ ResumeTimedOut \/ RaiseTimeoutError
    <3>1. diagnosis'.status = "LIMIT_REACHED"
      BY <2>5 DEF ReachDecisionLimit, ResumeTimedOut, RaiseTimeoutError, ReturnTimedOut,
           Return, LimitReached
    <3> QED
      BY <3>1 DEF Origin
  <2> QED
    BY <2>2, <2>3, <2>4, <2>5
<1> QED
  BY <1>1, <1>2, <1>3

\* The inductive invariant: it takes the loop's limits, the recorder's record, the origin of
\* the diagnosis and that of the results together.
EarnedInv ==
  /\ LimitsInv /\ RecorderInv /\ Origin /\ ResultsInv
  /\ case \in Cases
  /\ bundle.closed => run.finished
  /\ SuccessesEarned

LEMMA EarnedInit ==
  ASSUME VInit
  PROVE  EarnedInv
<1>1. BudgetInv /\ RecorderInv
  BY RecorderInit DEF VInit
<1>2. LimitsInv
  BY <1>1, LimitsInit DEF VInit, EInit, RInit
<1>3. pc = "loop" /\ results = <<>> /\ case \in Cases
  BY DEF VInit, EInit, RInit, Init
<1>4. ~bundle.closed
  BY DEF VInit, NoBundle
<1>5. ResultsInv
  BY <1>3 DEF ResultsInv, ToSet
<1> QED
  BY <1>1, <1>2, <1>3, <1>4, <1>5 DEF EarnedInv, Origin, SuccessesEarned

\* A further result takes nothing away from what was approved.
LEMMA StillEarned ==
  ASSUME EarnedInv, UNCHANGED <<evars, case, bundle>>, ResultsInv',
         ToSet(results) \subseteq ToSet(results')
  PROVE  EarnedInv'
<1>1. LimitsInv' /\ RecorderInv' /\ Origin'
  <2>1. LimitsInv'
    BY LimitsStep DEF EarnedInv, evars, rvars
  <2>2. BudgetInv
    BY DEF EarnedInv, LimitsInv
  <2>3. RecorderInv' /\ Origin'
    BY <2>2, RecorderStep, OriginStep DEF EarnedInv
  <2> QED
    BY <2>1, <2>3
<1>2. ASSUME NEW e, NEW l, Approved(e, l) PROVE Approved(e, l)'
  BY <1>2 DEF Approved
<1>3. SuccessesEarned'
  <2>1. UNCHANGED <<pc, diagnosis, run, case, bundle>>
    BY DEF evars, rvars, vars
  <2> QED
    BY <1>2, <2>1 DEF EarnedInv, SuccessesEarned
<1> QED
  BY <1>1, <1>3 DEF EarnedInv, evars

LEMMA SessionEarns ==
  ASSUME EarnedInv, SessionStep
  PROVE  EarnedInv'
<1>1. ENext /\ UNCHANGED <<case, results, bundle>>
  BY DEF SessionStep, pvars
<1>2. LimitsInv' /\ RecorderInv' /\ Origin'
  <2>1. LimitsInv'
    BY <1>1, RecordedStep, LimitsStep DEF EarnedInv, ENext
  <2>2. BudgetInv
    BY DEF EarnedInv, LimitsInv
  <2>3. RecorderInv' /\ Origin'
    BY <1>1, <2>2, RecorderStep, OriginStep DEF EarnedInv
  <2> QED
    BY <2>1, <2>3
<1>3. ResultsInv' /\ case' \in Cases
  BY <1>1 DEF EarnedInv, ResultsInv
<1>4. ASSUME bundle'.closed
      PROVE  run'.finished /\ SuccessesEarned'
  <2>1. bundle.closed /\ run.finished
    BY <1>1, <1>4 DEF EarnedInv
  <2>2. Ended
    BY <2>1 DEF EarnedInv, RecorderInv
  <2>3. UNCHANGED <<pc, diagnosis, run, case, bundle, results>>
    BY <1>1, <2>2, EndedRests DEF vars
  <2> QED
    BY <2>1, <2>3 DEF EarnedInv, SuccessesEarned, Approved
<1> QED
  BY <1>1, <1>2, <1>3, <1>4 DEF EarnedInv, SuccessesEarned

\* The bundle is closed on what the session and the results say then.
LEMMA ClosingEarns ==
  ASSUME EarnedInv, CloseBundle
  PROVE  EarnedInv'
<1>1. UNCHANGED <<evars, case, results>> /\ run.finished
      /\ bundle'.eligibility = AssessSuccess(case, run, results)
  BY DEF CloseBundle
<1>2. LimitsInv' /\ RecorderInv' /\ Origin'
  <2>1. LimitsInv'
    BY <1>1, LimitsStep DEF EarnedInv, evars, rvars
  <2>2. BudgetInv
    BY DEF EarnedInv, LimitsInv
  <2>3. RecorderInv' /\ Origin'
    BY <1>1, <2>2, RecorderStep, OriginStep DEF EarnedInv
  <2> QED
    BY <2>1, <2>3
<1>3. ResultsInv' /\ case' \in Cases /\ run'.finished
  BY <1>1 DEF EarnedInv, ResultsInv, evars
<1>4. ASSUME bundle'.eligibility.eligible
      PROVE  SuccessesEarned'
  <2>1. AssessSuccess(case, run, results).eligible
    BY <1>1, <1>4
  <2>2. /\ HasDiagnosis(run) /\ run.diagnosis.status = case.expected
        /\ Approved("grounding", "GROUNDED")
        /\ case.kind = "bug" => Approved("root_cause", "CORRECT")
    BY <2>1, EligibleApproved DEF EarnedInv
  <2>3. run.diagnosis = diagnosis
    BY <1>1 DEF EarnedInv, RecorderInv
  <2>4. pc = "returned"
    BY <2>2, <2>3 DEF EarnedInv, LimitsInv, LimitsReportedFaithfully, HasDiagnosis
  <2>5. diagnosis.status # "LIMIT_REACHED"
    BY <2>2, <2>3, CasesAssumption DEF EarnedInv, CaseType
  <2>6. \/ Last(run.decisions).decision = FinalAnswer
        \/ diagnosis.status = "INCONCLUSIVE" /\ run.errors # <<>>
    BY <2>4, <2>5 DEF EarnedInv, Origin
  <2>7. UNCHANGED <<pc, diagnosis, run, case, results>>
    BY <1>1 DEF evars, rvars, vars
  <2> QED
    BY <2>2, <2>3, <2>4, <2>6, <2>7 DEF SuccessesEarned, Approved
<1> QED
  BY <1>2, <1>3, <1>4 DEF EarnedInv, SuccessesEarned

LEMMA EarnedStep ==
  ASSUME EarnedInv, [VNext]_allvars
  PROVE  EarnedInv'
<1>0. Shape(run) /\ ResultsInv
  BY DEF EarnedInv, RecorderInv, Sound
<1>1. CASE SessionStep
  BY <1>1, SessionEarns
<1>2. CASE EvaluateByCode
  <2>1. /\ ResultsInv' /\ ToSet(results) \subseteq ToSet(results')
        /\ UNCHANGED <<evars, case, bundle>>
    BY <1>0, <1>2, CodeConcludes DEF EvaluateByCode, Conclude
  <2> QED
    BY <1>2, <2>1, StillEarned
<1>3. ASSUME NEW v \in AnyVerdict, Evaluating, Conclude("judge", v) PROVE EarnedInv'
  <2>1. /\ UNCHANGED <<evars, case, bundle>>
        /\ results' = Append(results, EvaluatorResult(ThisUnit, v, "judge"))
    BY <1>3 DEF Conclude
  <2>2. ResultsInv' /\ ToSet(results) \subseteq ToSet(results')
    BY <1>0, <1>3, <2>1, JudgeConcludes
  <2> QED
    BY <2>1, <2>2, StillEarned
<1>4. CASE InputTooLarge \/ JudgeFails
  <2>1. Unscored("ERROR") \in AnyVerdict
    BY DEF Unscored, AnyVerdict
  <2> QED
    BY <1>3, <1>4, <2>1 DEF InputTooLarge, JudgeFails, Judging
<1>5. ASSUME Judging, NEW label \in Labels(ThisUnit), NEW cited, JudgeAnswers(label, cited)
      PROVE  EarnedInv'
  <2>1. Scored(label) \in AnyVerdict /\ Unscored("ERROR") \in AnyVerdict
    BY DEF Scored, Unscored, AnyVerdict, Labels
  <2> QED
    BY <1>3, <1>5, <2>1 DEF JudgeAnswers, Judging
<1>6. CASE AskJudge \/ CorrectJudge
  BY <1>0, <1>6, StillEarned DEF AskJudge, CorrectJudge, SendRequest, ResultsInv
<1>7. CASE CloseBundle
  BY <1>7, ClosingEarns
<1>8. CASE UNCHANGED allvars
  BY <1>0, <1>8, StillEarned DEF allvars, pvars, ResultsInv
<1> QED
  BY <1>1, <1>2, <1>4, <1>5, <1>6, <1>7, <1>8 DEF VNext

\* Whatever the session and the judge do, a run that counts as a success has an answer of
\* its own, or a failed provider's, of the status the case expects, and the judge's word
\* for its grounding and, if there is a bug, for its cause.
THEOREM SuccessesAreEarned == VSpec => []SuccessesEarned
<1>1. VInit => EarnedInv
  BY EarnedInit
<1>2. EarnedInv /\ [VNext]_allvars => EarnedInv'
  BY EarnedStep
<1>3. EarnedInv => SuccessesEarned
  BY DEF EarnedInv
<1> QED
  BY <1>1, <1>2, <1>3, PTL DEF VSpec

-----------------------------------------------------------------------------
(* The observed path *)

DecisionSteps == {s \in PathStep : s.kind = "decision"}
ToolSteps == {s \in PathStep : s.kind = "tool"}

\* These are m steps of one kind on from low.
AreSteps(g, kind, low, m) ==
  /\ g \in Seq(PathStep)
  /\ Len(g) = m
  /\ \A j \in 1..m : g[j] = [kind |-> kind, reference |-> low + j]

\* The attempts of the first k decisions are the first a.
Reached(r, k, a) ==
  /\ a \in 0..Len(r.tool_attempts)
  /\ \A n \in 1..Len(r.tool_attempts) : r.tool_attempts[n].decision <= k <=> n <= a

\* A path that tells the first k decisions and the first a attempts.
PathTells(p, k, a) ==
  /\ p \in Seq(PathStep)
  /\ Len(p) = k + a
  /\ AreSteps(Selected(p, DecisionSteps), "decision", 0, k)
  /\ AreSteps(Selected(p, ToolSteps), "tool", 0, a)

\* Attempts come in the order of their decisions.
InOrder(r) ==
  /\ Len(r.tool_attempts) \in Nat
  /\ \A n \in 1..Len(r.tool_attempts) : r.tool_attempts[n].decision \in Nat
  /\ \A i, j \in 1..Len(r.tool_attempts) :
       i < j => r.tool_attempts[i].decision <= r.tool_attempts[j].decision

LEMMA ReachedExists ==
  ASSUME NEW r, InOrder(r), NEW k \in Nat
  PROVE  \E a : Reached(r, k, a)
<1>1. PICK n \in Nat : n = Len(r.tool_attempts)
  BY DEF InOrder
<1> DEFINE Later == {i \in 1..n : r.tool_attempts[i].decision > k}
<1>2. CASE Later = {}
  <2>1. Reached(r, k, n)
    BY <1>1, <1>2 DEF Reached, InOrder
  <2> QED
    BY <2>1
<1>3. CASE Later # {}
  <2>1. Later \in SUBSET Nat
    OBVIOUS
  <2>2. PICK i \in Later : \A j \in Later : i <= j
    <3> HIDE DEF Later
    <3> QED
      BY <1>3, <2>1, Least
  <2>3. i \in 1..n /\ r.tool_attempts[i].decision > k
    BY <2>2
  <2>4. i - 1 \in 0..n
    BY <2>3
  <2>5. ASSUME NEW m \in 1..n
        PROVE  r.tool_attempts[m].decision <= k <=> m <= i - 1
    <3>1. r.tool_attempts[m].decision \in Nat /\ r.tool_attempts[i].decision \in Nat
      BY <1>1, <2>3 DEF InOrder
    <3>2. CASE m < i
      <4>1. m \notin Later
        BY <2>2, <2>3, <3>2
      <4> QED
        BY <2>3, <3>1, <3>2, <4>1
    <3>3. CASE m = i
      BY <2>3, <3>1, <3>3
    <3>4. CASE i < m
      <4>1. r.tool_attempts[i].decision <= r.tool_attempts[m].decision
        BY <1>1, <2>3, <3>4 DEF InOrder
      <4> QED
        BY <2>3, <3>1, <3>4, <4>1
    <3> QED
      BY <2>3, <3>2, <3>3, <3>4
  <2>6. Reached(r, k, i - 1)
    BY <1>1, <2>4, <2>5 DEF Reached
  <2> QED
    BY <2>6
<1> QED
  BY <1>2, <1>3

\* The attempts of the next decision are the next ones.
LEMMA NextAttempts ==
  ASSUME NEW r, InOrder(r), r.tool_attempts \in Seq(Attempt), NEW k \in Nat,
         NEW a, NEW b, Reached(r, k, a), Reached(r, k + 1, b)
  PROVE  /\ a \in Nat /\ b \in Nat /\ a <= b
         /\ Counts(AttemptsOf(r, k + 1), a, b - a)
<1>1. PICK n \in Nat : n = Len(r.tool_attempts)
  BY DEF InOrder
<1>2. a \in 0..n /\ b \in 0..n /\ DOMAIN r.tool_attempts = 1..n
  BY <1>1 DEF Reached
<1>3. \A i \in 1..n : r.tool_attempts[i].decision \in Nat
  BY <1>1 DEF InOrder
<1>4. a <= b
  <2> SUFFICES ASSUME a > b PROVE FALSE
    BY <1>2
  <2>1. a \in 1..n /\ ~(a <= b)
    BY <1>2
  <2>2. r.tool_attempts[a].decision <= k /\ ~(r.tool_attempts[a].decision <= k + 1)
    BY <1>1, <1>2, <2>1 DEF Reached
  <2> QED
    BY <1>3, <2>1, <2>2
<1>5. PICK T : T = {i \in 1..n : r.tool_attempts[i].decision = k + 1}
  OBVIOUS
<1>6. ASSUME NEW i \in 1..n PROVE i \in T <=> a < i /\ i <= b
  <2>1. /\ r.tool_attempts[i].decision <= k <=> i <= a
        /\ r.tool_attempts[i].decision <= k + 1 <=> i <= b
    BY <1>1 DEF Reached
  <2> QED
    BY <1>2, <1>3, <1>5, <2>1
<1>7. PICK s : s = [i \in 1..n |-> i]
  OBVIOUS
<1>8. AttemptsOf(r, k + 1) = Selected(s, T)
  BY <1>2, <1>5, <1>7 DEF AttemptsOf
<1>9. Counts(Selected(s, T), a, b - a)
  <2>1. a \in Nat /\ b \in Nat /\ b <= n
    BY <1>2
  <2>2. \A i \in 1..n : i \in T <=> a < i /\ i <= b
    BY <1>6
  <2> QED
    BY <1>4, <1>7, <2>1, <2>2, SelectedRange
<1> QED
  BY <1>2, <1>4, <1>8, <1>9

LEMMA StepsJoined ==
  ASSUME NEW g, NEW h, NEW kind, NEW low \in Nat, NEW m \in Nat, NEW n \in Nat,
         AreSteps(g, kind, low, m), AreSteps(h, kind, low + m, n)
  PROVE  AreSteps(Joined(g, h), kind, low, m + n)
<1>1. PICK t : t = Joined(g, h)
  OBVIOUS
<1>2. /\ g \in Seq(PathStep) /\ Len(g) = m
      /\ h \in Seq(PathStep) /\ Len(h) = n
  BY DEF AreSteps
<1>3. /\ t \in Seq(PathStep) /\ Len(t) = m + n
      /\ \A j \in 1..m : t[j] = g[j]
      /\ \A i \in 1..n : t[m + i] = h[i]
  <2>1. t \in Seq(PathStep) /\ Len(t) = m + n
    BY <1>1, <1>2, JoinedType, JoinedLength
  <2>2. \A j \in 1..Len(g) : t[j] = g[j]
    BY <1>1, <1>2, JoinedFirst
  <2>3. ASSUME NEW i \in 1..n PROVE t[m + i] = h[i]
    <3>1. t = g \o h
      BY <1>1 DEF Joined
    <3>2. i \in 1..Len(h) /\ t[Len(g) + i] = h[i]
      BY <1>2, <3>1
    <3> QED
      BY <1>2, <3>2
  <2> QED
    BY <1>2, <2>1, <2>2, <2>3
<1>4. ASSUME NEW j \in 1..(m + n) PROVE t[j] = [kind |-> kind, reference |-> low + j]
  <2>1. CASE j <= m
    BY <1>3, <2>1 DEF AreSteps
  <2>2. CASE j > m
    <3>1. PICK i \in 1..n : j = m + i
      <4>1. j - m \in 1..n /\ j = m + (j - m)
        BY <2>2
      <4> QED
        BY <4>1
    <3>2. t[j] = h[i]
      BY <1>3, <2>2, <3>1
    <3>3. h[i] = [kind |-> kind, reference |-> low + m + i]
      BY DEF AreSteps
    <3>4. low + m + i = low + j
      BY <3>1
    <3> QED
      BY <3>2, <3>3, <3>4
  <2> QED
    BY <2>1, <2>2
<1> QED
  BY <1>1, <1>3, <1>4 DEF AreSteps

\* Steps of one kind are all there is of that kind, and nothing of the other.
LEMMA StepsOfOneKind ==
  ASSUME NEW g, NEW low \in Nat, NEW m \in Nat
  PROVE  /\ AreSteps(g, "decision", low, m) =>
              Selected(g, DecisionSteps) = g /\ Selected(g, ToolSteps) = <<>>
         /\ AreSteps(g, "tool", low, m) =>
              Selected(g, ToolSteps) = g /\ Selected(g, DecisionSteps) = <<>>
<1>1. ASSUME AreSteps(g, "decision", low, m)
      PROVE  Selected(g, DecisionSteps) = g /\ Selected(g, ToolSteps) = <<>>
  <2>1. g \in Seq(PathStep) /\ Len(g) = m
    BY <1>1 DEF AreSteps
  <2>2. \A j \in 1..Len(g) : g[j].kind = "decision" /\ g[j] \in PathStep
    BY <1>1, <2>1 DEF AreSteps
  <2>3. /\ \A j \in 1..Len(g) : g[j] \in DecisionSteps
        /\ \A j \in 1..Len(g) : g[j] \notin ToolSteps
    BY <2>2 DEF DecisionSteps, ToolSteps
  <2> QED
    BY <2>1, <2>3, SelectedAll, SelectedOutside
<1>2. ASSUME AreSteps(g, "tool", low, m)
      PROVE  Selected(g, ToolSteps) = g /\ Selected(g, DecisionSteps) = <<>>
  <2>1. g \in Seq(PathStep) /\ Len(g) = m
    BY <1>2 DEF AreSteps
  <2>2. \A j \in 1..Len(g) : g[j].kind = "tool" /\ g[j] \in PathStep
    BY <1>2, <2>1 DEF AreSteps
  <2>3. /\ \A j \in 1..Len(g) : g[j] \in ToolSteps
        /\ \A j \in 1..Len(g) : g[j] \notin DecisionSteps
    BY <2>2 DEF DecisionSteps, ToolSteps
  <2> QED
    BY <2>1, <2>3, SelectedAll, SelectedOutside
<1> QED
  BY <1>1, <1>2

\* A path goes on with a decision and its attempts.
LEMMA ToldFurther ==
  ASSUME NEW k \in Nat, NEW a \in Nat, NEW b \in Nat, a <= b,
         NEW p, PathTells(p, k, a),
         NEW d, AreSteps(d, "decision", k, 1), NEW u, AreSteps(u, "tool", a, b - a),
         NEW q, q = Joined(p, Joined(d, u))
  PROVE  PathTells(q, k + 1, b)
<1>1. PICK n \in Nat : n = b - a
  OBVIOUS
<1>2. p \in Seq(PathStep) /\ d \in Seq(PathStep) /\ u \in Seq(PathStep)
  BY DEF PathTells, AreSteps
<1>3. Len(p) = k + a /\ Len(d) = 1 /\ Len(u) = n
  BY <1>1 DEF PathTells, AreSteps
<1>4. PICK e : e = Joined(d, u)
  OBVIOUS
<1>5. e \in Seq(PathStep) /\ Len(e) = 1 + n
  BY <1>2, <1>3, <1>4, JoinedType, JoinedLength
<1>6. q \in Seq(PathStep) /\ Len(q) = (k + 1) + b
  <2>1. q \in Seq(PathStep) /\ Len(q) = (k + a) + (1 + n)
    BY <1>2, <1>3, <1>4, <1>5, JoinedType, JoinedLength
  <2> QED
    BY <1>1, <2>1
<1>7. ASSUME NEW T PROVE Selected(q, T) = Joined(Selected(p, T), Selected(e, T))
  BY <1>2, <1>4, <1>5, SelectedJoin
<1>8. ASSUME NEW T PROVE Selected(e, T) = Joined(Selected(d, T), Selected(u, T))
  BY <1>2, <1>4, SelectedJoin
<1>9. /\ Selected(d, DecisionSteps) = d /\ Selected(d, ToolSteps) = <<>>
  BY StepsOfOneKind
<1>10. /\ Selected(u, ToolSteps) = u /\ Selected(u, DecisionSteps) = <<>>
  BY <1>1, StepsOfOneKind
<1>11. Joined(d, <<>>) = d /\ Joined(<<>>, u) = u
  BY <1>2 DEF Joined
<1>12. Selected(e, DecisionSteps) = d /\ Selected(e, ToolSteps) = u
  BY <1>8, <1>9, <1>10, <1>11
<1>13. AreSteps(Selected(q, DecisionSteps), "decision", 0, k + 1)
  <2>1. PICK g, kind : g = Selected(p, DecisionSteps) /\ kind = "decision"
    OBVIOUS
  <2>2. AreSteps(g, kind, 0, k) /\ AreSteps(d, kind, 0 + k, 1)
    BY <2>1 DEF PathTells
  <2>3. AreSteps(Joined(g, d), kind, 0, k + 1)
    BY <2>2, StepsJoined
  <2> QED
    BY <1>7, <1>12, <2>1, <2>3
<1>14. AreSteps(Selected(q, ToolSteps), "tool", 0, b)
  <2>1. PICK g, kind : g = Selected(p, ToolSteps) /\ kind = "tool"
    OBVIOUS
  <2>2. AreSteps(g, kind, 0, a) /\ AreSteps(u, kind, 0 + a, n)
    BY <1>1, <2>1 DEF PathTells
  <2>3. AreSteps(Joined(g, u), kind, 0, a + n)
    BY <2>2, StepsJoined
  <2>4. a + n = b
    BY <1>1
  <2> QED
    BY <1>7, <1>12, <2>1, <2>3, <2>4
<1> QED
  BY <1>6, <1>13, <1>14 DEF PathTells

\* What the path says of one decision.
Stretch(r, i) ==
  <<[kind |-> "decision", reference |-> i]>>
    \o [n \in DOMAIN AttemptsOf(r, i) |->
          [kind |-> "tool", reference |-> AttemptsOf(r, i)[n]]]

\* It is the step of decision k + 1 and those of the attempts from a to b.
Stretches(r, k, a, b) ==
  \E d, u : /\ AreSteps(d, "decision", k, 1) /\ AreSteps(u, "tool", a, b - a)
            /\ Stretch(r, k + 1) = Joined(d, u)

LEMMA StretchSteps ==
  ASSUME NEW r, InOrder(r), r.tool_attempts \in Seq(Attempt), NEW k \in Nat,
         NEW a, NEW b, Reached(r, k, a), Reached(r, k + 1, b)
  PROVE  Stretches(r, k, a, b)
<1>1. PICK g : g = AttemptsOf(r, k + 1)
  OBVIOUS
<1>2. a \in Nat /\ b \in Nat /\ a <= b /\ Counts(g, a, b - a)
  BY <1>1, NextAttempts
<1>3. PICK m \in Nat : m = b - a
  BY <1>2
<1>4. g \in Seq(Nat) /\ Len(g) = m /\ \A j \in 1..m : g[j] = a + j
  BY <1>2, <1>3 DEF Counts
<1>5. PICK d, u : /\ d = <<[kind |-> "decision", reference |-> k + 1]>>
                  /\ u = [n \in DOMAIN g |-> [kind |-> "tool", reference |-> g[n]]]
  OBVIOUS
<1>6. AreSteps(d, "decision", k, 1)
  <2>1. PICK s : s = [kind |-> "decision", reference |-> k + 1]
    OBVIOUS
  <2>2. s \in PathStep /\ d = <<s>>
    BY <1>5, <2>1 DEF PathStep
  <2>3. d \in Seq(PathStep) /\ Len(d) = 1 /\ d[1] = s
    BY <2>2
  <2>4. \A j \in 1..1 : j = 1
    OBVIOUS
  <2> QED
    BY <2>1, <2>3, <2>4 DEF AreSteps
<1>7. AreSteps(u, "tool", a, m)
  <2>1. DOMAIN g = 1..m
    BY <1>4
  <2>2. ASSUME NEW j \in 1..m
        PROVE  /\ [kind |-> "tool", reference |-> g[j]] \in PathStep
               /\ u[j] = [kind |-> "tool", reference |-> a + j]
    BY <1>2, <1>4, <1>5, <2>1 DEF PathStep
  <2>3. u \in Seq(PathStep) /\ Len(u) = m
    <3>1. u = [j \in 1..m |-> u[j]]
      BY <1>5, <2>1
    <3>2. \A j \in 1..m : u[j] \in PathStep
      BY <1>4, <1>5, <2>1, <2>2
    <3> QED
      BY <3>1, <3>2
  <2> QED
    BY <2>2, <2>3 DEF AreSteps
<1>8. Stretch(r, k + 1) = Joined(d, u)
  BY <1>1, <1>5 DEF Stretch, Joined
<1> QED
  BY <1>3, <1>6, <1>7, <1>8 DEF Stretches

LEMMA NothingTold == PathTells(<<>>, 0, 0)
<1>1. PICK g : g = <<>>
  OBVIOUS
<1>2. g \in Seq(PathStep) /\ Len(g) = 0 /\ 1..0 = {}
  BY <1>1
<1>3. Selected(g, DecisionSteps) = g /\ Selected(g, ToolSteps) = g
  BY <1>1, SelectedEmpty
<1>4. AreSteps(g, "decision", 0, 0) /\ AreSteps(g, "tool", 0, 0)
  BY <1>2 DEF AreSteps
<1> QED
  BY <1>1, <1>2, <1>3, <1>4 DEF PathTells

\* The path tells every decision and every attempt, once and in order.
LEMMA PathTold ==
  ASSUME NEW r, InOrder(r), r.tool_attempts \in Seq(Attempt), Len(r.decisions) \in Nat,
         \A i \in 1..Len(r.tool_attempts) :
           r.tool_attempts[i].decision \in 1..Len(r.decisions)
  PROVE  PathTells(Path(r), Len(r.decisions), Len(r.tool_attempts))
<1>1. PICK n \in Nat, m \in Nat : n = Len(r.decisions) /\ m = Len(r.tool_attempts)
  BY DEF InOrder
<1>2. PICK seqs : seqs = [i \in 1..n |-> Stretch(r, i)]
  OBVIOUS
<1>3. Path(r) = FlattenSeq(seqs)
  BY <1>1, <1>2 DEF Path, Stretch
<1>4. Reached(r, 0, 0) /\ Reached(r, n, m)
  BY <1>1 DEF Reached
<1>5. Len(seqs) = n /\ \A i \in 1..n : seqs[i] = Stretch(r, i)
  BY <1>2
<1>6. CASE n = 0
  <2>1. m = 0
    BY <1>1, <1>6
  <2>2. FlattenSeq(seqs) = seqs
    BY <1>5, <1>6 DEF FlattenSeq
  <2>3. seqs = <<>>
    BY <1>2, <1>6
  <2> QED
    BY <1>1, <1>3, <1>6, <2>1, <2>2, <2>3, NothingTold
<1>7. CASE n # 0
  <2>1. PICK f : Flattens(f, seqs, n) /\ FlattenSeq(seqs) = f[n]
    <3>1. \E f : Flattens(f, seqs, n)
      BY FlatteningExists
    <3> QED
      BY <1>5, <1>7, <3>1 DEF FlattenSeq, Flattens
  <2>2. \A i \in 1..n : f[i] = IF i = 1 THEN seqs[i] ELSE f[i - 1] \o seqs[i]
    BY <2>1 DEF Flattens
  <2> DEFINE so(k) == IF k = 0 THEN <<>> ELSE f[k]
             N == {k \in Nat : k <= n =>
                     \A a : Reached(r, k, a) => PathTells(so(k), k, a)}
  <2>3. 0 \in N
    <3>1. ASSUME NEW a, Reached(r, 0, a) PROVE a = 0
      BY <1>1, <1>4, <3>1 DEF Reached
    <3> QED
      BY <3>1, NothingTold
  <2>4. ASSUME NEW k \in Nat, k \in N PROVE k + 1 \in N
    <3> SUFFICES ASSUME k + 1 <= n, NEW b, Reached(r, k + 1, b)
                 PROVE  PathTells(so(k + 1), k + 1, b)
      OBVIOUS
    <3>1. PICK a : Reached(r, k, a)
      BY ReachedExists
    <3>2. a \in Nat /\ b \in Nat /\ a <= b
      BY <3>1, NextAttempts
    <3>3. PICK d, u : /\ AreSteps(d, "decision", k, 1) /\ AreSteps(u, "tool", a, b - a)
                      /\ Stretch(r, k + 1) = Joined(d, u)
      <4>1. Stretches(r, k, a, b)
        BY <3>1, StretchSteps
      <4> QED
        BY <4>1 DEF Stretches
    <3>4. PICK p : p = so(k)
      OBVIOUS
    <3>5. PathTells(p, k, a)
      BY <2>4, <3>1, <3>4
    <3>6. so(k + 1) = Joined(p, Joined(d, u))
      <4>1. k + 1 \in 1..n /\ (k + 1) - 1 = k /\ k + 1 # 0
        OBVIOUS
      <4>2. seqs[k + 1] = Joined(d, u)
        BY <1>5, <3>3, <4>1
      <4>3. CASE k = 0
        <5>1. so(k + 1) = Joined(d, u) /\ p = <<>>
          BY <2>2, <3>4, <4>1, <4>2, <4>3
        <5>2. d \in Seq(PathStep) /\ u \in Seq(PathStep)
          BY <3>3 DEF AreSteps
        <5>3. PICK e : e = Joined(d, u)
          OBVIOUS
        <5>4. e \in Seq(PathStep)
          BY <5>2, <5>3, JoinedType
        <5>5. Joined(<<>>, e) = e
          BY <5>4 DEF Joined
        <5> QED
          BY <5>1, <5>3, <5>5
      <4>4. CASE k # 0
        <5>1. f[k + 1] = f[k] \o seqs[k + 1]
          <6>1. k + 1 \in 1..n /\ k + 1 # 1 /\ (k + 1) - 1 = k
            BY <4>1, <4>4
          <6> HIDE DEF so, N
          <6> QED
            BY <2>2, <6>1
        <5>2. so(k + 1) = f[k + 1] /\ p = f[k]
          BY <3>4, <4>1, <4>4
        <5>3. PICK e : e = Joined(d, u)
          OBVIOUS
        <5>4. so(k + 1) = p \o e
          BY <4>2, <5>1, <5>2, <5>3
        <5>5. Joined(p, e) = p \o e
          BY DEF Joined
        <5> QED
          BY <5>3, <5>4, <5>5
      <4> QED
        BY <4>3, <4>4
    <3> HIDE DEF so
    <3>7. PICK q : q = so(k + 1)
      OBVIOUS
    <3>8. PathTells(q, k + 1, b)
      BY <3>2, <3>3, <3>5, <3>6, <3>7, ToldFurther
    <3> QED
      BY <3>7, <3>8
  <2> HIDE DEF N
  <2>5. Nat \subseteq N
    BY <2>3, <2>4, NatInd
  <2>6. PathTells(so(n), n, m)
    BY <1>4, <2>5 DEF N
  <2> QED
    BY <1>1, <1>3, <1>7, <2>1, <2>6
<1> QED
  BY <1>6, <1>7

-----------------------------------------------------------------------------
(* The numbers of the verdict *)

Different(c, n) == {c[i] : i \in 1..n}
Repeated(c, n) == {j \in 1..n : \E m \in 1..(j - 1) : c[m] = c[j]}

\* Among n things there are as many repetitions as there are things beyond the
\* different ones.
LEMMA RepetitionsCounted ==
  ASSUME NEW n \in Nat, NEW c,
         NEW C, C = Different(c, n), NEW D, D = Repeated(c, n)
  PROVE  /\ Cardinality(C) \in Nat /\ Cardinality(D) \in Nat /\ IsFiniteSet(D)
         /\ Cardinality(D) = n - Cardinality(C)
<1> DEFINE Kinds(k) == {c[i] : i \in 1..k}
           Again(k) == {j \in 1..k : \E m \in 1..(j - 1) : c[m] = c[j]}
           N == {k \in Nat : /\ IsFiniteSet(Kinds(k)) /\ IsFiniteSet(Again(k))
                            /\ Cardinality(Kinds(k)) + Cardinality(Again(k)) = k}
<1>1. 0 \in N
  <2>1. Kinds(0) = {} /\ Again(0) = {}
    OBVIOUS
  <2> HIDE DEF Kinds, Again
  <2>2. IsFiniteSet(Kinds(0)) /\ Cardinality(Kinds(0)) = 0
    BY <2>1, FS_EmptySet
  <2>3. IsFiniteSet(Again(0)) /\ Cardinality(Again(0)) = 0
    BY <2>1, FS_EmptySet
  <2> QED
    BY <2>2, <2>3
<1>2. ASSUME NEW k \in Nat, k \in N PROVE k + 1 \in N
  <2>1. PICK A, B, e : A = Kinds(k) /\ B = Again(k) /\ e = c[k + 1]
    OBVIOUS
  <2>2. /\ IsFiniteSet(A) /\ IsFiniteSet(B) /\ Cardinality(A) + Cardinality(B) = k
        /\ k + 1 \notin B
    BY <1>2, <2>1
  <2>3. Cardinality(A) \in Nat /\ Cardinality(B) \in Nat
    BY <2>2, FS_CardinalityType
  <2>4. Kinds(k + 1) = A \cup {e}
    <3>1. \A i : i \in 1..(k + 1) <=> i \in 1..k \/ i = k + 1
      OBVIOUS
    <3> QED
      BY <2>1, <3>1
  <2>5. Again(k + 1) = IF e \in A THEN B \cup {k + 1} ELSE B
    <3>1. \A i : i \in 1..(k + 1) <=> i \in 1..k \/ i = k + 1
      OBVIOUS
    <3>2. (\E m \in 1..((k + 1) - 1) : c[m] = c[k + 1]) <=> e \in A
      BY <2>1
    <3> QED
      BY <2>1, <3>1, <3>2
  <2> HIDE DEF Kinds, Again
  <2>6. PICK A1, B1 : A1 = Kinds(k + 1) /\ B1 = Again(k + 1)
    OBVIOUS
  <2>7. CASE e \in A
    <3>1. A1 = A /\ B1 = B \cup {k + 1}
      BY <2>4, <2>5, <2>6, <2>7
    <3>2. IsFiniteSet(B1) /\ Cardinality(B1) = Cardinality(B) + 1
      BY <2>2, <3>1, FS_AddElement
    <3> QED
      BY <2>2, <2>3, <2>6, <3>1, <3>2
  <2>8. CASE e \notin A
    <3>1. A1 = A \cup {e} /\ B1 = B
      BY <2>4, <2>5, <2>6, <2>8
    <3>2. IsFiniteSet(A1) /\ Cardinality(A1) = Cardinality(A) + 1
      BY <2>2, <2>8, <3>1, FS_AddElement
    <3> QED
      BY <2>2, <2>3, <2>6, <3>1, <3>2
  <2> QED
    BY <2>7, <2>8
<1> HIDE DEF N
<1>3. Nat \subseteq N
  BY <1>1, <1>2, NatInd
<1>4. n \in N
  BY <1>3
<1>5. /\ IsFiniteSet(C) /\ IsFiniteSet(D)
      /\ Cardinality(C) + Cardinality(D) = n
  BY <1>4 DEF N, Different, Repeated
<1>6. Cardinality(C) \in Nat /\ Cardinality(D) \in Nat
  BY <1>5, FS_CardinalityType
<1> QED
  BY <1>5, <1>6

\* The timeouts on record.
TimeoutsOf(r) ==
  {k \in 1..Len(r.observations) : r.observations[k].outcome = "TOOL_TIMEOUT"}

\* Every retry is one for a timeout of its own.
LEMMA RetriesTimedOut ==
  ASSUME NEW r, NEW calls, NEW open, Sound(r, calls, open),
         NEW R, R \subseteq 1..Len(r.tool_attempts),
         \A i \in R : r.tool_attempts[i].timeout_retry
  PROVE  IsFiniteSet(R) /\ Cardinality(R) <= Cardinality(TimeoutsOf(r))
<1>1. /\ Len(r.observations) \in Nat /\ Len(r.tool_attempts) \in Nat
      /\ \A i \in 1..Len(r.tool_attempts) : r.tool_attempts[i].observation \in Nat
  BY ShapeFacts DEF Sound
<1>2. PICK n \in Nat, m \in Nat : n = Len(r.tool_attempts) /\ m = Len(r.observations)
  BY <1>1
<1>3. ASSUME NEW i \in R
      PROVE  /\ i - 1 \in 1..n
             /\ r.tool_attempts[i - 1].observation \in 1..m
             /\ r.observations[r.tool_attempts[i - 1].observation].outcome = "TOOL_TIMEOUT"
  <2>1. i \in 1..n /\ Retried(r, i) /\ r.tool_attempts[i].timeout_retry
    BY <1>2 DEF Sound
  <2>2. /\ i > 1 /\ r.tool_attempts[i - 1].observation # 0
        /\ r.observations[r.tool_attempts[i - 1].observation].outcome = "TOOL_TIMEOUT"
    BY <2>1 DEF Retried
  <2>3. i - 1 \in 1..n
    BY <2>1, <2>2
  <2>4. Linked(r, i - 1)
    BY <1>2, <2>3 DEF Sound
  <2>5. r.tool_attempts[i - 1].observation <= m
    BY <1>2, <2>4 DEF Linked
  <2> QED
    BY <1>1, <1>2, <2>2, <2>3, <2>5
<1>4. PICK K : K = TimeoutsOf(r)
  OBVIOUS
<1>5. PICK f : f = [i \in R |-> r.tool_attempts[i - 1].observation]
  OBVIOUS
<1>6. \A i \in R : f[i] \in K
  BY <1>2, <1>3, <1>4, <1>5 DEF TimeoutsOf
<1>7. f \in [R -> K]
  BY <1>5, <1>6
<1>8. ASSUME NEW i \in R, NEW j \in R, i < j PROVE f[i] < f[j]
  <2>1. PICK a \in 1..n, b \in 1..n : a = i - 1 /\ b = j - 1
    BY <1>3
  <2>2. a < b /\ r.tool_attempts[b].observation # 0
    BY <1>2, <1>3, <1>8, <2>1
  <2>3. r.tool_attempts[a].observation < r.tool_attempts[b].observation
    BY <1>2, <2>2 DEF Sound
  <2> QED
    BY <1>5, <2>1, <2>3
<1>9. \A i, j \in R : f[i] = f[j] => i = j
  <2>1. \A i \in R : i \in Nat /\ f[i] \in Nat
    BY <1>1, <1>2, <1>3, <1>5
  <2>2. \A i, j \in R : i = j \/ i < j \/ j < i
    BY <2>1
  <2>3. \A i, j \in R : i < j => f[i] # f[j]
    BY <1>8, <2>1
  <2> QED
    BY <2>2, <2>3
<1>10. f \in Injection(R, K)
  BY <1>7, <1>9 DEF Injection, IsInjective
<1>11. IsFiniteSet(K)
  <2>1. K \subseteq 1..m
    BY <1>2, <1>4 DEF TimeoutsOf
  <2>2. IsFiniteSet(1..m)
    BY FS_Interval
  <2> QED
    BY <2>1, <2>2, FS_Subset
<1> QED
  BY <1>4, <1>10, <1>11, FS_Injection

\* A duplicate is a retry or it is not.
LEMMA DuplicatesCounted ==
  ASSUME NEW r, NEW calls, NEW open, Sound(r, calls, open),
         NEW D, D = Duplicates(r),
         NEW R, R = {n \in DOMAIN r.tool_attempts : r.tool_attempts[n].timeout_retry},
         NEW E, E = {n \in D : ~r.tool_attempts[n].timeout_retry}
  PROVE  /\ Cardinality(D) = Len(r.tool_attempts)
                               - Cardinality({a.call : a \in ToSet(r.tool_attempts)})
         /\ Cardinality(D) = Cardinality(E) + Cardinality(R)
         /\ Cardinality(R) <= Cardinality(TimeoutsOf(r))
<1>1. PICK n \in Nat : n = Len(r.tool_attempts) /\ DOMAIN r.tool_attempts = 1..n
  BY ShapeFacts DEF Sound, Shape
<1>2. PICK c : c = [i \in 1..n |-> r.tool_attempts[i].call]
  OBVIOUS
<1>3. PICK C : C = Different(c, n)
  OBVIOUS
<1>4. C = {a.call : a \in ToSet(r.tool_attempts)}
  BY <1>1, <1>2, <1>3 DEF ToSet, Different
<1>5. D = Repeated(c, n)
  <2>1. D = {j \in 1..n :
               \E m \in 1..(j - 1) : r.tool_attempts[m].call = r.tool_attempts[j].call}
    BY <1>1 DEF Duplicates
  <2>2. \A j \in 1..n : \A m \in 1..(j - 1) :
          m \in 1..n /\ c[m] = r.tool_attempts[m].call /\ c[j] = r.tool_attempts[j].call
    BY <1>2
  <2> QED
    BY <2>1, <2>2 DEF Repeated
<1>6. IsFiniteSet(D) /\ Cardinality(D) = n - Cardinality(C)
  BY <1>3, <1>5, RepetitionsCounted
<1>7. R \subseteq 1..n /\ \A i \in R : r.tool_attempts[i].timeout_retry
  BY <1>1, Zenon
<1>8. IsFiniteSet(R) /\ Cardinality(R) <= Cardinality(TimeoutsOf(r))
  BY <1>1, <1>7, RetriesTimedOut
<1>9. R \subseteq D
  <2> SUFFICES ASSUME NEW i \in R PROVE i \in D
    OBVIOUS
  <2>1. i \in 1..n /\ Retried(r, i) /\ r.tool_attempts[i].timeout_retry
    BY <1>1, <1>7 DEF Sound
  <2>2. i > 1 /\ r.tool_attempts[i - 1].call = r.tool_attempts[i].call
    BY <2>1 DEF Retried
  <2>3. i - 1 \in 1..(i - 1)
    BY <2>1, <2>2
  <2> QED
    BY <1>1, <2>1, <2>2, <2>3 DEF Duplicates
<1>10. D = E \cup R /\ E \cap R = {}
  <2>1. \A i \in D : i \in E <=> i \notin R
    <3>1. D \subseteq DOMAIN r.tool_attempts
      BY DEF Duplicates
    <3> QED
      BY <3>1, Zenon
  <2>2. E \subseteq D
    BY Zenon
  <2> QED
    BY <1>9, <2>1, <2>2
<1>11. IsFiniteSet(E)
  BY <1>6, <1>10, FS_Subset
<1>12. Cardinality(D) = Cardinality(E) + Cardinality(R)
  <2>1. Cardinality(E \cup R) = Cardinality(E) + Cardinality(R) - Cardinality(E \cap R)
    BY <1>8, <1>11, FS_Union
  <2>2. Cardinality(E \cap R) = 0
    BY <1>10, FS_EmptySet
  <2>3. Cardinality(E) \in Nat /\ Cardinality(R) \in Nat
    BY <1>8, <1>11, FS_CardinalityType
  <2>4. Cardinality(D) = Cardinality(E \cup R)
    BY <1>10
  <2> QED
    BY <2>1, <2>2, <2>3, <2>4
<1> QED
  BY <1>1, <1>4, <1>6, <1>8, <1>12

-----------------------------------------------------------------------------
(* The trajectory of the bundle *)

LEMMA SoundInOrder ==
  ASSUME NEW r, NEW calls, NEW open, Sound(r, calls, open)
  PROVE  /\ InOrder(r) /\ r.tool_attempts \in Seq(Attempt) /\ Len(r.decisions) \in Nat
         /\ Len(r.tool_attempts) \in Nat
         /\ \A i \in 1..Len(r.tool_attempts) :
              r.tool_attempts[i].decision \in 1..Len(r.decisions)
<1>1. /\ Shape(r) /\ Len(r.decisions) \in Nat /\ Len(r.tool_attempts) \in Nat
      /\ \A i \in 1..Len(r.tool_attempts) : r.tool_attempts[i].decision \in Nat
  BY ShapeFacts DEF Sound
<1>2. \A i \in 1..Len(r.tool_attempts) :
        r.tool_attempts[i].decision \in 1..Len(r.decisions)
  BY DEF Sound, Linked
<1>3. \A i, j \in 1..Len(r.tool_attempts) :
        i < j => r.tool_attempts[i].decision <= r.tool_attempts[j].decision
  BY DEF Sound
<1> QED
  BY <1>1, <1>2, <1>3 DEF InOrder, Shape

LEMMA PathFacts ==
  ASSUME NEW r, NEW calls, NEW open, Sound(r, calls, open), NEW p, p = Path(r)
  PROVE  /\ Len(p) = Len(r.decisions) + Len(r.tool_attempts)
         /\ \A n \in 1..Len(r.decisions) : Selected(p, DecisionSteps)[n].reference = n
         /\ \A n \in 1..Len(r.tool_attempts) : Selected(p, ToolSteps)[n].reference = n
<1>1. PICK k \in Nat, a \in Nat : k = Len(r.decisions) /\ a = Len(r.tool_attempts)
  BY SoundInOrder
<1>2. PathTells(p, k, a)
  BY <1>1, SoundInOrder, PathTold
<1>3. Len(p) = k + a
  BY <1>2 DEF PathTells
<1>4. ASSUME NEW n \in 1..k PROVE Selected(p, DecisionSteps)[n].reference = n
  BY <1>2, <1>4 DEF PathTells, AreSteps
<1>5. ASSUME NEW n \in 1..a PROVE Selected(p, ToolSteps)[n].reference = n
  BY <1>2, <1>5 DEF PathTells, AreSteps
<1> QED
  BY <1>1, <1>3, <1>4, <1>5

\* The inductive invariant: a bundle has the trajectory of the session that is over.
TrajectoryInv ==
  /\ BudgetInv /\ RecorderInv
  /\ bundle.closed => run.finished /\ \E res : bundle.trajectory = Trajectory(run, res)

LEMMA TrajectoryInit ==
  ASSUME VInit
  PROVE  TrajectoryInv
<1>1. BudgetInv /\ RecorderInv
  BY RecorderInit DEF VInit
<1>2. ~bundle.closed
  BY DEF VInit, NoBundle
<1> QED
  BY <1>1, <1>2 DEF TrajectoryInv

LEMMA TrajectoryStep ==
  ASSUME TrajectoryInv, [VNext]_allvars
  PROVE  TrajectoryInv'
<1>1. [ENext]_evars
  BY DEF VNext, SessionStep, EvaluateByCode, InputTooLarge, AskJudge, JudgeAnswers,
     CorrectJudge, JudgeFails, CloseBundle, Conclude, SendRequest, allvars
<1>2. BudgetInv' /\ RecorderInv'
  BY <1>1, RecorderStep DEF TrajectoryInv
<1>3. CASE CloseBundle
  <2>1. /\ run.finished /\ UNCHANGED run
        /\ bundle'.trajectory = Trajectory(run, results)
    BY <1>3 DEF CloseBundle, evars
  <2>2. \E res : bundle'.trajectory = Trajectory(run', res)
    BY <2>1
  <2> QED
    BY <1>2, <2>1, <2>2 DEF TrajectoryInv
<1>4. CASE ~CloseBundle
  <2>1. UNCHANGED bundle
    BY <1>4 DEF VNext, SessionStep, EvaluateByCode, InputTooLarge, AskJudge, JudgeAnswers,
       CorrectJudge, JudgeFails, Conclude, SendRequest, allvars, pvars
  <2>2. ASSUME bundle.closed PROVE UNCHANGED run
    <3>1. Ended
      BY <2>2 DEF TrajectoryInv, RecorderInv
    <3> QED
      BY <1>1, <3>1, EndedRests
  <2> QED
    BY <1>2, <2>1, <2>2 DEF TrajectoryInv
<1> QED
  BY <1>3, <1>4

LEMMA TrajectoryTells ==
  ASSUME TrajectoryInv
  PROVE  TrajectoryIsTheExecution
<1> SUFFICES ASSUME bundle.closed PROVE TrajectoryIsTheExecution
  BY DEF TrajectoryIsTheExecution
<1>1. PICK t, res : t = bundle.trajectory /\ t = Trajectory(run, res)
  BY DEF TrajectoryInv
<1>2. PICK calls, open : calls = CallsMade /\ open = Open
  OBVIOUS
<1>3. Sound(run, calls, open) /\ Ended /\ run.observations = observations
  BY <1>2 DEF TrajectoryInv, RecorderInv, Ended
<1>4. PICK p, D, R, E :
        /\ p = Path(run)
        /\ D = Duplicates(run)
        /\ R = {n \in DOMAIN run.tool_attempts : run.tool_attempts[n].timeout_retry}
        /\ E = {n \in D : ~run.tool_attempts[n].timeout_retry}
  OBVIOUS
<1>5. /\ t.path = p /\ t.path_length = Len(run.decisions) + Len(run.tool_attempts)
      /\ t.duplicate_calls = Cardinality(D)
      /\ t.non_retry_duplicate_calls = Cardinality(E)
      /\ t.timeout_retries = Cardinality(R)
  <2>1. PICK u : u = Cardinality({n \in DOMAIN run.tool_attempts :
                       run.tool_attempts[n].decision \in UnnecessaryDecisions(res)})
    OBVIOUS
  <2>2. Trajectory(run, res)
          = [path |-> p, path_length |-> Len(run.decisions) + Len(run.tool_attempts),
             duplicate_calls |-> Cardinality(D), non_retry_duplicate_calls |-> Cardinality(E),
             timeout_retries |-> Cardinality(R), unnecessary_tool_attempts |-> u]
    BY <1>4, <2>1, Zenon DEF Trajectory
  <2> QED
    BY <1>1, <2>2
<1>6. /\ Len(p) = Len(run.decisions) + Len(run.tool_attempts)
      /\ \A n \in 1..Len(run.decisions) : Selected(p, DecisionSteps)[n].reference = n
      /\ \A n \in 1..Len(run.tool_attempts) : Selected(p, ToolSteps)[n].reference = n
  BY <1>3, <1>4, PathFacts
<1>7. /\ Cardinality(D) = Len(run.tool_attempts)
                            - Cardinality({a.call : a \in ToSet(run.tool_attempts)})
      /\ Cardinality(D) = Cardinality(E) + Cardinality(R)
      /\ Cardinality(R) <= Cardinality(TimeoutsOf(run))
  BY <1>3, <1>4, DuplicatesCounted
<1>8. TimeoutsOf(run) = {i \in 1..Len(observations) :
                           observations[i].outcome = "TOOL_TIMEOUT"}
  BY <1>3 DEF TimeoutsOf
<1>9. tool_call_count <= Len(run.tool_attempts)
  <2>1. tool_call_count = Len(tool_history) /\ tool_history \in Seq(Calls)
    BY DEF TrajectoryInv, BudgetInv, TaskConsistent, TypeOK
  <2>2. Len(run.tool_attempts) = Len(CallsMade)
    BY <1>2, <1>3 DEF Sound
  <2>3. Len(CallsMade) = Len(tool_history) \/ Len(CallsMade) = Len(tool_history) + 1
    BY <2>1 DEF CallsMade
  <2> QED
    BY <2>1, <2>2, <2>3
<1> QED
  BY <1>1, <1>5, <1>6, <1>7, <1>8, <1>9
     DEF TrajectoryIsTheExecution, TimeoutsSeen, DecisionSteps, ToolSteps

\* Of every run, whatever its session was: the reported path tells each decision and each
\* attempt once and in order, a call counts as a duplicate beyond its first attempt, and
\* the retries among them are no more than the timeouts.
THEOREM TrajectoriesAreExecutions == VSpec => []TrajectoryIsTheExecution
<1>1. VInit => TrajectoryInv
  BY TrajectoryInit
<1>2. TrajectoryInv /\ [VNext]_allvars => TrajectoryInv'
  BY TrajectoryStep
<1>3. TrajectoryInv => TrajectoryIsTheExecution
  BY TrajectoryTells
<1> QED
  BY <1>1, <1>2, <1>3, PTL DEF VSpec
=============================================================================
