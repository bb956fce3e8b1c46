-------------------------- MODULE CommandRunProofs --------------------------
(***************************************************************************)
(* What holds of the commands whatever their steps are, as long as these   *)
(* come in an order that CommandRun names, and for any number of tries,    *)
(* repetitions and moves of others.                                        *)
(***************************************************************************)
EXTENDS CommandRun, FiniteSetTheorems, TLAPS

\* What leaving a step assigns.
MoveType == /\ pc' \in 1..(Len(prog) + 1) /\ given' \subseteq Facts(cmd)
            /\ tries' \in 0..RetryMax /\ page' \in 0..3 /\ match' \subseteq Id
            /\ rounds' \in 0..MaxRounds /\ exit' \in Exits
\* What a request may change of the server.
ServerType == LET kinds == TrackedBy(cmd) IN
              /\ things' \in [kinds -> [Id -> Names]] /\ applied' \in [Steps -> Nat]
              /\ bore' \in [kinds -> SUBSET Id] /\ absent' \subseteq kinds
              /\ hit' \subseteq kinds \X Id
\* Requests that the server may still get.
Waiting == {w \in Steps \X ({0} \cup Id) : w[2] # 0 => prog[w[1]].req.kind \in TrackedBy(cmd)}
-----------------------------------------------------------------------------
LEMMA HereType ==
    ASSUME TypeOK
    PROVE  /\ prog \in Seq(AllSteps) /\ Len(prog) \in Nat /\ Steps = 1..Len(prog)
           /\ \A i \in Steps : /\ prog[i] \in AllSteps
                               /\ prog[i].code = "byAnswer" => prog[i].do = "call"
                               /\ prog[i].again => i > 1
BY ProgramAssumption DEF TypeOK, Steps

LEMMA StepFields ==
    ASSUME NEW s \in AllSteps
    PROVE  /\ s.code \in Exits \cup {"byAnswer"} /\ s.miss \in Exits
<1>1. s.code \in Exits \cup {"byAnswer"}
  BY DEF AllSteps
<1>2. s.miss \in Exits
  BY DEF AllSteps
<1> QED BY <1>1, <1>2

LEMMA FactsOfStep ==
    ASSUME NEW c, NEW s \in StepsOf(c)
    PROVE  s.when \cup s.unless \cup {s.fact} \subseteq Facts(c)
BY DEF Facts

LEMMA OptionsType ==
    ASSUME NEW c \in Commands
    PROVE  Options(c) \subseteq Facts(c)
<1>0. "tty" \in Terminal
  BY DEF Terminal
<1>1. \A s \in StepsOf(c) : Asked(s) \subseteq {s.fact} \cup Terminal
  BY <1>0 DEF Asked
<1>2. SUFFICES ASSUME NEW o \in Options(c) PROVE o \in Facts(c)
  OBVIOUS
<1>3. PICK s \in StepsOf(c) : o \in s.when \cup s.unless \cup Asked(s)
  BY DEF Options
<1>4. o \in s.when \cup s.unless \cup {s.fact} \/ o \in Terminal
  BY <1>1, <1>3
<1>5. Terminal \subseteq Facts(c)
  BY DEF Facts
<1> QED BY <1>4, <1>5, FactsOfStep

LEMMA CardinalityOfId == Cardinality(Id) = 2
<1>1. Cardinality(1..2) = 2 - 1 + 1
  BY FS_Interval, 1 \in Int, 2 \in Int, ~(1 > 2)
<1> QED BY <1>1 DEF Id

LEMMA TrackedType ==
    ASSUME TypeOK
    PROVE  /\ Tracked = TrackedBy(cmd)
           /\ \A i \in Steps : prog[i].do = "find" => prog[i].req.kind \in Tracked
<1>1. Tracked = TrackedBy(cmd) /\ prog = Program[cmd]
  BY DEF TypeOK, Tracked
<1>2. Steps = DOMAIN Program[cmd]
  BY <1>1, HereType DEF Steps, TypeOK
<1>3. \A i \in Steps : prog[i].do = "find" => prog[i].req.kind \in TrackedBy(cmd)
  BY <1>1, <1>2 DEF TrackedBy
<1> QED BY <1>1, <1>3

LEMMA AdvanceType ==
    ASSUME TypeOK, pc \in Steps, advance
    PROVE  MoveType
<1>1. /\ pc' = pc + 1 /\ given' = given /\ tries' = 0 /\ page' = 0 /\ match' = {}
      /\ rounds' = rounds /\ exit' = exit
  BY DEF advance, fresh
<1>2. pc' \in 1..(Len(prog) + 1)
  BY <1>1, HereType
<1>3. given' \subseteq Facts(cmd)
  BY <1>1 DEF TypeOK
<1>4. /\ tries' \in 0..RetryMax /\ page' \in 0..3 /\ match' \subseteq Id
      /\ rounds' \in 0..MaxRounds /\ exit' \in Exits
  BY <1>1, CountsAssumption DEF TypeOK
<1> QED BY <1>2, <1>3, <1>4 DEF MoveType

LEMMA LearnType ==
    ASSUME TypeOK, pc \in Steps, learn
    PROVE  MoveType
<1>1. here.fact \in Facts(cmd)
  <2>1. here \in StepsOf(cmd)
    BY HereType DEF here, StepsOf, TypeOK, Steps
  <2> QED BY <2>1, FactsOfStep
<1>2. given' \subseteq Facts(cmd)
  BY <1>1 DEF TypeOK, learn
<1>3. /\ pc' = pc + 1 /\ tries' = 0 /\ page' = 0 /\ match' = {} /\ rounds' = rounds /\ exit' = exit
  BY DEF learn, fresh
<1>4. pc' \in 1..(Len(prog) + 1)
  BY <1>3, HereType
<1>5. /\ tries' \in 0..RetryMax /\ page' \in 0..3 /\ match' \subseteq Id
      /\ rounds' \in 0..MaxRounds /\ exit' \in Exits
  BY <1>3, CountsAssumption DEF TypeOK
<1> QED BY <1>2, <1>4, <1>5 DEF MoveType

LEMMA RepeatType ==
    ASSUME TypeOK, pc \in Steps, Repeat \/ (pc > 1 /\ askAgain)
    PROVE  MoveType
<1>1. /\ pc' \in {pc, pc - 1} /\ pc' >= 1 /\ given' = given /\ tries' = 0 /\ page' = 0 /\ match' = {}
      /\ rounds' = rounds \/ (rounds < MaxRounds /\ rounds' = rounds + 1)
      /\ exit' = exit
  BY HereType DEF Repeat, askAgain, fresh
<1>2. pc' \in 1..(Len(prog) + 1)
  BY <1>1, HereType
<1>3. given' \subseteq Facts(cmd)
  BY <1>1 DEF TypeOK
<1>4. /\ tries' \in 0..RetryMax /\ page' \in 0..3 /\ match' \subseteq Id
      /\ rounds' \in 0..MaxRounds /\ exit' \in Exits
  BY <1>1, CountsAssumption DEF TypeOK
<1> QED BY <1>2, <1>3, <1>4 DEF MoveType

LEMMA QuitType ==
    ASSUME TypeOK, NEW e \in Exits, Quit(e)
    PROVE  MoveType
<1>1. /\ pc' = pc /\ given' = given /\ tries' = 0 /\ page' = 0 /\ match' = {} /\ rounds' = rounds
      /\ exit' = e
  BY DEF Quit, fresh
<1>2. pc' \in 1..(Len(prog) + 1) /\ given' \subseteq Facts(cmd)
  BY <1>1 DEF TypeOK
<1>3. /\ tries' \in 0..RetryMax /\ page' \in 0..3 /\ match' \subseteq Id
      /\ rounds' \in 0..MaxRounds /\ exit' \in Exits
  BY <1>1, CountsAssumption DEF TypeOK
<1> QED BY <1>2, <1>3 DEF MoveType

LEMMA FailType ==
    ASSUME TypeOK, pc \in Steps, here.do \in {"call", "find"}, NEW a \in Failures, Fail(a)
    PROVE  MoveType
<1>1. /\ here \in AllSteps
      /\ here.code = "byAnswer" => here.do = "call"
      /\ here.again => pc > 1
  BY HereType DEF here
<1>2. CASE a \in here.soft /\ here.again
  BY <1>1, <1>2, HereType, RepeatType DEF Fail
<1>3. CASE a \in here.soft /\ ~here.again
  BY <1>3, LearnType DEF Fail
<1>4. CASE a \notin here.soft
  <2>1. /\ here.code \in Exits \cup {"byAnswer"} /\ here.miss \in Exits
    BY <1>1, StepFields
  <2>2. here.do = "find" => here.code \in Exits
    BY <1>1, <2>1
  <2>3. "auth" \in Exits /\ "api" \in Exits
    BY DEF Exits
  <2>4. ByAnswer(a) \in Exits
    BY <2>1, <2>2, <2>3 DEF ByAnswer
  <2> QED BY <1>4, <2>1, <2>2, <2>4, QuitType DEF Fail
<1> QED BY <1>2, <1>3, <1>4

LEMMA RetryType ==
    ASSUME TypeOK, pc \in Steps, here.do \in {"call", "find"}, retry
    PROVE  MoveType
<1>1. CASE tries < RetryMax /\ tries' = tries + 1 /\ UNCHANGED <<given, pc, page, match, rounds, exit>>
  BY <1>1, CountsAssumption DEF TypeOK, MoveType
<1>2. CASE Fail("silence")
  BY <1>2, FailType DEF Failures
<1> QED BY <1>1, <1>2 DEF retry

LEMMA SubjectsType ==
    ASSUME TypeOK, NEW i \in Steps, NEW t \in Subjects(prog[i].req)
    PROVE  t \in {0} \cup Id /\ (t # 0 => prog[i].req.kind \in Tracked)
<1> DEFINE r == prog[i].req
<1>1. CASE r.kind \notin Tracked \/ r.by = "none"
  BY <1>1 DEF Subjects
<1>2. CASE r.kind \in Tracked /\ r.by # "none"
  <2>1. held[r.kind] \in {0} \cup Id
    BY <1>2, TrackedType DEF TypeOK
  <2>2. Bearers(r.kind) \subseteq Id /\ 1 \in Id
    BY DEF Bearers, Id
  <2> QED BY <1>2, <2>1, <2>2 DEF Subjects
<1> QED BY <1>1, <1>2

LEMMA RememberType ==
    ASSUME TypeOK, things' \in [TrackedBy(cmd) -> [Id -> Names]], remember
    PROVE  /\ bore' \in [TrackedBy(cmd) -> SUBSET Id] /\ absent' \subseteq TrackedBy(cmd)
BY TrackedType DEF TypeOK, remember

LEMMA RenameType ==
    ASSUME TypeOK, NEW k \in Tracked, NEW t \in Id, NEW n \in Names, Rename(k, t, n)
    PROVE  things' \in [TrackedBy(cmd) -> [Id -> Names]]
BY TrackedType DEF TypeOK, Rename

LEMMA EffectType ==
    ASSUME TypeOK, NEW i \in Steps, NEW t \in {0} \cup Id, t # 0 => prog[i].req.kind \in Tracked,
           Effect(i, t)
    PROVE  ServerType
<1> DEFINE r == prog[i].req
<1>1. CASE Writes(r)
  <2>1. things' \in [TrackedBy(cmd) -> [Id -> Names]]
    <3>1. CASE t # 0 /\ r.verb = "delete"
      BY <1>1, <3>1, RenameType DEF Effect, Names
    <3>2. CASE ~(t # 0 /\ r.verb = "delete")
      BY <1>1, <3>2 DEF Effect, TypeOK
    <3> QED BY <3>1, <3>2
  <2>2. applied' = [applied EXCEPT ![i] = @ + 1] /\ hit' \subseteq hit \cup {<<r.kind, t>>}
    BY <1>1 DEF Effect
  <2>3. applied' \in [Steps -> Nat]
    BY <2>2 DEF TypeOK
  <2>4. CASE t = 0
    <3>1. hit' = hit
      BY <1>1, <2>4 DEF Effect
    <3> QED BY <3>1, <1>1, <2>1, <2>3, RememberType DEF Effect, ServerType, TypeOK
  <2>5. CASE t # 0
    <3>1. <<r.kind, t>> \in TrackedBy(cmd) \X Id
      BY <2>5, TrackedType
    <3>2. hit' \subseteq TrackedBy(cmd) \X Id
      BY <2>2, <3>1 DEF TypeOK
    <3> QED BY <3>2, <1>1, <2>1, <2>3, RememberType DEF Effect, ServerType
  <2> QED BY <2>4, <2>5
<1>2. CASE ~Writes(r)
  BY <1>2 DEF Effect, TypeOK, ServerType
<1> QED BY <1>1, <1>2

LEMMA ServerSame ==
    ASSUME TypeOK, UNCHANGED <<things, applied, hit, bore, absent>>
    PROVE  ServerType
BY DEF TypeOK, ServerType

LEMMA Assemble ==
    ASSUME TypeOK, UNCHANGED program, MoveType, ServerType,
           held' \in [TrackedBy(cmd) -> {0} \cup Id], confirmed' \in BOOLEAN, declined' \in BOOLEAN,
           wire' \subseteq Waiting, moves' \in 0..MaxMoves
    PROVE  TypeOK'
<1>1. cmd' = cmd /\ prog' = prog
  BY DEF program
<1>2. Steps' = Steps
  BY <1>1 DEF Steps
<1>3. /\ pc' \in 1..(Len(prog') + 1) /\ given' \subseteq Facts(cmd')
      /\ tries' \in 0..RetryMax /\ page' \in 0..3 /\ match' \subseteq Id
      /\ rounds' \in 0..MaxRounds /\ exit' \in Exits
  BY <1>1 DEF MoveType
<1>4. /\ things' \in [TrackedBy(cmd') -> [Id -> Names]] /\ applied' \in [Steps' -> Nat]
      /\ bore' \in [TrackedBy(cmd') -> SUBSET Id] /\ absent' \subseteq TrackedBy(cmd')
      /\ hit' \subseteq TrackedBy(cmd') \X Id
  BY <1>1, <1>2 DEF ServerType
<1>5. cmd' \in Commands /\ prog' = Program[cmd']
  BY <1>1 DEF TypeOK
<1>6. held' \in [TrackedBy(cmd') -> {0} \cup Id] /\ wire' \subseteq Waiting'
  BY <1>1, <1>2 DEF Waiting
<1> QED BY <1>3, <1>4, <1>5, <1>6 DEF TypeOK, Waiting

\* A step that needs no server.
LEMMA LocalType ==
    ASSUME TypeOK, UNCHANGED program, MoveType, UNCHANGED <<held, things, wire, hit, bore, absent, moves>>,
           applied' \in [Steps -> Nat], confirmed' \in BOOLEAN, declined' \in BOOLEAN
    PROVE  TypeOK'
<1>1. ServerType
  BY DEF TypeOK, ServerType
<1>2. /\ held' \in [TrackedBy(cmd) -> {0} \cup Id] /\ wire' \subseteq Waiting
      /\ moves' \in 0..MaxMoves
  BY DEF TypeOK, Waiting
<1> QED BY <1>1, <1>2, Assemble

LEMMA DeclineType ==
    ASSUME TypeOK, pc \in Steps, Decline
    PROVE  MoveType /\ declined' \in BOOLEAN /\ confirmed' \in BOOLEAN
<1>1. here.miss \in Exits
  BY HereType, StepFields DEF here
<1>2. advance \/ Quit(here.miss)
  BY DEF Decline
<1>3. MoveType
  BY <1>1, <1>2, AdvanceType, QuitType
<1> QED BY <1>3 DEF Decline, TypeOK

LEMMA TypeStep ==
    ASSUME TypeOK, [Next]_vars
    PROVE  TypeOK'
<1> USE DEF At
<1>0. confirmed \in BOOLEAN /\ declined \in BOOLEAN /\ applied \in [Steps -> Nat]
  BY DEF TypeOK
<1>1. CASE Skip
  BY <1>0, <1>1, AdvanceType, LocalType DEF Skip, local, user, server
<1>2. CASE check
  <2>1. MoveType
    <3>1. CASE advance
      BY <1>2, <3>1, AdvanceType DEF check
    <3>2. CASE Quit(here.code)
      <4>1. here.code \in Exits
        BY <1>2, HereType, StepFields DEF check, here
      <4> QED BY <3>2, <4>1, QuitType
    <3> QED BY <1>2, <3>1, <3>2 DEF check
  <2> QED BY <1>0, <1>2, <2>1, LocalType DEF check, local, user, server
<1>3. CASE whether
  BY <1>0, <1>3, AdvanceType, LearnType, LocalType DEF whether, local, user, server
<1>4. CASE stop
  <2>1. here.code \in Exits
    BY <1>4, HereType, StepFields DEF stop, here
  <2> QED BY <1>0, <1>4, <2>1, QuitType, LocalType DEF stop, local, user, server
<1>5. CASE ask
  <2>1. here.code \in Exits
    BY <1>5, HereType, StepFields DEF ask, here
  <2>2. \/ (advance \/ Quit(here.code)) /\ UNCHANGED user
        \/ Decline
    BY <1>5 DEF ask
  <2>3. MoveType /\ declined' \in BOOLEAN /\ confirmed' \in BOOLEAN
    <3>1. CASE Decline
      BY <1>5, <3>1, DeclineType DEF ask
    <3>2. CASE (advance \/ Quit(here.code)) /\ UNCHANGED user
      BY <1>0, <1>5, <2>1, <3>2, AdvanceType, QuitType DEF ask, user
    <3> QED BY <2>2, <3>1, <3>2
  <2> QED BY <1>0, <1>5, <2>3, LocalType DEF ask, local, server
<1>6. CASE ConfirmOrForce
  <2>1. here.code \in Exits
    BY <1>6, HereType, StepFields DEF ConfirmOrForce, here
  <2>2. \/ advance /\ confirmed' = TRUE /\ UNCHANGED declined
        \/ Decline
        \/ Quit(here.code) /\ UNCHANGED user
    BY <1>6 DEF ConfirmOrForce
  <2>3. MoveType /\ declined' \in BOOLEAN /\ confirmed' \in BOOLEAN
    <3>1. CASE Decline
      BY <1>6, <3>1, DeclineType DEF ConfirmOrForce
    <3>2. CASE advance /\ confirmed' = TRUE /\ UNCHANGED declined
      BY <1>0, <1>6, <3>2, AdvanceType DEF ConfirmOrForce
    <3>3. CASE Quit(here.code) /\ UNCHANGED user
      BY <1>0, <2>1, <3>3, QuitType DEF user
    <3> QED BY <2>2, <3>1, <3>2, <3>3
  <2> QED BY <1>0, <1>6, <2>3, LocalType DEF ConfirmOrForce, local, server
<1>7. CASE writeFile
  <2>1. here.code \in Exits /\ pc \in Nat \ {0}
    BY <1>7, HereType, StepFields DEF writeFile, here
  <2>2. MoveType /\ applied' \in [Steps -> Nat]
    <3>1. CASE advance /\ applied' = [applied EXCEPT ![pc] = @ + 1]
      BY <1>0, <1>7, <3>1, AdvanceType DEF writeFile
    <3>2. CASE Repeat /\ applied' = [applied EXCEPT ![pc] = @ + 1]
      BY <1>0, <1>7, <2>1, <3>2, RepeatType DEF writeFile
    <3>3. CASE Quit(here.code) /\ UNCHANGED applied
      BY <1>0, <2>1, <3>3, QuitType
    <3> QED BY <1>7, <3>1, <3>2, <3>3 DEF writeFile
  <2> QED BY <1>0, <1>7, <2>2, LocalType DEF writeFile, user
<1>8. CASE End
  <2>1. "ok" \in Exits
    BY DEF Exits
  <2> QED BY <1>0, <1>8, <2>1, QuitType, LocalType DEF End, local, user, server
<1>9. CASE Unanswered
  <2>1. MoveType
    BY <1>9, RetryType DEF Unanswered, here
  <2> QED BY <1>0, <1>9, <2>1, LocalType DEF Unanswered, user, server
<1>10. CASE LoseAnswer
  <2>1. MoveType
    BY <1>10, RetryType DEF LoseAnswer, here
  <2>2. ServerType
    BY <1>10, SubjectsType, EffectType DEF LoseAnswer, here
  <2> QED BY <1>0, <1>10, <2>1, <2>2, Assemble DEF LoseAnswer, user, TypeOK, Waiting
<1>11. CASE Delay
  <2>1. MoveType
    BY <1>11, RetryType DEF Delay, here
  <2>2. PICK t \in Subjects(here.req) : wire' = wire \cup {<<pc, t>>}
    BY <1>11 DEF Delay
  <2>3. pc \in Steps /\ t \in {0} \cup Id /\ (t # 0 => prog[pc].req.kind \in TrackedBy(cmd))
    BY <1>11, SubjectsType, TrackedType DEF Delay, here
  <2>4. wire' \subseteq Waiting
    BY <2>2, <2>3 DEF TypeOK, Waiting
  <2>5. ServerType
    BY <1>11, ServerSame DEF Delay
  <2> QED BY <1>0, <1>11, <2>1, <2>4, <2>5, Assemble DEF Delay, user, TypeOK
<1>12. CASE Succeed
  <2>1. pc \in Steps /\ pc \in Nat \ {0}
    BY <1>12, HereType DEF Succeed
  <2>2. MoveType
    BY <1>12, <2>1, AdvanceType, RepeatType DEF Succeed
  <2>3. ServerType /\ held' \in [TrackedBy(cmd) -> {0} \cup Id]
    <3>1. PICK t \in Subjects(here.req) :
             /\ Effect(pc, t)
             /\ held' = IF t # 0 /\ here.req.verb = "read" /\ here.req.by = "name"
                        THEN [held EXCEPT ![here.req.kind] = t] ELSE held
      BY <1>12 DEF Succeed
    <3>2. t \in {0} \cup Id /\ (t # 0 => here.req.kind \in Tracked)
      BY <2>1, SubjectsType DEF here
    <3>3. ServerType
      BY <2>1, <3>1, <3>2, EffectType DEF here
    <3>4. held' \in [TrackedBy(cmd) -> {0} \cup Id]
      BY <3>1, <3>2, TrackedType DEF TypeOK
    <3> QED BY <3>3, <3>4
  <2> QED BY <1>0, <1>12, <2>2, <2>3, Assemble DEF Succeed, user, TypeOK, Waiting
<1>13. CASE Refuse
  <2>1. PICK a \in {"notFound", "unauthorized", "refused"} : Fail(a)
    BY <1>13 DEF Refuse
  <2>2. MoveType
    BY <1>13, <2>1, FailType DEF Refuse, here, Failures
  <2> QED BY <1>0, <1>13, <2>2, LocalType DEF Refuse, user, server
<1>14. CASE turnPage \/ anotherPage
  <2>1. pages \in {0, 1, 2} /\ page \in 0..3
    BY CardinalityOfId DEF pages, TypeOK
  <2>2. page' \in 0..3 /\ match' \subseteq Id /\ tries' = 0
    BY <1>14, <2>1 DEF turnPage, anotherPage, TypeOK, Bearers
  <2>3. MoveType
    BY <1>14, <2>2, CountsAssumption DEF turnPage, anotherPage, MoveType, TypeOK
  <2> QED BY <1>0, <1>14, <2>3, LocalType DEF turnPage, anotherPage, user, server
<1>15. CASE choose
  <2>1. MoveType /\ held' \in [TrackedBy(cmd) -> {0} \cup Id]
    <3>1. CASE match = {} /\ Miss /\ UNCHANGED held
      <4>1. here.miss \in Exits
        BY <1>15, HereType, StepFields DEF choose, here
      <4> QED BY <1>15, <3>1, <4>1, LearnType, QuitType DEF choose, Miss, TypeOK
    <3>2. CASE match # {} /\ advance
      <4>1. MoveType
        BY <1>15, <3>2, AdvanceType DEF choose
      <4>2. \E t \in match : \A u \in match : t <= u
        <5>1. match \subseteq {1, 2}
          BY DEF TypeOK, Id
        <5>2. CASE 1 \in match
          BY <5>1, <5>2
        <5>3. CASE 1 \notin match
          <6>1. match = {2}
            BY <3>2, <5>1, <5>3
          <6> QED BY <6>1
        <5> QED BY <5>2, <5>3
      <4> DEFINE least == CHOOSE t \in match : \A u \in match : t <= u
      <4>3. least \in Id
        BY <4>2 DEF TypeOK
      <4>4. held' = [held EXCEPT ![here.req.kind] = least]
        BY <1>15, <3>2 DEF choose
      <4>5. held' \in [TrackedBy(cmd) -> {0} \cup Id]
        BY <4>3, <4>4 DEF TypeOK
      <4> QED BY <4>1, <4>5
    <3> QED BY <1>15, <3>1, <3>2 DEF choose
  <2>2. ServerType
    BY <1>15, ServerSame DEF choose, server
  <2> QED BY <1>0, <1>15, <2>1, <2>2, Assemble DEF choose, user, server, TypeOK, Waiting
<1>16. CASE Elsewhere
  <2>1. PICK k \in Tracked, t \in Id, n \in Names : Rename(k, t, n)
    BY <1>16 DEF Elsewhere
  <2>2. things' \in [TrackedBy(cmd) -> [Id -> Names]]
    BY <2>1, RenameType
  <2>3. bore' \in [TrackedBy(cmd) -> SUBSET Id] /\ absent' \subseteq TrackedBy(cmd)
    BY <1>16, <2>2, RememberType DEF Elsewhere
  <2>4. ServerType
    BY <1>16, <2>2, <2>3 DEF Elsewhere, ServerType, TypeOK
  <2>5. moves' \in 0..MaxMoves
    BY <1>16, CountsAssumption DEF Elsewhere, TypeOK
  <2>6. MoveType
    BY <1>16 DEF Elsewhere, client, MoveType, TypeOK
  <2> QED BY <1>0, <1>16, <2>4, <2>5, <2>6, Assemble DEF Elsewhere, client, TypeOK, Waiting
<1>17. CASE Arrive
  <2>1. PICK w \in wire :
           /\ wire' = wire \ {w}
           /\ IF w[2] = 0 \/ things[prog[w[1]].req.kind][w[2]] # "gone"
              THEN Effect(w[1], w[2])
              ELSE UNCHANGED <<applied, hit, things, bore, absent>>
    BY <1>17 DEF Arrive
  <2>2. /\ w[1] \in Steps /\ w[2] \in {0} \cup Id
        /\ w[2] # 0 => prog[w[1]].req.kind \in Tracked
    BY TrackedType DEF TypeOK
  <2>3. ServerType
    <3>1. CASE Effect(w[1], w[2])
      BY <2>2, <3>1, EffectType
    <3>2. CASE UNCHANGED <<applied, hit, things, bore, absent>>
      BY <3>2, ServerSame
    <3> QED BY <2>1, <3>1, <3>2
  <2>4. MoveType
    BY <1>17 DEF Arrive, client, MoveType, TypeOK
  <2> QED BY <1>0, <1>17, <2>1, <2>3, <2>4, Assemble DEF Arrive, client, TypeOK, Waiting
<1>18. CASE UNCHANGED vars
  BY <1>18 DEF vars, client, server, program, TypeOK, Steps
<1> QED
  BY <1>1, <1>2, <1>3, <1>4, <1>5, <1>6, <1>7, <1>8, <1>9, <1>10, <1>11, <1>12, <1>13, <1>14,
     <1>15, <1>16, <1>17, <1>18 DEF Next, progress, Done

\* Every state has the types it should have.
THEOREM TypeCorrect == Spec => []TypeOK
<1>1. Init => TypeOK
  <2> SUFFICES ASSUME Init PROVE TypeOK
    OBVIOUS
  <2>1. /\ cmd \in Commands /\ prog = Program[cmd] /\ prog \in Seq(AllSteps) /\ Len(prog) \in Nat
    BY ProgramAssumption DEF Init
  <2>2. pc \in 1..(Len(prog) + 1)
    BY <2>1 DEF Init
  <2>3. /\ tries \in 0..RetryMax /\ page \in 0..3 /\ match \subseteq Id /\ rounds \in 0..MaxRounds
        /\ exit \in Exits /\ moves \in 0..MaxMoves /\ confirmed \in BOOLEAN /\ declined \in BOOLEAN
    <3>1. /\ tries = 0 /\ page = 0 /\ match = {} /\ rounds = 0 /\ exit = "running" /\ moves = 0
          /\ confirmed = FALSE /\ declined = FALSE
      BY DEF Init
    <3>2. "running" \in Exits
      BY DEF Exits
    <3>3. moves \in 0..MaxMoves /\ rounds \in 0..MaxRounds /\ tries \in 0..RetryMax
      BY <3>1, CountsAssumption
    <3>4. page \in 0..3 /\ match \subseteq Id
      BY <3>1
    <3> QED BY <3>1, <3>2, <3>3, <3>4
  <2>4. given \subseteq Facts(cmd)
    BY OptionsType DEF Init
  <2>5. Tracked = TrackedBy(cmd)
    BY DEF Init, Tracked
  <2>6. /\ held \in [TrackedBy(cmd) -> {0} \cup Id] /\ wire \subseteq Steps \X ({0} \cup Id)
        /\ things \in [TrackedBy(cmd) -> [Id -> Names]] /\ applied \in [Steps -> Nat]
        /\ hit \subseteq TrackedBy(cmd) \X Id /\ wire = {}
    BY DEF Init
  <2>7. bore \in [TrackedBy(cmd) -> SUBSET Id] /\ absent \subseteq TrackedBy(cmd)
    BY <2>5 DEF Init, Bearers
  <2> QED BY <2>1, <2>2, <2>3, <2>4, <2>6, <2>7 DEF TypeOK
<1>2. TypeOK /\ [Next]_vars => TypeOK'
  BY TypeStep
<1> QED BY <1>1, <1>2, PTL DEF Spec
-----------------------------------------------------------------------------
(* What a step may do, all told. *)

\* From step to step, or back; given more and more.
MovesOn == /\ pc' <= pc \/ (pc' = pc + 1 /\ pc \in Steps)
           /\ given' = given \/ (pc' = pc + 1 /\ pc \in Steps /\ given' = given \cup ({here.fact} \ {""}))
\* A yes stays a yes, and nobody gets past a consent that is due without one.
Confirms == /\ confirmed => confirmed'
            /\ pc' = pc + 1 /\ pc \in Steps /\ here.do = "consent" /\ "no" \notin here.soft /\ Due(pc)
               => confirmed'
\* Only what is due is sent or carried out, and nothing that must be done is passed over.
Carries == /\ \A i \in Steps : /\ applied'[i] >= applied[i]
                               /\ \/ applied'[i] = applied[i]
                                  \/ i = pc /\ Due(pc)
                                  \/ \E w \in wire : w[1] = i
           /\ \A w \in wire' : w \in wire \/ (pc \in Steps /\ w[1] = pc /\ Due(pc))
           /\ pc' = pc + 1 /\ pc \in Steps /\ here.do = "call" /\ Must(prog, pc) /\ Due(pc)
              => applied'[pc] > 0

LEMMA LeavingMoves ==
    ASSUME TypeOK, pc \in Steps,
           \/ advance \/ learn \/ Repeat \/ askAgain \/ Quit(exit')
           \/ UNCHANGED <<given, pc>>
    PROVE  MovesOn
<1>1. pc \in Nat
  BY HereType
<1>2. CASE advance \/ Repeat \/ askAgain \/ Quit(exit') \/ UNCHANGED <<given, pc>>
  <2>1. given' = given
    BY <1>2 DEF advance, Repeat, askAgain, Quit
  <2>2. pc' \in {pc + 1, pc, pc - 1}
    BY <1>2 DEF advance, Repeat, askAgain, Quit
  <2> QED BY <1>1, <2>1, <2>2 DEF MovesOn
<1>3. CASE learn
  BY <1>1, <1>3 DEF MovesOn, learn
<1> QED BY <1>2, <1>3

LEMMA FailMoves ==
    ASSUME TypeOK, pc \in Steps, NEW a \in Failures, Fail(a)
    PROVE  MovesOn /\ (here.soft = {} => pc' = pc)
<1>1. MovesOn
  BY LeavingMoves DEF Fail, Quit
<1>2. here.soft = {} => pc' = pc
  BY DEF Fail, Quit
<1> QED BY <1>1, <1>2

LEMMA RetryMoves ==
    ASSUME TypeOK, pc \in Steps, retry
    PROVE  MovesOn /\ (here.soft = {} => pc' = pc)
<1>1. CASE UNCHANGED <<given, pc>>
  BY <1>1, LeavingMoves
<1>2. CASE Fail("silence")
  BY <1>2, FailMoves DEF Failures
<1> QED BY <1>1, <1>2 DEF retry

\* A step that leaves the server alone, and is not a request that must be carried out.
LEMMA NothingCarried ==
    ASSUME TypeOK, UNCHANGED <<applied, wire>>,
           pc \in Steps /\ here.do = "call" /\ Must(prog, pc) /\ Due(pc) => pc' # pc + 1
    PROVE  Carries
BY DEF Carries, TypeOK

LEMMA EffectCarries ==
    ASSUME TypeOK, NEW i \in Steps, NEW t, Effect(i, t)
    PROVE  /\ \A k \in Steps : applied'[k] >= applied[k] /\ (applied'[k] = applied[k] \/ k = i)
           /\ Writes(prog[i].req) => applied'[i] > 0
BY DEF Effect, TypeOK

LEMMA StepsAreOrderly ==
    ASSUME TypeOK, [Next]_vars
    PROVE  UNCHANGED program /\ MovesOn /\ Confirms /\ Carries
<1> USE DEF At
<1>0. pc \in Steps => here = prog[pc]
  BY DEF here
<1>1. CASE Skip
  <2>1. MovesOn
    BY <1>1, LeavingMoves DEF Skip
  <2> QED BY <1>1, <2>1, NothingCarried DEF Skip, local, user, server, Confirms, here
<1>2. CASE check
  <2>1. MovesOn
    BY <1>2, LeavingMoves DEF check, Quit
  <2> QED BY <1>2, <2>1, NothingCarried DEF check, local, user, server, Confirms, here
<1>3. CASE whether
  <2>1. MovesOn
    BY <1>3, LeavingMoves DEF whether
  <2> QED BY <1>3, <2>1, NothingCarried DEF whether, local, user, server, Confirms, here
<1>4. CASE stop
  <2>1. MovesOn
    BY <1>4, LeavingMoves DEF stop, Quit
  <2> QED BY <1>4, <2>1, NothingCarried DEF stop, local, user, server, Confirms, here
<1>5. CASE ask
  <2>1. MovesOn /\ UNCHANGED confirmed
    BY <1>5, LeavingMoves DEF ask, Decline, Quit, user
  <2> QED BY <1>5, <2>1, NothingCarried DEF ask, local, server, Confirms, here
<1>6. CASE ConfirmOrForce
  <2>1. MovesOn
    BY <1>6, LeavingMoves DEF ConfirmOrForce, Decline, Quit, user
  <2>2. Confirms
    <3>1. CASE confirmed' = TRUE
      BY <3>1 DEF Confirms
    <3>2. CASE Decline
      BY <1>6, <3>2, HereType DEF Decline, Quit, Confirms
    <3>3. CASE Quit(here.code) /\ UNCHANGED user
      BY <1>6, <3>3, HereType DEF Quit, user, Confirms
    <3> QED BY <1>6, <3>1, <3>2, <3>3 DEF ConfirmOrForce
  <2> QED BY <1>6, <2>1, <2>2, NothingCarried DEF ConfirmOrForce, local, server, here
<1>7. CASE writeFile
  <2>1. MovesOn
    BY <1>7, LeavingMoves DEF writeFile, Quit
  <2>2. Carries
    <3>1. \A i \in Steps : applied'[i] = applied[i] \/ (i = pc /\ applied'[i] = applied[i] + 1)
      BY <1>7 DEF writeFile, TypeOK
    <3>2. \A i \in Steps : applied[i] \in Nat
      BY DEF TypeOK
    <3>3. \A i \in Steps : applied'[i] >= applied[i] /\ (applied'[i] = applied[i] \/ (i = pc /\ Due(pc)))
      BY <1>7, <3>1, <3>2 DEF writeFile
    <3> QED BY <1>7, <3>3 DEF writeFile, Carries, here
  <2> QED BY <1>7, <2>1, <2>2 DEF writeFile, user, Confirms, here
<1>8. CASE End
  <2>1. pc \notin Steps
    BY <1>8, HereType DEF End
  <2>2. MovesOn
    BY <1>8, HereType DEF End, Quit, MovesOn, TypeOK
  <2> QED BY <1>8, <2>1, <2>2, NothingCarried DEF End, local, user, server, Confirms, here
<1>9. CASE Unanswered
  <2>1. MovesOn /\ (here.soft = {} => pc' = pc)
    BY <1>9, RetryMoves DEF Unanswered
  <2>2. Carries
    BY <1>9, <2>1, HereType, NothingCarried DEF Unanswered, server, Must, here
  <2> QED BY <1>9, <2>1, <2>2 DEF Unanswered, user, Confirms, here
<1>10. CASE LoseAnswer
  <2>1. MovesOn /\ (here.soft = {} => pc' = pc)
    BY <1>10, RetryMoves DEF LoseAnswer
  <2>2. PICK t \in Subjects(here.req) : Effect(pc, t)
    BY <1>10 DEF LoseAnswer
  <2>3. Carries
    BY <1>10, <2>1, <2>2, HereType, EffectCarries DEF LoseAnswer, Carries, Must, here
  <2> QED BY <1>10, <2>1, <2>3 DEF LoseAnswer, user, Confirms, here
<1>11. CASE Delay
  <2>1. MovesOn /\ (here.soft = {} => pc' = pc)
    BY <1>11, RetryMoves DEF Delay
  <2>2. Carries
    BY <1>11, <2>1, HereType DEF Delay, Carries, Must, here, TypeOK
  <2> QED BY <1>11, <2>1, <2>2 DEF Delay, user, Confirms, here
<1>12. CASE Succeed
  <2>1. MovesOn
    BY <1>12, LeavingMoves DEF Succeed
  <2>2. PICK t \in Subjects(here.req) : Effect(pc, t)
    BY <1>12 DEF Succeed
  <2>3. Carries
    BY <1>12, <2>2, EffectCarries DEF Succeed, Carries, Must, here
  <2> QED BY <1>12, <2>1, <2>3 DEF Succeed, user, Confirms, here
<1>13. CASE Refuse
  <2>1. PICK a \in {"notFound", "unauthorized", "refused"} : Fail(a)
    BY <1>13 DEF Refuse
  <2>2. MovesOn /\ (here.soft = {} => pc' = pc)
    BY <1>13, <2>1, FailMoves DEF Refuse, Failures
  <2>3. Carries
    BY <1>13, <2>2, HereType, NothingCarried DEF Refuse, server, Must, here
  <2> QED BY <1>13, <2>2, <2>3 DEF Refuse, user, Confirms, here
<1>14. CASE turnPage \/ anotherPage
  <2>1. MovesOn /\ pc' = pc
    BY <1>14, LeavingMoves DEF turnPage, anotherPage
  <2> QED BY <1>14, <2>1, HereType, NothingCarried DEF turnPage, anotherPage, user, server, Confirms, here
<1>15. CASE choose
  <2>1. MovesOn
    BY <1>15, LeavingMoves DEF choose, Miss, Quit
  <2> QED BY <1>15, <2>1, NothingCarried DEF choose, user, server, Confirms, here
<1>16. CASE Elsewhere
  <2>1. MovesOn /\ pc' = pc
    BY <1>16, HereType DEF Elsewhere, client, MovesOn, TypeOK
  <2> QED BY <1>16, <2>1, HereType, NothingCarried DEF Elsewhere, client, Confirms, here
<1>17. CASE Arrive
  <2>1. MovesOn /\ pc' = pc
    BY <1>17, HereType DEF Arrive, client, MovesOn, TypeOK
  <2>2. PICK w \in wire :
           /\ wire' = wire \ {w}
           /\ \/ Effect(w[1], w[2])
              \/ UNCHANGED applied
    BY <1>17 DEF Arrive
  <2>3. w[1] \in Steps
    BY DEF TypeOK
  <2>4. Carries
    <3>1. ASSUME NEW i \in Steps
          PROVE  applied'[i] >= applied[i] /\ (applied'[i] = applied[i] \/ i = w[1])
      <4>1. CASE Effect(w[1], w[2])
        BY <2>3, <3>1, <4>1, EffectCarries
      <4>2. CASE UNCHANGED applied
        BY <3>1, <4>2 DEF TypeOK
      <4> QED BY <2>2, <4>1, <4>2
    <3>2. pc \in Steps => pc' # pc + 1
      BY <2>1, HereType
    <3> QED BY <2>2, <3>1, <3>2 DEF Carries
  <2> QED BY <1>17, <2>1, <2>4, HereType DEF Arrive, client, Confirms, here
<1>18. CASE UNCHANGED vars
  <2>1. MovesOn /\ pc' = pc
    BY <1>18, HereType DEF vars, client, MovesOn, TypeOK
  <2> QED BY <1>18, <2>1, HereType, NothingCarried DEF vars, client, server, Confirms, here
<1> QED
  BY <1>1, <1>2, <1>3, <1>4, <1>5, <1>6, <1>7, <1>8, <1>9, <1>10, <1>11, <1>12, <1>13, <1>14,
     <1>15, <1>16, <1>17, <1>18 DEF Next, progress, Done

-----------------------------------------------------------------------------
(* Nothing is ended that the user was not asked about.                     *)

\* Past a consent that was due, there is a yes; what is still on its way was sent after it.
ConsentInv ==
    /\ \A j \in Steps : /\ j < pc /\ prog[j].do = "consent" /\ "no" \notin prog[j].soft
                        /\ Known(prog, j) /\ Due(j)
                        => confirmed
    /\ \A w \in wire : Destroys(prog[w[1]].req) => confirmed
    /\ NothingUnconfirmed

\* Whether a step is due does not change when the command has passed it.
LEMMA DueStays ==
    ASSUME TypeOK, UNCHANGED program, MovesOn, NEW j \in Steps, j <= pc, Known(prog, j), Due(j)'
    PROVE  Due(j)
<1>1. CASE given' = given
  BY <1>1 DEF Due, program
<1>2. CASE pc' = pc + 1 /\ pc \in Steps /\ given' = given \cup ({here.fact} \ {""})
  <2>1. here.fact \notin prog[j].when
    BY <1>2 DEF Known, Steps, here
  <2>2. prog[j].when \subseteq given' /\ prog[j].unless \cap given' = {}
    BY DEF Due, program
  <2> QED BY <1>2, <2>1, <2>2 DEF Due
<1> QED BY <1>1, <1>2 DEF MovesOn

\* What cannot be had back is ended only after a yes or under --force, by every command whose
\* steps ask before they end anything, whatever is lost, late or tried again.
THEOREM Unconfirmed == ASSUME ConsentFirst PROVE Spec => []NothingUnconfirmed
<1>1. Init => ConsentInv
  <2>1. Init => \A i \in Steps : i \in Nat \ {0}
    BY ProgramAssumption DEF Init, Steps
  <2> QED BY <2>1 DEF Init, ConsentInv, NothingUnconfirmed
<1>2. TypeOK /\ ConsentInv /\ [Next]_vars => ConsentInv'
  <2> SUFFICES ASSUME TypeOK, ConsentInv, [Next]_vars PROVE ConsentInv'
    OBVIOUS
  <2>1. UNCHANGED program /\ MovesOn /\ Confirms /\ Carries
    BY StepsAreOrderly
  <2>2. prog' = prog /\ Steps' = Steps /\ pc \in Nat /\ \A i \in Steps : i \in Nat
    BY <2>1, HereType DEF program, Steps, TypeOK
  <2>3. pc \in Steps /\ Due(pc) /\ Destroys(prog[pc].req) => confirmed
    <3> SUFFICES ASSUME pc \in Steps, Due(pc), Destroys(prog[pc].req) PROVE confirmed
      OBVIOUS
    <3>1. PICK j \in Steps : /\ j < pc /\ prog[j].do = "consent" /\ "no" \notin prog[j].soft
                             /\ Known(prog, j)
                             /\ prog[j].when \subseteq prog[pc].when /\ prog[j].unless \subseteq prog[pc].unless
      BY DEF ConsentFirst, AsksBefore, TypeOK, Steps
    <3>2. Due(j)
      BY <3>1 DEF Due
    <3> QED BY <3>1, <3>2 DEF ConsentInv
  <2>4. ASSUME NEW j \in Steps, j < pc', prog[j].do = "consent", "no" \notin prog[j].soft,
               Known(prog, j), Due(j)'
        PROVE  confirmed'
    <3>1. j < pc \/ (j = pc /\ pc' = pc + 1)
      <4>1. pc' <= pc \/ pc' = pc + 1
        BY <2>1 DEF MovesOn
      <4>2. pc' \in Int
        BY TypeStep DEF TypeOK
      <4> QED BY <2>2, <2>4, <4>1, <4>2
    <3>2. j <= pc
      BY <2>2, <3>1
    <3>3. Due(j)
      BY <2>1, <2>4, <3>2, DueStays
    <3>4. CASE j < pc
      BY <2>1, <2>4, <3>3, <3>4 DEF ConsentInv, Confirms
    <3>5. CASE j = pc /\ pc' = pc + 1
      BY <2>1, <2>4, <3>3, <3>5 DEF Confirms, here
    <3> QED BY <3>1, <3>4, <3>5
  <2>5. ASSUME NEW w \in wire', Destroys(prog[w[1]].req) PROVE confirmed'
    BY <2>1, <2>3, <2>5 DEF ConsentInv, Carries, Confirms
  <2>6. ASSUME NEW i \in Steps, applied'[i] > 0, Destroys(prog[i].req) PROVE confirmed'
    <3>1. CASE applied'[i] = applied[i]
      BY <2>1, <2>6, <3>1 DEF ConsentInv, NothingUnconfirmed, Confirms
    <3>2. CASE i = pc /\ Due(pc)
      BY <2>1, <2>3, <2>6, <3>2 DEF Confirms
    <3>3. CASE \E w \in wire : w[1] = i
      BY <2>1, <2>6, <3>3 DEF ConsentInv, Confirms
    <3> QED BY <2>1, <3>1, <3>2, <3>3 DEF Carries
  <2> QED BY <2>2, <2>4, <2>5, <2>6 DEF ConsentInv, NothingUnconfirmed
<1>3. ConsentInv => NothingUnconfirmed
  BY DEF ConsentInv
<1> QED BY <1>1, <1>2, <1>3, TypeCorrect, PTL DEF Spec

(* Exit code 0 is the truth.                                               *)

TruthInv == /\ \A i \in Steps : i < pc /\ Due(i) /\ Must(prog, i) => applied[i] > 0
            /\ ReportsTruth

\* Whatever was lost or tried again: a command that exits 0 has had each request carried out
\* that was due and must not fail, if it knows what is due by the time it gets there.
THEOREM Truth == ASSUME DueIsKnown PROVE Spec => []ReportsTruth
<1>1. Init => TruthInv
  <2>1. Init => \A i \in Steps : i \in Nat \ {0}
    BY ProgramAssumption DEF Init, Steps
  <2> QED BY <2>1 DEF Init, TruthInv, ReportsTruth
<1>2. TypeOK /\ TruthInv /\ [Next]_vars => TruthInv'
  <2> SUFFICES ASSUME TypeOK, TruthInv, [Next]_vars PROVE TruthInv'
    OBVIOUS
  <2>1. UNCHANGED program /\ MovesOn /\ Carries
    BY StepsAreOrderly
  <2>2. prog' = prog /\ Steps' = Steps /\ Steps = 1..Len(prog) /\ Len(prog) \in Nat /\ pc \in Nat
    BY <2>1, HereType DEF program, Steps, TypeOK
  <2>3. ASSUME NEW i \in Steps, i < pc', Due(i)', Must(prog, i)
        PROVE  applied'[i] > 0
    <3>1. prog[i].do = "call" /\ Known(prog, i)
      BY <2>3 DEF DueIsKnown, TypeOK, Steps
    <3>2. i < pc \/ (i = pc /\ pc' = pc + 1)
      <4>1. pc' <= pc \/ pc' = pc + 1
        BY <2>1 DEF MovesOn
      <4>2. pc' \in Int
        BY TypeStep DEF TypeOK
      <4> QED BY <2>2, <2>3, <4>1, <4>2
    <3>3. Due(i)
      <4>1. i <= pc
        BY <2>2, <3>2
      <4> QED BY <2>1, <2>3, <3>1, <4>1, DueStays
    <3>4. CASE i < pc
      <4>1. applied[i] > 0 /\ applied'[i] >= applied[i]
        BY <2>1, <2>3, <3>3, <3>4 DEF TruthInv, Carries
      <4>2. applied[i] \in Nat /\ applied'[i] \in Nat
        BY <2>2, TypeStep DEF TypeOK
      <4> QED BY <4>1, <4>2
    <3>5. CASE i = pc /\ pc' = pc + 1
      BY <2>1, <2>3, <3>1, <3>3, <3>5 DEF Carries, here
    <3> QED BY <3>2, <3>4, <3>5
  <2>4. TypeOK'
    BY TypeStep
  <2>5. \A i \in 1..(pc' - 1) : i \in Steps /\ i < pc'
    <3>1. pc' \in 1..(Len(prog) + 1)
      BY <2>2, <2>4 DEF TypeOK
    <3>2. ASSUME NEW n \in Nat, NEW m \in 1..(n + 1), NEW i \in 1..(m - 1)
          PROVE  i \in 1..n /\ i < m
      OBVIOUS
    <3> QED BY <2>2, <3>1, <3>2
  <2>6. \A i \in Steps : i < pc' /\ Due(i)' /\ Must(prog', i) => applied'[i] > 0
    BY <2>2, <2>3
  <2>7. ReportsTruth'
    BY <2>5, <2>6 DEF ReportsTruth
  <2> QED BY <2>2, <2>6, <2>7 DEF TruthInv
<1>3. TruthInv => ReportsTruth
  BY DEF TruthInv
<1> QED BY <1>1, <1>2, <1>3, TypeCorrect, PTL DEF Spec

-----------------------------------------------------------------------------
(* "Not found" is the truth.                                               *)

\* What of a list has been looked at.
Seen == IF page = 0 THEN {} ELSE IF once THEN Id ELSE 1..page

Searching(k) == pc \in Steps /\ here.do = "find" /\ here.req.kind = k

\* While nothing bearing the name was found, and there always was such a thing, it is on
\* a page that is still to come.
MissInv == /\ \A k \in Tracked : Bearers(k) = {} => k \in absent
           /\ \A k \in Tracked : Searching(k) /\ match = {} /\ k \notin absent => Bearers(k) \cap Seen = {}

\* Nothing comes to bear a name that something has borne all the time.
BearersShrink ==
    \A k \in Tracked : /\ Bearers(k)' = {} => k \in absent'
                       /\ k \notin absent' => k \notin absent /\ Bearers(k)' \subseteq Bearers(k)

LEMMA BearersStay ==
    ASSUME TypeOK, MissInv, UNCHANGED <<things, absent>>
    PROVE  BearersShrink
BY DEF MissInv, BearersShrink, Bearers

LEMMA RenameShrinks ==
    ASSUME TypeOK, MissInv, NEW k \in Tracked, NEW t \in Id, NEW n \in Names, Rename(k, t, n), remember,
           n = "wanted" => Bearers(k) = {}
    PROVE  BearersShrink
<1>1. Tracked' = Tracked
  BY DEF Rename, Tracked
<1>2. \A l \in Tracked : Bearers(l)' = {} => l \in absent'
  BY <1>1 DEF remember, Bearers
<1>3. absent \subseteq absent'
  BY DEF remember
<1>4. ASSUME NEW l \in Tracked, l \notin absent' PROVE Bearers(l)' \subseteq Bearers(l)
  <2>1. Bearers(l) # {}
    BY <1>3, <1>4 DEF MissInv
  <2>2. \A u \in Id : things'[l][u] = things[l][u] \/ (l = k /\ u = t /\ things'[l][u] = n)
    BY TrackedType DEF Rename, TypeOK
  <2> QED BY <2>1, <2>2 DEF Bearers
<1> QED BY <1>2, <1>3, <1>4 DEF BearersShrink

LEMMA EffectShrinks ==
    ASSUME TypeOK, MissInv, NEW i \in Steps, NEW t \in {0} \cup Id, t # 0 => prog[i].req.kind \in Tracked,
           Effect(i, t)
    PROVE  BearersShrink
<1>1. CASE Writes(prog[i].req) /\ t # 0 /\ prog[i].req.verb = "delete"
  BY <1>1, RenameShrinks DEF Effect, Names
<1>2. CASE Writes(prog[i].req) /\ ~(t # 0 /\ prog[i].req.verb = "delete")
  <2>1. UNCHANGED things /\ remember
    BY <1>2 DEF Effect
  <2>2. absent' = absent
    BY <2>1 DEF MissInv, remember, Bearers
  <2> QED BY <2>1, <2>2, BearersStay
<1>3. CASE ~Writes(prog[i].req)
  BY <1>3, BearersStay DEF Effect
<1> QED BY <1>1, <1>2, <1>3

LEMMA NamesShrink ==
    ASSUME TypeOK, MissInv, [Next]_vars
    PROVE  BearersShrink
<1>1. CASE LoseAnswer \/ Succeed
  <2>1. pc \in Steps
    BY <1>1 DEF LoseAnswer, Succeed, At
  <2>2. PICK t \in Subjects(here.req) : Effect(pc, t)
    BY <1>1 DEF LoseAnswer, Succeed
  <2> QED BY <2>1, <2>2, SubjectsType, EffectShrinks DEF here
<1>2. CASE Arrive
  <2>1. PICK w \in wire : Effect(w[1], w[2]) \/ UNCHANGED <<things, absent>>
    BY <1>2 DEF Arrive
  <2>2. w[1] \in Steps /\ w[2] \in {0} \cup Id /\ (w[2] # 0 => prog[w[1]].req.kind \in Tracked)
    BY TrackedType DEF TypeOK
  <2> QED BY <2>1, <2>2, EffectShrinks, BearersStay
<1>3. CASE Elsewhere
  BY <1>3, RenameShrinks DEF Elsewhere
<1>4. CASE UNCHANGED <<things, absent>>
  BY <1>4, BearersStay
<1>5. \/ LoseAnswer \/ Succeed \/ Arrive \/ Elsewhere
      \/ UNCHANGED <<things, absent>>
  BY DEF Next, progress, Done, vars, server, local, Skip, check, whether, stop, ask, ConfirmOrForce,
         writeFile, End, Unanswered, Delay, Refuse, turnPage, anotherPage, choose
<1> QED BY <1>1, <1>2, <1>3, <1>4, <1>5

\* A list is read on, or left alone, or left.
LEMMA ListsAreRead ==
    ASSUME TypeOK, [Next]_vars
    PROVE  page' = 0 \/ turnPage \/ anotherPage \/ UNCHANGED <<pc, page, match>>
<1>1. ASSUME NEW a, Fail(a) PROVE page' = 0
  BY <1>1 DEF Fail, askAgain, learn, Quit, fresh
<1>2. ASSUME retry PROVE page' = 0 \/ UNCHANGED <<pc, page, match>>
  BY <1>1, <1>2 DEF retry
<1>3. CASE Skip \/ check \/ whether \/ stop \/ ask \/ ConfirmOrForce \/ writeFile \/ End \/ Succeed \/ choose
  <2>1. \/ advance \/ learn \/ Repeat \/ Quit(exit')
    BY <1>3 DEF Skip, check, whether, stop, ask, Decline, ConfirmOrForce, writeFile, End, Succeed, choose, Miss, Quit
  <2> QED BY <2>1 DEF advance, learn, Repeat, Quit, fresh
<1>4. CASE Unanswered \/ LoseAnswer \/ Delay
  BY <1>2, <1>4 DEF Unanswered, LoseAnswer, Delay
<1>5. CASE Refuse
  BY <1>1, <1>5 DEF Refuse
<1>6. CASE Elsewhere \/ Arrive \/ UNCHANGED vars
  BY <1>6 DEF Elsewhere, Arrive, vars, client
<1> QED BY <1>3, <1>4, <1>5, <1>6 DEF Next, progress, Done

\* A command that says "not found" about a name is right: at some moment since it began nothing
\* bore that name, on whatever page and however much is renamed while it reads.
THEOREM MissTrue == Spec => MissIsTrue
<1>1. Init => MissInv
  BY DEF Init, MissInv, Seen
<1>2. TypeOK /\ MissInv /\ [Next]_vars => MissInv'
  <2> SUFFICES ASSUME TypeOK, MissInv, [Next]_vars PROVE MissInv'
    OBVIOUS
  <2>1. BearersShrink /\ TypeOK' /\ UNCHANGED program
    BY NamesShrink, TypeStep, StepsAreOrderly
  <2>2. Tracked' = Tracked /\ Steps' = Steps /\ prog' = prog
    BY <2>1, TrackedType DEF program, Steps, TypeOK, Tracked
  <2>3. ASSUME NEW k \in Tracked PROVE (Bearers(k) = {} => k \in absent)'
    BY <2>1, <2>3 DEF BearersShrink, Bearers
  <2>4. ASSUME NEW k \in Tracked, (Searching(k) /\ match = {} /\ k \notin absent)'
        PROVE  (Bearers(k) \cap Seen = {})'
    <3>0. k \notin absent /\ Bearers(k)' \subseteq Bearers(k) /\ pc' \in Steps /\ match' = {}
      BY <2>1, <2>2, <2>4 DEF BearersShrink, Searching, Bearers
    <3>1. CASE page' = 0
      BY <3>1 DEF Seen
    <3>2. CASE UNCHANGED <<pc, page, match>>
      <4>1. here' = here /\ Seen' = Seen
        BY <2>2, <3>2 DEF here, Seen, once
      <4>2. Bearers(k) \cap Seen = {}
        BY <2>2, <2>4, <3>0, <3>2, <4>1 DEF MissInv, Searching
      <4> QED BY <3>0, <4>1, <4>2
    <3>3. CASE turnPage
      <4>1. pc \in Steps /\ here.do = "find" /\ pc' = pc /\ page' = page + 1
        BY <3>3 DEF turnPage, At, here
      <4>2. here' = here /\ here.req.kind = k
        BY <2>2, <2>4, <4>1 DEF here, Searching
      <4>3. match = {} /\ Bearers(k) \cap (IF once THEN Id ELSE {page + 1}) = {}
        BY <3>0, <3>3, <4>2 DEF turnPage
      <4>4. Bearers(k) \cap Seen = {}
        BY <3>0, <4>1, <4>2, <4>3 DEF MissInv, Searching
      <4>5. page \in 0..3 /\ once' = once
        BY <4>2 DEF TypeOK, once
      <4>6. CASE once
        <5>1. Seen' \subseteq Id
          BY <4>1, <4>5, <4>6 DEF Seen
        <5> QED BY <3>0, <4>3, <4>6, <5>1
      <4>7. CASE ~once
        <5>1. Seen' = 1..(page + 1) /\ Seen = (IF page = 0 THEN {} ELSE 1..page)
          BY <4>1, <4>5, <4>7 DEF Seen
        <5>2. ASSUME NEW u \in 1..(page + 1) PROVE u = page + 1 \/ (page # 0 /\ u \in 1..page)
          BY <4>5
        <5>3. Seen' \subseteq Seen \cup {page + 1}
          BY <5>1, <5>2
        <5> QED BY <3>0, <4>3, <4>4, <4>7, <5>3
      <4> QED BY <4>6, <4>7
    <3>4. CASE anotherPage
      <4>1. pc' = pc /\ UNCHANGED match /\ page >= pages /\ page' \in {pages, pages + 1}
        BY <3>4 DEF anotherPage
      <4>2. here' = here /\ Searching(k) /\ once' = once
        BY <2>2, <2>4, <4>1 DEF here, once, Searching
      <4>3. Bearers(k) \cap Seen = {}
        BY <3>0, <4>1, <4>2 DEF MissInv
      <4>4. pages = 2 /\ ~once /\ page \in 0..3
        <5>1. pages = Cardinality(Id) /\ ~once /\ page \in 0..3
          BY <3>4, <4>2 DEF anotherPage, pages, once, At, Searching, here, TypeOK
        <5> QED BY <5>1, CardinalityOfId
      <4>5. Seen = 1..page /\ Id \subseteq Seen
        BY <4>1, <4>4 DEF Seen, Id
      <4> QED BY <3>0, <4>3, <4>5 DEF Bearers
    <3> QED BY <3>1, <3>2, <3>3, <3>4, ListsAreRead
  <2>5. (\A k \in Tracked : Bearers(k) = {} => k \in absent)'
    BY <2>2, <2>3
  <2>6. (\A k \in Tracked : Searching(k) /\ match = {} /\ k \notin absent => Bearers(k) \cap Seen = {})'
    BY <2>2, <2>4
  <2> QED BY <2>5, <2>6 DEF MissInv
<1>3. TypeOK /\ MissInv /\ [Next]_vars => [choose /\ exit' # "running" => here.req.kind \in absent]_vars
  <2> SUFFICES ASSUME TypeOK, MissInv, choose, exit' # "running", here.req.kind \notin absent
               PROVE  FALSE
    OBVIOUS
  <2>1. pc \in Steps /\ here.do = "find" /\ exit = "running" /\ page >= pages /\ page \in 0..3
    BY DEF choose, At, here, running, TypeOK
  <2>2. match = {}
    BY <2>1 DEF choose, advance
  <2>3. here.req.kind \in Tracked
    BY <2>1, TrackedType DEF here
  <2>4. Id \subseteq Seen
    <3>1. pages = IF once THEN 1 ELSE Cardinality(Id)
      BY <2>1 DEF pages, At, here
    <3>2. Cardinality(Id) = 2
      BY CardinalityOfId
    <3> QED BY <2>1, <3>1, <3>2 DEF Seen, Id
  <2>5. Bearers(here.req.kind) = {}
    BY <2>1, <2>2, <2>3, <2>4 DEF MissInv, Bearers, Searching
  <2> QED BY <2>3, <2>5 DEF MissInv
<1> QED BY <1>1, <1>2, <1>3, TypeCorrect, PTL DEF Spec, MissIsTrue
-----------------------------------------------------------------------------
(* How a command ends.                                                      *)

\* It ends at the step it is at, with one of the codes of that step, or after the last.
Ends == \/ exit' = exit
        \/ exit = "running" /\ exit' = "ok"
        \/ /\ exit = "running" /\ pc \in Steps /\ pc' = pc
           /\ exit' \in {here.code, here.miss, "auth", "api"}
\* It goes on to the next step, stays, or goes back by one that is done again.
Goes == pc' = pc + 1 \/ pc' = pc \/ (pc \in Steps /\ here.again /\ pc' = pc - 1)

LEMMA FailEnds ==
    ASSUME exit = "running", pc \in Steps, NEW a, Fail(a)
    PROVE  Ends /\ Goes
<1>1. CASE a \in here.soft
  BY <1>1 DEF Fail, askAgain, learn, Ends, Goes
<1>2. CASE a \notin here.soft
  <2>1. ByAnswer(a) \in {here.code, here.miss, "auth", "api"}
    BY DEF ByAnswer
  <2> QED BY <1>2, <2>1 DEF Fail, Quit, Ends, Goes
<1> QED BY <1>1, <1>2

LEMMA RetryEnds ==
    ASSUME exit = "running", pc \in Steps, retry
    PROVE  Ends /\ Goes
BY FailEnds DEF retry, Ends, Goes

LEMMA StepsEnd ==
    ASSUME TypeOK, [Next]_vars
    PROVE  Ends /\ Goes
<1> USE DEF At, running
<1>1. CASE Skip \/ check \/ whether \/ stop \/ ask \/ ConfirmOrForce \/ writeFile
  <2>1. exit = "running" /\ pc \in Steps
    BY <1>1 DEF Skip, check, whether, stop, ask, ConfirmOrForce, writeFile
  <2>2. advance \/ learn \/ Repeat \/ Quit(here.code) \/ Quit(here.miss)
    BY <1>1 DEF Skip, check, whether, stop, ask, ConfirmOrForce, Decline, writeFile
  <2> QED BY <2>1, <2>2 DEF advance, learn, Repeat, Quit, Ends, Goes
<1>2. CASE End
  BY <1>2 DEF End, Quit, Ends, Goes
<1>3. CASE Unanswered \/ LoseAnswer \/ Delay
  BY <1>3, RetryEnds DEF Unanswered, LoseAnswer, Delay
<1>4. CASE Succeed
  BY <1>4 DEF Succeed, advance, Repeat, Ends, Goes
<1>5. CASE Refuse
  BY <1>5, FailEnds DEF Refuse
<1>6. CASE turnPage \/ anotherPage \/ choose
  BY <1>6 DEF turnPage, anotherPage, choose, Miss, advance, learn, Quit, Ends, Goes
<1>7. CASE Elsewhere \/ Arrive \/ UNCHANGED vars
  BY <1>7 DEF Elsewhere, Arrive, client, vars, Ends, Goes
<1> QED BY <1>1, <1>2, <1>3, <1>4, <1>5, <1>6, <1>7 DEF Next, progress, Done

\* Who leaves a prompt has ended the command, if that is what its prompts are for.
THEOREM NoEnds == ASSUME NoIsTheEnd PROVE Spec => []NoEndsIt
<1>1. Init => NoEndsIt
  BY DEF Init, NoEndsIt
<1>2. TypeOK /\ NoEndsIt /\ [Next]_vars => NoEndsIt'
  <2> SUFFICES ASSUME TypeOK, NoEndsIt, [Next]_vars, declined' PROVE exit' \notin {"running", "ok"}
    BY DEF NoEndsIt
  <2>1. CASE UNCHANGED <<declined, exit>>
    BY <2>1 DEF NoEndsIt
  <2>2. CASE exit = "running"
    <3>1. declined = FALSE
      BY <2>2 DEF NoEndsIt, TypeOK
    <3>2. /\ ask \/ ConfirmOrForce
          /\ Decline
      BY <2>1, <2>2, <3>1
         DEF Next, progress, Done, vars, client, local, user, Skip, check, whether, stop, ask, ConfirmOrForce,
             writeFile, End, Unanswered, LoseAnswer, Delay, Succeed, Refuse, turnPage, anotherPage, choose,
             Elsewhere, Arrive
    <3>3. pc \in Steps /\ here = prog[pc] /\ here.do \in {"ask", "consent"}
      BY <3>2 DEF ask, ConfirmOrForce, At, here
    <3>4. "no" \notin here.soft /\ here.miss \notin {"running", "ok"}
      BY <3>3 DEF NoIsTheEnd, TypeOK, Steps
    <3> QED BY <3>2, <3>4 DEF Decline, Quit
  <2>3. CASE exit # "running"
    BY <2>1, <2>3 DEF Next, progress, Done, vars, client, running, At, Skip, check, whether, stop, ask,
         ConfirmOrForce, writeFile, End, Unanswered, LoseAnswer, Delay, Succeed, Refuse, turnPage, anotherPage, choose,
         Elsewhere, Arrive
  <2> QED BY <2>2, <2>3
<1> QED BY <1>1, <1>2, TypeCorrect, PTL DEF Spec

\* Step i has been sent: it has been carried out, or is on its way.
Sent(i) == applied[i] > 0 \/ \E w \in wire : w[1] = i

\* What has been sent is not ahead, and only requests that change something are on their way.
LocalInv == /\ \A i \in Steps : Writes(prog[i].req) /\ Sent(i) => i <= pc
            /\ \A w \in wire : Writes(prog[w[1]].req)
            /\ LocalFailureChangesNothing

\* Requests on their way are those that were, or one that the step at hand gave up.
LEMMA WireGrows ==
    ASSUME TypeOK, [Next]_vars
    PROVE  \A w \in wire' : w \in wire \/ (pc \in Steps /\ w[1] = pc /\ Writes(prog[pc].req))
<1>1. CASE Delay
  BY <1>1 DEF Delay, At, here
<1>2. CASE Arrive
  BY <1>2 DEF Arrive
<1>3. wire' = wire \/ Delay \/ Arrive
  BY DEF Next, progress, Done, vars, local, server, Skip, check, whether, stop, ask, ConfirmOrForce,
         writeFile, End, Unanswered, LoseAnswer, Succeed, Refuse, turnPage, anotherPage, choose, Elsewhere
<1> QED BY <1>1, <1>2, <1>3

LEMMA SentBefore ==
    ASSUME TypeOK, [Next]_vars, NEW i \in Steps, Sent(i)'
    PROVE  Sent(i) \/ i = pc
<1>1. Carries
  BY StepsAreOrderly
<1>2. CASE applied'[i] > 0
  BY <1>1, <1>2 DEF Carries, Sent
<1>3. CASE \E w \in wire' : w[1] = i
  BY <1>1, <1>3 DEF Carries, Sent
<1> QED BY <1>2, <1>3 DEF Sent

\* A command that ends for a reason of its own has changed nothing, if its checks and prompts come
\* before its first change: neither has a request been carried out, nor is one on its way.
THEOREM LocalFailure == ASSUME ChecksFirst PROVE Spec => []LocalFailureChangesNothing
<1>1. Init => LocalInv
  BY DEF Init, LocalInv, Sent, LocalFailureChangesNothing, LocalEnds
<1>2. TypeOK /\ LocalInv /\ [Next]_vars => LocalInv'
  <2> SUFFICES ASSUME TypeOK, LocalInv, [Next]_vars PROVE LocalInv'
    OBVIOUS
  <2>1. UNCHANGED program /\ Ends /\ Goes /\ TypeOK'
    BY StepsAreOrderly, StepsEnd, TypeStep
  <2>2. prog' = prog /\ Steps' = Steps /\ pc \in Nat /\ \A i \in Steps : i \in Nat
    <3>1. pc \in 1..(Len(prog) + 1) /\ Len(prog) \in Nat /\ Steps = 1..Len(prog)
      BY HereType DEF TypeOK
    <3>2. prog' = prog /\ Steps' = Steps
      BY <2>1 DEF program, Steps
    <3> QED BY <3>1, <3>2
  <2>3. ASSUME NEW i \in Steps, Writes(prog[i].req)
        PROVE  ~prog[i].again /\ \A f \in Steps : i <= f => EndsAway(prog[f])
    BY <2>3 DEF ChecksFirst, TypeOK, Steps
  <2>4. ASSUME NEW i \in Steps, Writes(prog[i].req), Sent(i)' PROVE i <= pc /\ i <= pc'
    <3>1. i <= pc
      BY <2>2, <2>4, SentBefore DEF LocalInv
    <3>2. CASE pc' = pc + 1 \/ pc' = pc
      BY <2>2, <3>1, <3>2
    <3>3. CASE pc \in Steps /\ here.again /\ pc' = pc - 1
      <4>1. i # pc
        BY <2>3, <2>4, <3>3 DEF here
      <4> QED BY <2>2, <3>1, <3>3, <4>1
    <3> QED BY <2>1, <3>1, <3>2, <3>3 DEF Goes
  <2>5. ASSUME NEW w \in wire' PROVE Writes(prog[w[1]].req) /\ w[1] \in Steps
    BY <2>2, <2>1, WireGrows DEF LocalInv, TypeOK
  <2>6. ASSUME exit' \in LocalEnds PROVE \A i \in Steps : Writes(prog[i].req) => ~Sent(i)'
    <3> SUFFICES ASSUME NEW i \in Steps, Writes(prog[i].req), Sent(i)' PROVE FALSE
      OBVIOUS
    <3>1. CASE exit' = exit
      <4>1. wire = {} /\ applied[i] = 0
        BY <2>6, <3>1 DEF LocalInv, LocalFailureChangesNothing
      <4>2. ~running
        BY <2>6, <3>1 DEF running, LocalEnds
      <4>3. UNCHANGED <<applied, wire>>
        BY <4>1, <4>2 DEF Next, progress, Done, vars, server, At, Skip, check, whether, stop, ask,
             ConfirmOrForce, writeFile, End, Unanswered, LoseAnswer, Delay, Succeed, Refuse, turnPage, anotherPage, choose,
             Elsewhere, Arrive
      <4> QED BY <4>1, <4>3 DEF Sent
    <3>2. CASE pc \in Steps /\ pc' = pc /\ exit' \in {here.code, here.miss, "auth", "api"}
      <4>1. EndsAway(here)
        BY <2>3, <2>4, <3>2 DEF here
      <4> QED BY <2>6, <3>2, <4>1 DEF EndsAway, LocalEnds
    <3> QED BY <2>1, <2>6, <3>1, <3>2 DEF Ends, LocalEnds
  <2>7. LocalFailureChangesNothing'
    <3> SUFFICES ASSUME exit' \in LocalEnds
                 PROVE  wire' = {} /\ \A i \in Steps : Writes(prog[i].req) => applied'[i] = 0
      BY <2>2 DEF LocalFailureChangesNothing
    <3>1. \A i \in Steps : applied'[i] \in Nat
      BY <2>1, <2>2 DEF TypeOK
    <3> QED BY <2>5, <2>6, <3>1 DEF Sent
  <2> QED BY <2>2, <2>4, <2>5, <2>7 DEF LocalInv, Sent
<1>3. LocalInv => LocalFailureChangesNothing
  BY DEF LocalInv
<1> QED BY <1>1, <1>2, <1>3, TypeCorrect, PTL DEF Spec
-----------------------------------------------------------------------------
(* Nothing is changed but what has borne the name.                         *)

\* Nothing of kind k is looked up by name, now or later.
Unlooked(k) == \A f \in Steps : LooksUp(prog[f]) /\ prog[f].req.kind = k => ~Due(f) /\ Settled(prog, f)

\* What was found under the name has borne it; past a lookup that was due, something was found;
\* and what a request is or was about has borne the name, unless it is looked up by nobody.
NamedInv ==
    /\ \A k \in Tracked : Bearers(k) \subseteq bore[k]
    /\ \A k \in Tracked : held[k] # 0 => held[k] \in bore[k]
    /\ pc \in Steps /\ here.do = "find" => match \subseteq bore[here.req.kind]
    /\ \A f \in Steps :
          f < pc /\ FindsOut(prog[f]) /\ prog[f].soft = {} /\ Settled(prog, f) /\ Due(f)
          /\ prog[f].req.kind \in Tracked
          => held[prog[f].req.kind] # 0
    /\ \A x \in hit : x[2] \in bore[x[1]] \/ Unlooked(x[1])
    /\ \A w \in wire : w[2] # 0 => \/ w[2] \in bore[prog[w[1]].req.kind]
                                   \/ Unlooked(prog[w[1]].req.kind)

\* Whether a step whose facts are given from the start is due, a command may not find out late.
LEMMA SettledStays ==
    ASSUME TypeOK, UNCHANGED program, MovesOn, NEW f \in Steps, Settled(prog, f), Due(f)'
    PROVE  Due(f)
<1>1. CASE given' = given
  BY <1>1 DEF Due, program
<1>2. CASE pc \in Steps /\ given' = given \cup ({here.fact} \ {""})
  <2>1. here.fact \notin prog[f].when
    BY <1>2 DEF Settled, Steps, here
  <2>2. prog[f].when \subseteq given' /\ prog[f].unless \cap given' = {}
    BY DEF Due, program
  <2> QED BY <1>2, <2>1, <2>2 DEF Due
<1> QED BY <1>1, <1>2 DEF MovesOn

LEMMA UnlookedStays ==
    ASSUME TypeOK, UNCHANGED program, MovesOn, NEW k, Unlooked(k)
    PROVE  Unlooked(k)'
<1>1. prog' = prog /\ Steps' = Steps
  BY DEF program, Steps
<1>2. ASSUME NEW f \in Steps, LooksUp(prog[f]), prog[f].req.kind = k PROVE ~Due(f)' /\ Settled(prog, f)
  BY <1>2, SettledStays DEF Unlooked
<1> QED BY <1>1, <1>2 DEF Unlooked

\* What a request that changes something is about, has borne the name, or was not named.
LEMMA Aimed ==
    ASSUME NamesFirst, TypeOK, NamedInv, pc \in Steps, Due(pc), Writes(here.req),
           NEW t \in Subjects(here.req), t # 0
    PROVE  t \in bore[here.req.kind] \/ Unlooked(here.req.kind)
<1> DEFINE k == here.req.kind
<1>0. k \in Tracked /\ here.req.by # "none" /\ here = prog[pc]
  BY DEF Subjects, here
<1>1. CASE here.req.by = "name"
  BY <1>0, <1>1 DEF Subjects, NamedInv
<1>2. CASE here.req.by # "name" /\ ~Unlooked(k)
  <2>1. PICK f \in Steps : LooksUp(prog[f]) /\ prog[f].req.kind = k /\ (Due(f) \/ ~Settled(prog, f))
    BY <1>2 DEF Unlooked
  <2>2. here.req.by = "id"
    <3>1. here \in AllSteps
      BY <1>0, HereType
    <3>2. here.req.by \in {"id", "name", "none"}
      BY <3>1 DEF AllSteps
    <3> QED BY <1>0, <1>2, <3>2
  <2>3. f < pc /\ FindsOut(prog[f]) /\ prog[f].soft = {} /\ Settled(prog, f)
    BY <1>0, <2>1, <2>2 DEF NamesFirst, TypeOK, Steps
  <2>4. held[k] # 0 /\ held[k] \in bore[k]
    BY <1>0, <2>1, <2>3 DEF NamedInv
  <2>5. t = held[k]
    BY <1>0, <1>2, <2>4 DEF Subjects
  <2> QED BY <2>4, <2>5
<1> QED BY <1>1, <1>2

\* The names borne are remembered.
Remembers == /\ \A k \in Tracked : bore[k] \subseteq bore'[k]
             /\ \A k \in Tracked : Bearers(k)' \subseteq bore'[k]

LEMMA NamesRemembered ==
    ASSUME TypeOK, NamedInv, [Next]_vars
    PROVE  Remembers
<1>0. Tracked' = Tracked
  BY StepsAreOrderly, TypeStep, TrackedType DEF program, TypeOK, Tracked
<1>1. CASE UNCHANGED <<things, bore>>
  BY <1>1 DEF Remembers, NamedInv, Bearers
<1>2. CASE remember
  BY <1>2 DEF Remembers, remember, Bearers
<1>3. remember \/ UNCHANGED <<things, bore>>
  <2>1. CASE LoseAnswer \/ Succeed \/ Arrive
    BY <2>1 DEF LoseAnswer, Succeed, Arrive, Effect
  <2>2. CASE Elsewhere
    BY <2>2 DEF Elsewhere
  <2> QED BY <2>1, <2>2 DEF Next, progress, Done, vars, local, server, Skip, check, whether, stop, ask,
         ConfirmOrForce, writeFile, End, Unanswered, Delay, Refuse, turnPage, anotherPage, choose
<1> QED BY <1>1, <1>2, <1>3

\* A list is read on, or left alone, or dropped.
LEMMA MatchesAreBorne ==
    ASSUME TypeOK, NamedInv, [Next]_vars
    PROVE  match' = {} \/ UNCHANGED <<pc, match>>
           \/ (pc \in Steps /\ pc' = pc /\ match' \subseteq match \cup Bearers(here.req.kind))
<1>1. ASSUME NEW a, Fail(a) PROVE match' = {}
  BY <1>1 DEF Fail, askAgain, learn, Quit, fresh
<1>2. ASSUME retry PROVE match' = {} \/ UNCHANGED <<pc, match>>
  BY <1>1, <1>2 DEF retry
<1>3. CASE Skip \/ check \/ whether \/ stop \/ ask \/ ConfirmOrForce \/ writeFile \/ End \/ Succeed \/ choose
  <2>1. \/ advance \/ learn \/ Repeat \/ Quit(exit')
    BY <1>3 DEF Skip, check, whether, stop, ask, Decline, ConfirmOrForce, writeFile, End, Succeed, choose, Miss, Quit
  <2> QED BY <2>1 DEF advance, learn, Repeat, Quit, fresh
<1>4. CASE Unanswered \/ LoseAnswer \/ Delay
  BY <1>2, <1>4 DEF Unanswered, LoseAnswer, Delay
<1>5. CASE Refuse
  BY <1>1, <1>5 DEF Refuse
<1>6. CASE turnPage \/ anotherPage
  BY <1>6 DEF turnPage, anotherPage, At
<1>7. CASE Elsewhere \/ Arrive \/ UNCHANGED vars
  BY <1>7 DEF Elsewhere, Arrive, vars, client
<1> QED BY <1>3, <1>4, <1>5, <1>6, <1>7 DEF Next, progress, Done

\* What a step holds from now on has borne the name, and a lookup that is passed holds something.
LEMMA HeldIsBorne ==
    ASSUME TypeOK, NamedInv, [Next]_vars
    PROVE  /\ \A k \in Tracked : held'[k] = held[k] \/ (held'[k] \in bore[k] /\ held'[k] # 0)
           /\ pc' = pc + 1 /\ pc \in Steps /\ FindsOut(here) /\ here.soft = {} /\ Due(pc)
              /\ here.req.kind \in Tracked
              => held'[here.req.kind] # 0
<1> DEFINE k == here.req.kind
<1>0. /\ held \in [Tracked -> {0} \cup Id] /\ Tracked = TrackedBy(cmd)
      /\ pc \in Nat
      /\ pc \in Steps => here = prog[pc]
  BY TrackedType, HereType DEF TypeOK, here
<1>1. CASE choose
  <2>1. pc \in Steps /\ here.do = "find" /\ k \in Tracked
    BY <1>0, <1>1, TrackedType DEF choose, At
  <2>2. match \subseteq bore[k] /\ match \subseteq {1, 2}
    BY <2>1 DEF NamedInv, TypeOK, Id
  <2>3. CASE match = {} /\ Miss /\ UNCHANGED held
    <3>1. here.soft = {} => pc' = pc
      BY <2>3 DEF Miss, Quit
    <3> QED BY <1>0, <2>3, <3>1
  <2>4. CASE match # {} /\ held' = [held EXCEPT ![k] = CHOOSE t \in match : \A u \in match : t <= u]
    <3>1. \E t \in match : \A u \in match : t <= u
      <4>1. CASE 1 \in match
        BY <2>2, <4>1
      <4>2. CASE 1 \notin match
        <5>1. match = {2}
          BY <2>2, <2>4, <4>2
        <5> QED BY <5>1
      <4> QED BY <4>1, <4>2
    <3> DEFINE least == CHOOSE t \in match : \A u \in match : t <= u
    <3>2. least \in match
      BY <3>1
    <3> HIDE DEF least
    <3>3. least \in bore[k] /\ least # 0
      BY <2>2, <3>2
    <3>4. held' = [held EXCEPT ![k] = least]
      BY <2>4 DEF least
    <3> QED BY <1>0, <2>1, <3>3, <3>4
  <2> QED BY <1>1, <2>3, <2>4 DEF choose
<1>2. CASE Succeed
  <2>0. pc \in Steps /\ here.do = "call"
    BY <1>2 DEF Succeed, At, here
  <2>1. PICK t \in Subjects(here.req) :
           held' = IF t # 0 /\ here.req.verb = "read" /\ here.req.by = "name"
                   THEN [held EXCEPT ![k] = t] ELSE held
    BY <1>2 DEF Succeed
  <2>2. CASE here.req.verb = "read" /\ here.req.by = "name" /\ k \in Tracked
    <3>1. t \in Bearers(k) /\ Bearers(k) \subseteq bore[k] /\ Bearers(k) \subseteq Id
      BY <2>1, <2>2 DEF Subjects, NamedInv, Bearers
    <3>2. t # 0 /\ t \in bore[k]
      BY <3>1 DEF Id
    <3>3. held' = [held EXCEPT ![k] = t]
      BY <2>1, <2>2, <3>2
    <3> QED BY <1>0, <2>2, <3>2, <3>3
  <2>3. CASE ~(here.req.verb = "read" /\ here.req.by = "name")
    BY <2>0, <2>1, <2>3 DEF FindsOut
  <2>4. CASE k \notin Tracked
    <3>1. t = 0
      BY <2>4, <2>1 DEF Subjects
    <3> QED BY <2>1, <2>4, <3>1
  <2> QED BY <2>2, <2>3, <2>4
<1>3. CASE ~choose /\ ~Succeed
  <2>1. held' = held
    BY <1>3 DEF Next, progress, Done, vars, client, local, Skip, check, whether, stop, ask, ConfirmOrForce,
         writeFile, End, Unanswered, LoseAnswer, Delay, Refuse, turnPage, anotherPage, Elsewhere, Arrive
  <2>2. pc \in Steps /\ FindsOut(here) /\ here.soft = {} /\ Due(pc) => pc' # pc + 1
    <3> SUFFICES ASSUME pc \in Steps, FindsOut(here), here.soft = {}, Due(pc) PROVE pc' # pc + 1
      OBVIOUS
    <3>1. here.do \in {"find", "call"}
      BY DEF FindsOut
    <3>2. CASE Unanswered \/ LoseAnswer \/ Delay
      BY <1>0, <3>2, RetryMoves DEF Unanswered, LoseAnswer, Delay
    <3>3. CASE Refuse
      BY <1>0, <3>3, FailMoves DEF Refuse, Failures
    <3>4. CASE turnPage \/ anotherPage \/ Elsewhere \/ Arrive \/ UNCHANGED vars
      BY <1>0, <3>4 DEF turnPage, anotherPage, Elsewhere, Arrive, vars, client
    <3>5. CASE End
      BY <1>0, <3>5 DEF End, Quit
    <3> QED BY <1>0, <1>3, <3>1, <3>2, <3>3, <3>4, <3>5
            DEF Next, progress, Done, At, Skip, check, whether, stop, ask, ConfirmOrForce, writeFile
  <2> QED BY <2>1, <2>2
<1> QED BY <1>1, <1>2, <1>3

\* Only what a request is about that is due, or that is still on its way, is hit or sent.
LEMMA HitsAreAimed ==
    ASSUME TypeOK, [Next]_vars
    PROVE  /\ \A x \in hit' :
                 \/ x \in hit
                 \/ /\ pc \in Steps /\ Due(pc) /\ Writes(here.req)
                    /\ \E t \in Subjects(here.req) : t # 0 /\ x = <<here.req.kind, t>>
                 \/ \E w \in wire : w[2] # 0 /\ x = <<prog[w[1]].req.kind, w[2]>>
           /\ \A w \in wire' :
                 \/ w \in wire
                 \/ /\ pc \in Steps /\ Due(pc) /\ Writes(here.req) /\ w[1] = pc
                    /\ w[2] \in Subjects(here.req)
<1> USE DEF At
<1>1. CASE LoseAnswer \/ Succeed
  <2>1. pc \in Steps /\ Due(pc) /\ here = prog[pc] /\ UNCHANGED wire
    BY <1>1 DEF LoseAnswer, Succeed, here
  <2>2. PICK t \in Subjects(here.req) : Effect(pc, t)
    BY <1>1 DEF LoseAnswer, Succeed
  <2> QED BY <2>1, <2>2 DEF Effect
<1>2. CASE Arrive
  <2>1. PICK w \in wire : Effect(w[1], w[2]) \/ UNCHANGED hit
    BY <1>2 DEF Arrive
  <2>2. wire' \subseteq wire
    BY <1>2 DEF Arrive
  <2> QED BY <2>1, <2>2 DEF Effect
<1>3. CASE Delay
  <2>1. UNCHANGED hit /\ pc \in Steps /\ Due(pc) /\ Writes(here.req)
    BY <1>3 DEF Delay
  <2>2. PICK t \in Subjects(here.req) : wire' = wire \cup {<<pc, t>>}
    BY <1>3 DEF Delay
  <2> QED BY <2>1, <2>2
<1>4. CASE UNCHANGED <<hit, wire>>
  BY <1>4
<1> QED BY <1>1, <1>2, <1>3, <1>4
        DEF Next, progress, Done, vars, local, server, Skip, check, whether, stop, ask, ConfirmOrForce,
            writeFile, End, Unanswered, Refuse, turnPage, anotherPage, choose, Elsewhere

LEMMA NamedStep ==
    ASSUME NamesFirst, TypeOK, NamedInv, [Next]_vars
    PROVE  NamedInv'
<1>0. UNCHANGED program /\ MovesOn /\ TypeOK' /\ Remembers /\ Goes
  BY StepsAreOrderly, TypeStep, NamesRemembered, StepsEnd
<1>1. /\ prog' = prog /\ Steps' = Steps /\ Tracked' = Tracked
      /\ pc \in Nat /\ pc' \in Nat /\ \A i \in Steps : i \in Nat
  <2>1. prog' = prog /\ Steps' = Steps /\ cmd' = cmd
    BY <1>0 DEF program, Steps
  <2>2. Tracked' = Tracked
    BY <1>0, <2>1, TrackedType DEF TypeOK, Tracked
  <2>3. pc \in 1..(Len(prog) + 1) /\ Len(prog) \in Nat /\ Steps = 1..Len(prog)
    BY HereType DEF TypeOK
  <2>4. pc' \in 1..(Len(prog) + 1)
    BY <1>0, <2>1 DEF TypeOK
  <2> QED BY <2>1, <2>2, <2>3, <2>4
<1>2. (\A k \in Tracked : Bearers(k) \subseteq bore[k])'
  BY <1>0, <1>1 DEF Remembers
<1>3. ASSUME NEW k \in Tracked, held'[k] # 0 PROVE held'[k] \in bore'[k]
  BY <1>0, <1>3, HeldIsBorne DEF NamedInv, Remembers
<1>4. ASSUME pc' \in Steps, (here.do = "find")' PROVE (match \subseteq bore[here.req.kind])'
  <2>1. CASE match' = {}
    BY <2>1
  <2>2. CASE pc' = pc /\ match' \subseteq match \cup Bearers(here.req.kind)
    <3>1. here' = here /\ here = prog[pc] /\ pc \in Steps /\ here.do = "find"
      BY <1>1, <1>4, <2>2 DEF here
    <3>2. here.req.kind \in Tracked
      BY <3>1, TrackedType
    <3>3. match \cup Bearers(here.req.kind) \subseteq bore[here.req.kind]
      BY <3>1, <3>2 DEF NamedInv
    <3>4. bore[here.req.kind] \subseteq bore'[here.req.kind]
      BY <1>0, <3>2 DEF Remembers
    <3> QED BY <2>2, <3>1, <3>3, <3>4
  <2>3. CASE UNCHANGED <<pc, match>>
    BY <2>2, <2>3
  <2> QED BY <2>1, <2>2, <2>3, MatchesAreBorne
<1>5. ASSUME NEW f \in Steps, f < pc', FindsOut(prog[f]), prog[f].soft = {}, Settled(prog, f), Due(f)',
             prog[f].req.kind \in Tracked
      PROVE  held'[prog[f].req.kind] # 0
  <2>1. Due(f)
    BY <1>0, <1>5, SettledStays
  <2>2. CASE f < pc
    <3>1. held[prog[f].req.kind] # 0
      BY <1>5, <2>1, <2>2 DEF NamedInv
    <3> QED BY <1>5, <3>1, HeldIsBorne
  <2>3. CASE ~(f < pc)
    <3>1. f = pc /\ pc' = pc + 1
      BY <1>0, <1>1, <1>5, <2>3 DEF Goes
    <3>2. here = prog[f]
      BY <3>1 DEF here
    <3> QED BY <1>5, <2>1, <3>1, <3>2, HeldIsBorne
  <2> QED BY <2>2, <2>3
\* What was found to be so of a thing stays so.
<1>6. ASSUME NEW k \in Tracked, NEW t, t \in bore[k] \/ Unlooked(k)
      PROVE  t \in bore'[k] \/ Unlooked(k)'
  BY <1>0, <1>6, UnlookedStays DEF Remembers
<1>7. ASSUME pc \in Steps, Due(pc), Writes(here.req), NEW t \in Subjects(here.req), t # 0
      PROVE  here.req.kind \in Tracked /\ (t \in bore[here.req.kind] \/ Unlooked(here.req.kind))
  <2>1. here.req.kind \in Tracked
    BY <1>7 DEF Subjects
  <2> QED BY <1>7, <2>1, Aimed
<1>8. ASSUME NEW w \in wire, w[2] # 0
      PROVE  /\ prog[w[1]].req.kind \in Tracked
             /\ w[2] \in bore[prog[w[1]].req.kind] \/ Unlooked(prog[w[1]].req.kind)
  BY <1>8, TrackedType DEF NamedInv, TypeOK
<1>9. ASSUME NEW x \in hit' PROVE (x[2] \in bore'[x[1]] \/ Unlooked(x[1])')
  <2>1. CASE x \in hit
    <3>1. x[1] \in Tracked
      BY <2>1, TrackedType DEF TypeOK
    <3> QED BY <1>6, <2>1, <3>1 DEF NamedInv
  <2>2. CASE pc \in Steps /\ Due(pc) /\ Writes(here.req)
             /\ \E t \in Subjects(here.req) : t # 0 /\ x = <<here.req.kind, t>>
    BY <1>6, <1>7, <2>2
  <2>3. CASE \E w \in wire : w[2] # 0 /\ x = <<prog[w[1]].req.kind, w[2]>>
    BY <1>6, <1>8, <2>3
  <2> QED BY <1>9, <2>1, <2>2, <2>3, HitsAreAimed
<1>10. ASSUME NEW w \in wire', w[2] # 0, NEW k, k = prog[w[1]].req.kind
       PROVE  w[2] \in bore'[k] \/ Unlooked(k)'
  <2>1. k \in Tracked /\ (w[2] \in bore[k] \/ Unlooked(k))
    <3>1. CASE w \in wire
      BY <1>8, <1>10, <3>1
    <3>2. CASE pc \in Steps /\ Due(pc) /\ Writes(here.req) /\ w[1] = pc /\ w[2] \in Subjects(here.req)
      <4>1. k = here.req.kind
        BY <1>10, <3>2 DEF here
      <4> QED BY <1>7, <1>10, <3>2, <4>1
    <3> QED BY <3>1, <3>2, HitsAreAimed
  <2> QED BY <1>6, <2>1
<1>11. (\A k \in Tracked : held[k] # 0 => held[k] \in bore[k])'
  BY <1>1, <1>3
<1>12. (pc \in Steps /\ here.do = "find" => match \subseteq bore[here.req.kind])'
  BY <1>1, <1>4
<1>13. (\A f \in Steps :
           f < pc /\ FindsOut(prog[f]) /\ prog[f].soft = {} /\ Settled(prog, f) /\ Due(f)
           /\ prog[f].req.kind \in Tracked
           => held[prog[f].req.kind] # 0)'
  BY <1>1, <1>5
<1>14. (\A x \in hit : x[2] \in bore[x[1]] \/ Unlooked(x[1]))'
  BY <1>9
<1>15. (\A w \in wire : w[2] # 0 => \/ w[2] \in bore[prog[w[1]].req.kind]
                                    \/ Unlooked(prog[w[1]].req.kind))'
  BY <1>1, <1>10 DEF Unlooked
<1> QED BY <1>2, <1>11, <1>12, <1>13, <1>14, <1>15 DEF NamedInv

\* Whoever names a thing changes nothing but what has borne that name since the command began, though
\* it is looked up first and changed by its id later, and others rename things in between.
THEOREM Named == ASSUME NamesFirst PROVE Spec => []OnlyTheNamed
<1>1. Init => NamedInv
  <2> SUFFICES ASSUME Init PROVE NamedInv
    OBVIOUS
  <2>1. pc = 1 /\ hit = {} /\ wire = {} /\ match = {} /\ \A i \in Steps : i \in Nat \ {0}
    BY ProgramAssumption DEF Init, Steps
  <2>2. \A k \in Tracked : held[k] = 0 /\ bore[k] = Bearers(k)
    BY DEF Init, Tracked
  <2> QED BY <2>1, <2>2 DEF NamedInv
<1>2. TypeOK /\ NamedInv /\ [Next]_vars => NamedInv'
  BY NamedStep
<1>3. TypeOK /\ NamedInv => OnlyTheNamed
  <2> SUFFICES ASSUME TypeOK, NamedInv, NEW k \in Tracked, NEW i \in Steps, prog[i].req.kind = k,
                      Due(i), LooksUp(prog[i]), NEW t \in Id, <<k, t>> \in hit
               PROVE  t \in bore[k]
    BY DEF OnlyTheNamed
  <2>1. ~Unlooked(k)
    BY DEF Unlooked
  <2> QED BY <2>1 DEF NamedInv
<1> QED BY <1>1, <1>2, <1>3, TypeCorrect, PTL DEF Spec
=============================================================================
