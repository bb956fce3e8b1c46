------------------------- MODULE UpdateCheckProofs -------------------------
(***************************************************************************)
(* What state.yml records and what is told of it, for any processes,       *)
(* extensions, releases, delays and times a request may take.              *)
(***************************************************************************)
EXTENDS UpdateCheck, TLAPS

\* The lock is with the one process that writes; it has emptied the file, or is about
\* to replace what it has read from it.
LockInv == \A p \in Procs :
    /\ pc[p] \in {"truncate", "flush"} <=> writer = p
    /\ pc[p] = "truncate" => mem[p] = record(p, file)
    /\ pc[p] = "flush" => file = Zero

\* What a state says of the CLI's releases was true when the state was stored, but for
\* the length of a request.
Backed(s) == s.release # 0 =>
                 /\ s.release <= Len(published)
                 /\ published[s.release] <= s.at[Self]
                 /\ newestSince(s.release, s.at[Self] - FetchTime)

\* No time of state s is still to come.
Past(s) == \A c \in Subjects : s.at[c] <= now

BackedInv ==
    /\ \A v \in DOMAIN published : published[v] <= now
    /\ Past(file) /\ Backed(file)
    /\ \A p \in Procs : Past(mem[p]) /\ Backed(mem[p])

\* The answer in hand was the newest release at some time since the request, which
\* is not longer ago than a request may take.
AskedInv == \A p \in Procs :
    /\ pc[p] \in {"fetch", "answer", "truncate", "flush"} => askedAt[p] <= now /\ now <= askedAt[p] + FetchTime
    /\ info[p] <= Len(published)
    /\ info[p] # 0 => pc[p] \in {"answer", "truncate", "flush"} /\ newestSince(info[p], askedAt[p])

Inv == TypeOK /\ LockInv /\ BackedInv /\ AskedInv
-----------------------------------------------------------------------------
LEMMA ZeroType == Zero \in States /\ Corrupt \in States
BY DEF Zero, Corrupt, States, Subjects

LEMMA RecordType ==
    ASSUME TypeOK, NEW p \in Procs, NEW s \in States
    PROVE  /\ record(p, s) \in States
           /\ record(p, s).at = [s.at EXCEPT ![subject[p]] = now]
           /\ record(p, s).release = IF subject[p] = Self THEN info[p] ELSE s.release
<1>1. subject[p] \in Subjects /\ info[p] \in Nat /\ now \in Nat
  BY DEF TypeOK
<1>2. s.at \in [Subjects -> Nat] /\ s.release \in Nat /\ s.ok \in BOOLEAN
  BY DEF States
<1>3. [s.at EXCEPT ![subject[p]] = now] \in [Subjects -> Nat]
  BY <1>1, <1>2
<1>4. record(p, s) = [ok |-> s.ok, at |-> [s.at EXCEPT ![subject[p]] = now],
                      release |-> IF subject[p] = Self THEN info[p] ELSE s.release]
  <2>1. s = [ok |-> s.ok, at |-> s.at, release |-> s.release]
    BY DEF States
  <2>2. record(p, s) = [[s EXCEPT !.at = [s.at EXCEPT ![subject[p]] = now]]
                           EXCEPT !.release = IF subject[p] = Self THEN info[p] ELSE s.release]
    BY <2>1 DEF record
  <2> QED BY <2>1, <2>2
<1> QED BY <1>1, <1>2, <1>3, <1>4 DEF States

LEMMA FoundType ==
    ASSUME TypeOK, NEW p \in Procs, NEW v \in Nat
    PROVE  found(p, v) \in {0, v}
BY DEF found, evaluate

LEMMA DropType ==
    ASSUME TypeOK, NEW p \in Procs, drop(p)
    PROVE  /\ writer' \in Procs \cup {None} /\ askedAt' \in [Procs -> Nat]
           /\ info' \in [Procs -> Nat] /\ mem' \in [Procs -> States]
BY ZeroType DEF drop, TypeOK

LEMMA SettleType ==
    ASSUME TypeOK, NEW p \in Procs, NEW v \in Nat, settle(p, v), file' \in States,
           UNCHANGED <<now, published, subject, cancelled>>
    PROVE  TypeOK'
BY DropType DEF settle, goto, TypeOK

LEMMA StepType == TypeOK /\ [Next]_vars => TypeOK'
<1> SUFFICES ASSUME TypeOK, [Next]_vars PROVE TypeOK'
  OBVIOUS
<1> USE CheckAssumption DEF goto
<1>0. file.ok \in BOOLEAN /\ file.release \in Nat /\ file.at \in [Subjects -> Nat]
  BY DEF TypeOK, States
<1>1. ASSUME NEW p \in Procs, Start(p) PROVE TypeOK'
  <2>1. PICK c \in Subjects : subject' = [subject EXCEPT ![p] = c]
    BY <1>1 DEF Start, Subjects
  <2> QED BY <1>1, <2>1 DEF Start, TypeOK
<1>2. ASSUME NEW p \in Procs, LoadState(p) PROVE TypeOK'
  <2>1. CASE settle(p, 0)
    BY <1>2, <2>1, SettleType DEF LoadState, TypeOK
  <2>2. CASE settle(p, found(p, file.release))
    <3>1. found(p, file.release) \in Nat
      BY <1>0, FoundType
    <3> QED BY <1>2, <2>2, <3>1, SettleType DEF LoadState, TypeOK
  <2>3. CASE askedAt' = [askedAt EXCEPT ![p] = now] /\ goto(p, "fetch") /\ UNCHANGED <<writer, info, mem, notice>>
    BY <1>2, <2>3 DEF LoadState, TypeOK
  <2> QED BY <1>2, <2>1, <2>2, <2>3 DEF LoadState
<1>3. ASSUME NEW p \in Procs, Answer(p) PROVE TypeOK'
  <2>1. PICK v \in Nat : info' = [info EXCEPT ![p] = v]
    <3>1. Len(published) \in Nat
      BY DEF TypeOK
    <3> QED BY <1>3, <3>1 DEF Answer
  <2> QED BY <1>3, <2>1 DEF Answer, TypeOK
<1>4. ASSUME NEW p \in Procs, fetchFails(p) PROVE TypeOK'
  BY <1>4, SettleType DEF fetchFails, TypeOK
<1>5. ASSUME NEW p \in Procs, SaveState(p) PROVE TypeOK'
  <2>1. CASE settle(p, 0)
    BY <1>5, <2>1, SettleType DEF SaveState, TypeOK
  <2>2. CASE ~settle(p, 0)
    <3>1. record(p, file) \in States
      BY RecordType DEF TypeOK
    <3>2. /\ writer' = p /\ mem' = [mem EXCEPT ![p] = record(p, file)]
          /\ pc' = [pc EXCEPT ![p] = "truncate"]
          /\ UNCHANGED <<askedAt, info, notice, now, published, file, subject, cancelled>>
      BY <1>5, <2>2 DEF SaveState
    <3> QED BY <3>1, <3>2 DEF TypeOK
  <2> QED BY <2>1, <2>2
<1>6. ASSUME NEW p \in Procs, truncate(p) PROVE TypeOK'
  BY <1>6, ZeroType DEF truncate, TypeOK
<1>7. ASSUME NEW p \in Procs, flush(p) PROVE TypeOK'
  <2>1. found(p, info[p]) \in Nat
    <3>1. info[p] \in Nat
      BY DEF TypeOK
    <3> QED BY <3>1, FoundType
  <2>2. file' \in States
    BY <1>7 DEF flush, TypeOK
  <2> QED BY <1>7, <2>1, <2>2, SettleType DEF flush
<1>8. ASSUME NEW p \in Procs, lockCancelled(p) PROVE TypeOK'
  BY <1>8, SettleType DEF lockCancelled, TypeOK
<1>9. ASSUME NEW p \in Procs, Settled(p) \/ Exit(p) PROVE TypeOK'
  <2>1. ends(p) /\ file' \in States /\ UNCHANGED <<now, published>>
    BY <1>9, ZeroType DEF Settled, Exit, TypeOK
  <2>2. /\ pc' = [pc EXCEPT ![p] = "idle"] /\ subject' = [subject EXCEPT ![p] = Self]
        /\ cancelled' = [cancelled EXCEPT ![p] = FALSE] /\ notice' = [notice EXCEPT ![p] = 0]
    BY <2>1 DEF ends
  <2>3. /\ pc' \in [Procs -> {"idle", "load", "fetch", "answer", "truncate", "flush", "settled"}]
        /\ subject' \in [Procs -> Subjects]
        /\ cancelled' \in [Procs -> BOOLEAN] /\ notice' \in [Procs -> Nat]
    BY <2>2 DEF TypeOK, Subjects
  <2> QED BY <2>1, <2>3, DropType DEF ends, TypeOK
<1>10. ASSUME NEW p \in Procs, Finish(p) PROVE TypeOK'
  BY <1>10 DEF Finish, TypeOK
<1>11. CASE Publish \/ Advance
  <2>1. now' \in Nat /\ published' \in Seq(Nat)
    <3>1. now \in Nat /\ published \in Seq(Nat)
      BY DEF TypeOK
    <3>2. Append(published, now) \in Seq(Nat)
      BY <3>1
    <3>3. now + 1 \in Nat
      BY <3>1
    <3>4. /\ now' = now \/ now' = now + 1
          /\ published' = published \/ published' = Append(published, now)
      BY <1>11 DEF Publish, Advance
    <3> QED BY <3>1, <3>2, <3>3, <3>4
  <2> QED BY <1>11, <2>1 DEF Publish, Advance, TypeOK
<1>12. CASE UNCHANGED vars
  BY <1>12 DEF vars, TypeOK
<1> QED BY <1>1, <1>2, <1>3, <1>4, <1>5, <1>6, <1>7, <1>8, <1>9, <1>10, <1>11, <1>12 DEF Next, check
-----------------------------------------------------------------------------
\* A step of p, as the other processes see it: it may give back what p holds.
Others(p) == \A q \in Procs \ {p} : /\ pc'[q] = pc[q] /\ mem'[q] = mem[q] /\ subject'[q] = subject[q]
                                    /\ askedAt'[q] = askedAt[q] /\ info'[q] = info[q]
                                    /\ notice'[q] = notice[q]

\* p gives back what it holds.
LetsGo(p) == /\ mem'[p] = Zero /\ info'[p] = 0 /\ pc'[p] \in {"settled", "idle"}
             /\ writer' = (IF writer = p THEN None ELSE writer) /\ Others(p)

LEMMA GoesOf ==
    ASSUME TypeOK, NEW p \in Procs,
           \/ (\E v : settle(p, v)) /\ subject' = subject
           \/ ends(p)
    PROVE  LetsGo(p)
BY DEF settle, ends, drop, goto, LetsGo, Others, TypeOK

\* Which steps of p let go, and which leave the file alone.
LEMMA StepsThatLetGo ==
    ASSUME TypeOK, NEW p \in Procs
    PROVE  /\ fetchFails(p) \/ lockCancelled(p) \/ Settled(p) => LetsGo(p) /\ UNCHANGED <<now, published, file>>
           /\ LoadState(p) => \/ LetsGo(p) /\ UNCHANGED <<now, published, file>>
                              \/ /\ askedAt' = [askedAt EXCEPT ![p] = now] /\ pc' = [pc EXCEPT ![p] = "fetch"]
                                 /\ pc[p] = "load"
                                 /\ UNCHANGED <<now, published, file, writer, subject, info, mem, notice>>
           /\ SaveState(p) => \/ LetsGo(p) /\ UNCHANGED <<now, published, file>>
                              \/ /\ writer = None /\ writer' = p /\ mem' = [mem EXCEPT ![p] = record(p, file)]
                                 /\ pc[p] = "answer" /\ pc' = [pc EXCEPT ![p] = "truncate"]
                                 /\ UNCHANGED <<now, published, file, subject, askedAt, info, notice>>
           /\ flush(p) => /\ LetsGo(p) /\ pc[p] = "flush" /\ file' = mem[p] /\ UNCHANGED <<now, published>>
           /\ Exit(p) => /\ LetsGo(p) /\ UNCHANGED <<now, published>>
                         /\ file' = file \/ (pc[p] = "flush" /\ file' = Corrupt)
<1>1. fetchFails(p) \/ lockCancelled(p) \/ Settled(p) => LetsGo(p) /\ UNCHANGED <<now, published, file>>
  BY GoesOf DEF fetchFails, lockCancelled, Settled
<1>2. LoadState(p) => \/ LetsGo(p) /\ UNCHANGED <<now, published, file>>
                      \/ /\ askedAt' = [askedAt EXCEPT ![p] = now] /\ pc' = [pc EXCEPT ![p] = "fetch"]
                         /\ pc[p] = "load"
                         /\ UNCHANGED <<now, published, file, writer, subject, info, mem, notice>>
  BY GoesOf DEF LoadState, goto
<1>3. SaveState(p) => \/ LetsGo(p) /\ UNCHANGED <<now, published, file>>
                      \/ /\ writer = None /\ writer' = p /\ mem' = [mem EXCEPT ![p] = record(p, file)]
                         /\ pc[p] = "answer" /\ pc' = [pc EXCEPT ![p] = "truncate"]
                         /\ UNCHANGED <<now, published, file, subject, askedAt, info, notice>>
  BY GoesOf DEF SaveState, goto
<1>4. flush(p) => /\ LetsGo(p) /\ pc[p] = "flush" /\ file' = mem[p] /\ UNCHANGED <<now, published>>
  BY GoesOf DEF flush
<1>5. Exit(p) => /\ LetsGo(p) /\ UNCHANGED <<now, published>>
                 /\ file' = file \/ (pc[p] = "flush" /\ file' = Corrupt)
  BY GoesOf DEF Exit
<1> QED BY <1>1, <1>2, <1>3, <1>4, <1>5

\* What the record of a process depends on.
LEMMA SameRecord ==
    ASSUME NEW p, subject'[p] = subject[p], info'[p] = info[p], now' = now, file' = file
    PROVE  record(p, file)' = record(p, file)
BY DEF record

LEMMA LetsGoLock ==
    ASSUME TypeOK, LockInv, NEW p \in Procs, LetsGo(p), now' = now, file' = file \/ pc[p] = "flush"
    PROVE  LockInv'
<1> SUFFICES ASSUME NEW q \in Procs
             PROVE  /\ pc'[q] \in {"truncate", "flush"} <=> writer' = q
                    /\ pc'[q] = "truncate" => mem'[q] = record(q, file)'
                    /\ pc'[q] = "flush" => file' = Zero
  BY DEF LockInv
<1> USE CheckAssumption
<1>1. CASE q = p
  BY <1>1 DEF LetsGo
<1>2. CASE q # p
  <2>1. pc'[q] = pc[q] /\ mem'[q] = mem[q] /\ subject'[q] = subject[q] /\ info'[q] = info[q]
    BY <1>2 DEF LetsGo, Others
  <2>2. pc'[q] \in {"truncate", "flush"} <=> writer' = q
    BY <1>2, <2>1 DEF LetsGo, LockInv
  <2>3. CASE file' = file
    BY <2>1, <2>2, <2>3, SameRecord DEF LockInv
  <2>4. CASE pc[p] = "flush"
    <3>1. pc[q] \notin {"truncate", "flush"}
      BY <1>2, <2>4 DEF LockInv
    <3> QED BY <2>1, <2>2, <3>1
  <2> QED BY <2>3, <2>4
<1> QED BY <1>1, <1>2

LEMMA LockStep == TypeOK /\ LockInv /\ [Next]_vars => LockInv'
<1> SUFFICES ASSUME TypeOK, LockInv, [Next]_vars PROVE LockInv'
  OBVIOUS
<1> USE CheckAssumption
<1>1. ASSUME NEW p \in Procs,
             fetchFails(p) \/ lockCancelled(p) \/ Settled(p) \/ flush(p) \/ Exit(p)
      PROVE  LockInv'
  BY <1>1, StepsThatLetGo, LetsGoLock
<1>2. ASSUME NEW p \in Procs, pc[p] \notin {"truncate", "flush"},
             \A q \in Procs : pc'[q] \in {"truncate", "flush"} => pc'[q] = pc[q] /\ q # p,
             \A q \in Procs : q # p => /\ pc'[q] = pc[q] /\ mem'[q] = mem[q] /\ info'[q] = info[q]
                                       /\ subject'[q] = subject[q],
             UNCHANGED <<now, file, writer>>
      PROVE  LockInv'
  <2> SUFFICES ASSUME NEW q \in Procs
               PROVE  /\ pc'[q] \in {"truncate", "flush"} <=> writer' = q
                      /\ pc'[q] = "truncate" => mem'[q] = record(q, file)'
                      /\ pc'[q] = "flush" => file' = Zero
    BY DEF LockInv
  <2>1. CASE q = p
    BY <1>2, <2>1 DEF LockInv
  <2>2. CASE q # p
    BY <1>2, <2>2, SameRecord DEF LockInv
  <2> QED BY <2>1, <2>2
<1>3. ASSUME NEW p \in Procs, Start(p) \/ Answer(p) PROVE LockInv'
  BY <1>2, <1>3 DEF Start, Answer, goto, TypeOK
<1>4. ASSUME NEW p \in Procs, LoadState(p) PROVE LockInv'
  <2>1. CASE LetsGo(p) /\ UNCHANGED <<now, published, file>>
    BY <2>1, LetsGoLock
  <2>2. CASE ~LetsGo(p)
    BY <1>2, <1>4, <2>2, StepsThatLetGo DEF TypeOK
  <2> QED BY <1>4, <2>1, <2>2, StepsThatLetGo
<1>5. ASSUME NEW p \in Procs, SaveState(p) PROVE LockInv'
  <2>1. CASE LetsGo(p) /\ UNCHANGED <<now, published, file>>
    BY <2>1, LetsGoLock
  <2>2. CASE ~LetsGo(p)
    <3>1. /\ writer = None /\ writer' = p /\ mem' = [mem EXCEPT ![p] = record(p, file)]
          /\ pc' = [pc EXCEPT ![p] = "truncate"]
          /\ UNCHANGED <<now, published, file, subject, askedAt, info, notice>>
      BY <1>5, <2>2, StepsThatLetGo
    <3>2. \A q \in Procs : record(q, file)' = record(q, file) /\ pc[q] \notin {"truncate", "flush"}
      BY <3>1, SameRecord DEF LockInv
    <3> QED BY <3>1, <3>2 DEF LockInv, TypeOK
  <2> QED BY <1>5, <2>1, <2>2, StepsThatLetGo
<1>6. ASSUME NEW p \in Procs, truncate(p) PROVE LockInv'
  <2>1. \A q \in Procs \ {p} : pc[q] \notin {"truncate", "flush"}
    BY <1>6 DEF truncate, LockInv
  <2> QED BY <1>6, <2>1 DEF truncate, goto, LockInv, TypeOK
<1>7. CASE Publish \/ \E p \in Procs : Finish(p)
  <2>1. UNCHANGED <<now, file, writer, pc, mem, info, subject>>
    BY <1>7 DEF Publish, Finish
  <2> QED BY <2>1, SameRecord DEF LockInv
<1>8. CASE Advance
  <2>1. \A p \in Procs : pc[p] \notin {"truncate", "flush"}
    BY <1>8 DEF Advance
  <2> QED BY <1>8, <2>1 DEF Advance, LockInv
<1>9. CASE UNCHANGED vars
  BY <1>9, SameRecord DEF vars, LockInv
<1> QED BY <1>1, <1>3, <1>4, <1>5, <1>6, <1>7, <1>8, <1>9 DEF Next, check
-----------------------------------------------------------------------------
LEMMA ReleasesType ==
    ASSUME TypeOK
    PROVE  /\ now \in Nat /\ Len(published) \in Nat /\ DOMAIN published = 1..Len(published)
           /\ \A v \in DOMAIN published : published[v] \in Nat
<1>1. now \in Nat /\ published \in Seq(Nat)
  BY DEF TypeOK
<1> QED BY <1>1

LEMMA StateType ==
    ASSUME NEW s \in States
    PROVE  s.at \in [Subjects -> Nat] /\ s.at[Self] \in Nat /\ s.release \in Nat
BY DEF States, Subjects

\* A release that comes out now leaves what was newest since a time before newest until now.
LEMMA NewestIsNewest ==
    ASSUME TypeOK, Publish, NEW v \in Nat, v <= Len(published), NEW t \in Int, t <= now, newestSince(v, t)
    PROVE  newestSince(v, t)' /\ v <= Len(published')
<1>1. /\ Len(published') = Len(published) + 1 /\ published'[Len(published) + 1] = now
      /\ \A i \in DOMAIN published : published'[i] = published[i]
  BY ReleasesType DEF Publish, TypeOK
<1>2. v < Len(published) => v + 1 \in DOMAIN published
  BY ReleasesType
<1>3. SUFFICES ASSUME v < Len(published') PROVE published'[v + 1] >= t
  BY <1>1, ReleasesType DEF newestSince
<1>4. CASE v < Len(published)
  BY <1>1, <1>2, <1>4 DEF newestSince
<1>5. CASE v = Len(published)
  BY <1>1, <1>5, ReleasesType
<1>6. v < Len(published) \/ v = Len(published)
  <2>1. Len(published) \in Nat
    BY ReleasesType
  <2> QED BY <2>1
<1> QED BY <1>4, <1>5, <1>6

LEMMA BackedStays ==
    ASSUME TypeOK, NEW s \in States, Past(s), Backed(s),
           published' = published \/ Publish
    PROVE  Backed(s)'
<1> SUFFICES ASSUME s.release # 0, Publish PROVE Backed(s)'
  BY DEF Backed, newestSince
<1>1. s.release \in DOMAIN published /\ s.at[Self] \in Nat /\ s.at[Self] - FetchTime \in Int
  BY StateType, ReleasesType, CheckAssumption DEF Backed
<1>2. s.at[Self] - FetchTime <= now
  BY <1>1, ReleasesType, CheckAssumption DEF Past, Subjects
<1>3. newestSince(s.release, s.at[Self] - FetchTime)' /\ s.release <= Len(published')
  BY <1>1, <1>2, StateType, NewestIsNewest DEF Backed
<1>4. published'[s.release] = published[s.release]
  <2>1. published \in Seq(Nat) /\ published' = Append(published, now)
    BY DEF Publish, TypeOK
  <2> QED BY <1>1, <2>1
<1> QED BY <1>3, <1>4 DEF Backed

LEMMA AskedStep == TypeOK /\ AskedInv /\ [Next]_vars => AskedInv'
<1> SUFFICES ASSUME TypeOK, AskedInv, [Next]_vars PROVE AskedInv'
  OBVIOUS
<1> USE CheckAssumption
<1>0. \A p \in Procs : info[p] \in Nat /\ askedAt[p] \in Nat
  BY DEF TypeOK
<1>1. ASSUME NEW p \in Procs, LetsGo(p), UNCHANGED <<now, published>> PROVE AskedInv'
  <2>1. 0 <= Len(published)
    BY ReleasesType
  <2> QED BY <1>1, <2>1 DEF LetsGo, Others, AskedInv, newestSince
<1>2. ASSUME NEW p \in Procs, Start(p) PROVE AskedInv'
  BY <1>2 DEF Start, goto, AskedInv, newestSince, TypeOK
<1>3. ASSUME NEW p \in Procs, LoadState(p) PROVE AskedInv'
  <2>1. CASE ~LetsGo(p)
    <3>1. /\ askedAt' = [askedAt EXCEPT ![p] = now] /\ pc' = [pc EXCEPT ![p] = "fetch"]
          /\ pc[p] = "load" /\ UNCHANGED <<now, published, info>>
      BY <1>3, <2>1, StepsThatLetGo
    <3>2. askedAt'[p] = now /\ info[p] = 0 /\ now <= now + FetchTime
      <4>1. askedAt'[p] = now
        BY <3>1 DEF TypeOK
      <4>2. info[p] = 0
        BY <3>1 DEF AskedInv
      <4> QED BY <4>1, <4>2, ReleasesType
    <3>3. \A q \in Procs \ {p} : askedAt'[q] = askedAt[q] /\ pc'[q] = pc[q]
      BY <3>1
    <3> QED BY <3>1, <3>2, <3>3, ReleasesType DEF AskedInv, newestSince
  <2> QED BY <1>1, <1>3, <2>1, StepsThatLetGo
<1>4. ASSUME NEW p \in Procs, Answer(p) PROVE AskedInv'
  <2>1. PICK v \in {0, Len(published)} : info' = [info EXCEPT ![p] = v]
    BY <1>4 DEF Answer
  <2>2. v <= Len(published) /\ \A t : newestSince(v, t) \/ v = 0
    <3>1. Len(published) \in Nat
      BY ReleasesType
    <3>2. ~(Len(published) < Len(published)) /\ 0 <= Len(published)
      BY <3>1
    <3> QED BY <3>2 DEF newestSince
  <2>3. info'[p] = v /\ pc'[p] = "answer" /\ \A q \in Procs \ {p} : info'[q] = info[q] /\ pc'[q] = pc[q]
    BY <1>4, <2>1 DEF Answer, goto, TypeOK
  <2> QED BY <1>4, <2>2, <2>3 DEF Answer, AskedInv, newestSince
<1>5. ASSUME NEW p \in Procs, SaveState(p) PROVE AskedInv'
  <2>1. CASE ~LetsGo(p)
    <3>1. /\ pc[p] = "answer" /\ pc' = [pc EXCEPT ![p] = "truncate"]
          /\ UNCHANGED <<now, published, askedAt, info>>
      BY <1>5, <2>1, StepsThatLetGo
    <3> QED BY <3>1 DEF AskedInv, newestSince, TypeOK
  <2> QED BY <1>1, <1>5, <2>1, StepsThatLetGo
<1>6. ASSUME NEW p \in Procs, truncate(p) PROVE AskedInv'
  BY <1>6 DEF truncate, goto, AskedInv, newestSince, TypeOK
<1>7. ASSUME NEW p \in Procs, fetchFails(p) \/ lockCancelled(p) \/ Settled(p) \/ flush(p) \/ Exit(p)
      PROVE  AskedInv'
  BY <1>1, <1>7, StepsThatLetGo
<1>8. CASE Publish
  <2>1. UNCHANGED <<now, pc, info, askedAt>> /\ Len(published) <= Len(published')
    BY <1>8, ReleasesType DEF Publish, TypeOK
  <2>2. ASSUME NEW p \in Procs, info[p] # 0 PROVE newestSince(info[p], askedAt[p])' /\ info[p] <= Len(published')
    <3>1. /\ info[p] <= Len(published) /\ newestSince(info[p], askedAt[p])
          /\ askedAt[p] \in Int /\ askedAt[p] <= now
      BY <1>0, <2>2 DEF AskedInv
    <3> QED BY <1>0, <1>8, <2>1, <3>1, NewestIsNewest DEF newestSince
  <2>3. \A p \in Procs : info[p] <= Len(published')
    BY <1>0, <2>1, ReleasesType DEF AskedInv
  <2> QED BY <2>1, <2>2, <2>3 DEF AskedInv, newestSince
<1>9. CASE Advance
  <2>1. \A p \in Procs : /\ pc[p] \notin {"truncate", "flush"}
                         /\ pc[p] \in {"fetch", "answer"} => now < askedAt[p] + FetchTime
    BY <1>9 DEF Advance
  <2>2. now' = now + 1 /\ UNCHANGED <<pc, askedAt, info, published>>
    BY <1>9 DEF Advance
  <2>3. \A p \in Procs : pc[p] \in {"fetch", "answer"} => askedAt[p] <= now' /\ now' <= askedAt[p] + FetchTime
    BY <1>0, <2>1, <2>2, ReleasesType DEF AskedInv
  <2> QED BY <2>1, <2>2, <2>3 DEF AskedInv, newestSince
<1>10. CASE UNCHANGED vars \/ \E p \in Procs : Finish(p)
  BY <1>10 DEF vars, Finish, AskedInv, newestSince
<1> QED BY <1>2, <1>3, <1>4, <1>5, <1>6, <1>7, <1>8, <1>9, <1>10 DEF Next, check

\* A state that holds Zero or Corrupt in place of a record says nothing.
LEMMA NothingBacked ==
    ASSUME TypeOK, NEW s \in {Zero, Corrupt}
    PROVE  Past(s) /\ Backed(s)
<1>1. (\A c \in Subjects : s.at[c] = 0) /\ s.release = 0
  BY DEF Zero, Corrupt, Subjects
<1> QED BY <1>1, ReleasesType DEF Backed, Past

\* What is recorded of an answer is as true as the answer.
LEMMA RecordBacked ==
    ASSUME TypeOK, BackedInv, AskedInv, NEW p \in Procs, pc[p] = "answer"
    PROVE  Past(record(p, file)) /\ Backed(record(p, file))
<1>0. file \in States
  BY DEF TypeOK
<1>1. /\ record(p, file).at = [file.at EXCEPT ![subject[p]] = now]
      /\ record(p, file).release = IF subject[p] = Self THEN info[p] ELSE file.release
  BY <1>0, RecordType
<1>4. Past(record(p, file))
  BY <1>0, <1>1, StateType, ReleasesType DEF Past, BackedInv
<1>2. CASE subject[p] # Self
  <2>1. record(p, file).at[Self] = file.at[Self] /\ record(p, file).release = file.release
    BY <1>0, <1>1, <1>2, StateType
  <2> QED BY <1>4, <2>1 DEF Backed, BackedInv
<1>3. CASE subject[p] = Self
  <2>1. record(p, file).at[Self] = now /\ record(p, file).release = info[p]
    BY <1>0, <1>1, <1>3, StateType DEF Subjects
  <2>2. info[p] # 0 => info[p] \in DOMAIN published
    BY ReleasesType DEF AskedInv, TypeOK
  <2>3. info[p] # 0 => newestSince(info[p], now - FetchTime)
    <3>1. SUFFICES ASSUME info[p] # 0, info[p] < Len(published)
                   PROVE  published[info[p] + 1] >= now - FetchTime
      BY DEF newestSince
    <3>2. published[info[p] + 1] >= askedAt[p] /\ askedAt[p] \in Nat /\ now <= askedAt[p] + FetchTime
      BY <3>1 DEF AskedInv, newestSince, TypeOK
    <3>3. info[p] + 1 \in DOMAIN published
      BY <2>2, <3>1, ReleasesType
    <3>4. published[info[p] + 1] \in Nat
      BY <3>3, ReleasesType
    <3> QED BY <3>2, <3>4, ReleasesType, CheckAssumption
  <2>4. info[p] # 0 => published[info[p]] <= now
    BY <2>2 DEF BackedInv
  <2> QED BY <1>4, <2>1, <2>2, <2>3, <2>4, ReleasesType DEF Backed, AskedInv
<1> QED BY <1>2, <1>3

LEMMA BackedStep == Inv /\ [Next]_vars => BackedInv'
<1> SUFFICES ASSUME Inv, [Next]_vars PROVE BackedInv'
  OBVIOUS
<1>0. TypeOK /\ LockInv /\ BackedInv /\ AskedInv
  BY DEF Inv
<1> USE CheckAssumption
<1>1. ASSUME UNCHANGED <<now, published>>,
             file' \in {file, Zero, Corrupt} \cup {mem[q] : q \in Procs},
             \A q \in Procs : mem'[q] \in {mem[q], Zero} \/ (mem'[q] = record(q, file) /\ pc[q] = "answer")
      PROVE  BackedInv'
  <2>1. \A s : Backed(s)' <=> Backed(s)
    BY <1>1 DEF Backed, newestSince
  <2>2. Past(file') /\ Backed(file')
    BY <1>0, <1>1, NothingBacked DEF BackedInv
  <2>3. ASSUME NEW q \in Procs PROVE Past(mem'[q]) /\ Backed(mem'[q])
    BY <1>0, <1>1, NothingBacked, RecordBacked DEF BackedInv
  <2>4. Past(file)' /\ Backed(file)' /\ \A q \in Procs : Past(mem[q])' /\ Backed(mem[q])'
    BY <1>1, <2>2, <2>3 DEF Backed, newestSince, Past
  <2> QED BY <1>0, <1>1, <2>2, <2>3, <2>4 DEF BackedInv
<1>2. ASSUME NEW p \in Procs, LetsGo(p), UNCHANGED <<now, published>>, file' \in {file, Corrupt, mem[p]}
      PROVE  BackedInv'
  BY <1>1, <1>2 DEF LetsGo, Others
<1>3. ASSUME NEW p \in Procs, Start(p) \/ Answer(p) \/ Finish(p) PROVE BackedInv'
  BY <1>1, <1>3 DEF Start, Answer, Finish
<1>4. ASSUME NEW p \in Procs, LoadState(p) PROVE BackedInv'
  BY <1>0, <1>1, <1>2, <1>4, StepsThatLetGo
<1>5. ASSUME NEW p \in Procs, SaveState(p) PROVE BackedInv'
  <2>1. CASE ~LetsGo(p)
    <3>1. /\ mem' = [mem EXCEPT ![p] = record(p, file)] /\ pc[p] = "answer"
          /\ UNCHANGED <<now, published, file>>
      BY <1>0, <1>5, <2>1, StepsThatLetGo
    <3>2. \A q \in Procs : mem'[q] = mem[q] \/ (q = p /\ mem'[q] = record(p, file))
      BY <1>0, <3>1 DEF TypeOK
    <3> QED BY <1>1, <3>1, <3>2
  <2> QED BY <1>0, <1>2, <1>5, <2>1, StepsThatLetGo
<1>6. ASSUME NEW p \in Procs, truncate(p) PROVE BackedInv'
  BY <1>1, <1>6 DEF truncate
<1>7. ASSUME NEW p \in Procs, fetchFails(p) \/ lockCancelled(p) \/ Settled(p) \/ flush(p) \/ Exit(p)
      PROVE  BackedInv'
  BY <1>0, <1>2, <1>7, StepsThatLetGo
<1>8. CASE Publish \/ Advance
  <2>1. UNCHANGED <<file, mem>> /\ (published' = published \/ Publish) /\ now' \in {now, now + 1}
    BY <1>8 DEF Publish, Advance
  <2>2. \A v \in DOMAIN published' : published'[v] <= now'
    <3>1. CASE Publish
      <4>1. published \in Seq(Nat) /\ published' = Append(published, now) /\ now' = now
        BY <1>0, <3>1 DEF Publish, TypeOK
      <4>2. \A v \in DOMAIN published' : \/ v \in DOMAIN published /\ published'[v] = published[v]
                                        \/ published'[v] = now
        BY <4>1
      <4> QED BY <1>0, <4>1, <4>2, ReleasesType DEF BackedInv
    <3>2. CASE Advance
      <4>1. published' = published /\ now' = now + 1
        BY <3>2 DEF Advance
      <4> QED BY <1>0, <4>1, ReleasesType DEF BackedInv
    <3> QED BY <1>8, <3>1, <3>2
  <2>3. file \in States /\ \A q \in Procs : mem[q] \in States
    BY <1>0 DEF TypeOK
  <2>4. ASSUME NEW s \in States, Past(s), Backed(s) PROVE Past(s)' /\ Backed(s)'
    <3>1. now <= now' /\ now' \in Nat
      BY <1>0, <2>1, ReleasesType
    <3>2. Past(s)'
      BY <1>0, <2>4, <3>1, StateType, ReleasesType DEF Past
    <3> QED BY <1>0, <2>1, <2>4, <3>2, BackedStays
  <2>5. Past(file)' /\ Backed(file)'
    BY <1>0, <2>1, <2>3, <2>4 DEF BackedInv, Backed, Past
  <2>6. \A q \in Procs : Past(mem[q])' /\ Backed(mem[q])'
    BY <1>0, <2>1, <2>3, <2>4 DEF BackedInv, Backed, Past
  <2> QED BY <2>2, <2>5, <2>6 DEF BackedInv
<1>9. CASE UNCHANGED vars
  BY <1>1, <1>9 DEF vars
<1> QED BY <1>3, <1>4, <1>5, <1>6, <1>7, <1>8, <1>9 DEF Next, check

LEMMA Invariance == Spec => []Inv
<1>1. Init => Inv
  <2> SUFFICES ASSUME Init PROVE Inv
    OBVIOUS
  <2>1. TypeOK
    BY ZeroType DEF Init, TypeOK, Subjects
  <2>2. LockInv /\ AskedInv
    BY CheckAssumption DEF Init, LockInv, AskedInv
  <2>3. BackedInv
    BY <2>1, NothingBacked DEF Init, BackedInv
  <2> QED BY <2>1, <2>2, <2>3 DEF Inv
<1>2. Inv /\ [Next]_vars => Inv'
  BY StepType, LockStep, BackedStep, AskedStep DEF Inv
<1> QED BY <1>1, <1>2, PTL DEF Spec
-----------------------------------------------------------------------------
\* Every variable keeps its type, and only whoever holds the lock writes.
THEOREM TypeCorrect == Spec => []TypeOK
BY Invariance, PTL DEF Inv

\* What state.yml says of the releases was true when it was stored, but for the length
\* of a request, whoever stored last and however old the answer was that was stored.
THEOREM Backing == Spec => []RecordIsBacked
<1>1. Inv => RecordIsBacked
  <2> SUFFICES ASSUME Inv PROVE RecordIsBacked
    OBVIOUS
  <2>1. Backed(Recorded)
    BY DEF Inv, TypeOK, BackedInv, Recorded
  <2> QED BY <2>1 DEF RecordIsBacked, Backed
<1> QED BY <1>1, Invariance, PTL

\* What a step makes of what is recorded: it keeps it, or loses it, or one process
\* adds its own record to it.
LEMMA RecordedStep ==
    ASSUME Inv, [Next]_vars
    PROVE  \/ Recorded' = Recorded
           \/ Recorded' \in {Zero, Corrupt}
           \/ \E p \in Procs : Recorded' = record(p, Recorded)
<1> USE CheckAssumption
<1>0. TypeOK /\ LockInv /\ LockInv' /\ TypeOK'
  BY StepType, LockStep DEF Inv
<1>1. ASSUME NEW p \in Procs, LetsGo(p), pc[p] # "flush", file' = file PROVE Recorded' = Recorded
  <2>1. CASE writer = p
    <3>1. writer' = None /\ pc[writer] # "flush"
      BY <1>1, <2>1 DEF LetsGo
    <3> QED BY <1>1, <3>1 DEF Recorded
  <2>2. CASE writer # p
    <3>1. writer' = writer /\ (writer # None => pc'[writer] = pc[writer] /\ mem'[writer] = mem[writer])
      BY <1>0, <1>1, <2>2 DEF LetsGo, Others, TypeOK
    <3> QED BY <1>1, <3>1 DEF Recorded
  <2> QED BY <2>1, <2>2
<1>2. ASSUME UNCHANGED <<file, writer, mem>>, \A q \in Procs : pc'[q] = "flush" <=> pc[q] = "flush"
      PROVE  Recorded' = Recorded
  BY <1>0, <1>2 DEF Recorded, TypeOK
<1>3. ASSUME NEW p \in Procs, Start(p) \/ Answer(p) \/ Finish(p) PROVE Recorded' = Recorded
  BY <1>0, <1>2, <1>3 DEF Start, Answer, Finish, goto, TypeOK
<1>4. ASSUME NEW p \in Procs, LoadState(p) PROVE Recorded' = Recorded
  <2>1. CASE LetsGo(p)
    BY <1>1, <1>4, <2>1 DEF LoadState
  <2>2. CASE ~LetsGo(p)
    BY <1>0, <1>2, <1>4, <2>2, StepsThatLetGo DEF TypeOK
  <2> QED BY <2>1, <2>2
<1>5. ASSUME NEW p \in Procs, SaveState(p) PROVE Recorded' = Recorded
  <2>1. CASE LetsGo(p)
    BY <1>1, <1>5, <2>1 DEF SaveState
  <2>2. CASE ~LetsGo(p)
    <3>1. writer = None /\ writer' = p /\ pc'[p] = "truncate" /\ file' = file
      BY <1>0, <1>5, <2>2, StepsThatLetGo DEF TypeOK
    <3> QED BY <3>1 DEF Recorded
  <2> QED BY <2>1, <2>2
<1>6. ASSUME NEW p \in Procs, truncate(p) PROVE Recorded' = record(p, Recorded)
  <2>1. writer = p /\ pc[p] = "truncate" /\ mem[p] = record(p, file) /\ p # None
    BY <1>0, <1>6 DEF truncate, LockInv
  <2>2. writer' = p /\ pc'[p] = "flush" /\ mem' = mem
    BY <1>0, <1>6, <2>1 DEF truncate, goto, TypeOK
  <2> QED BY <2>1, <2>2 DEF Recorded
<1>7. ASSUME NEW p \in Procs, flush(p) PROVE Recorded' = Recorded
  <2>1. writer = p /\ p # None /\ pc[p] = "flush"
    BY <1>0, <1>7 DEF flush, LockInv
  <2>2. writer' = None /\ file' = mem[p]
    BY <1>0, <1>7, <2>1, StepsThatLetGo DEF LetsGo
  <2> QED BY <2>1, <2>2 DEF Recorded
<1>8. ASSUME NEW p \in Procs, fetchFails(p) \/ lockCancelled(p) \/ Settled(p) PROVE Recorded' = Recorded
  BY <1>0, <1>1, <1>8, StepsThatLetGo DEF fetchFails, lockCancelled, Settled
<1>9. ASSUME NEW p \in Procs, Exit(p) PROVE Recorded' \in {Recorded, Corrupt, Zero}
  <2>1. CASE pc[p] = "flush"
    <3>1. writer = p /\ file = Zero /\ writer' = None /\ file' \in {Zero, Corrupt}
      BY <1>0, <1>9, <2>1, StepsThatLetGo DEF LockInv, LetsGo
    <3> QED BY <3>1 DEF Recorded
  <2>2. CASE pc[p] # "flush"
    BY <1>0, <1>1, <1>9, <2>2, StepsThatLetGo
  <2> QED BY <2>1, <2>2
<1>10. CASE Publish \/ Advance \/ UNCHANGED vars
  BY <1>2, <1>10 DEF Publish, Advance, vars
<1> QED BY <1>3, <1>4, <1>5, <1>6, <1>7, <1>8, <1>9, <1>10 DEF Next, check

\* No check undoes another: of the times recorded one at most moves, and onwards, in
\* every step that does not lose the whole file to a kill.
THEOREM Advances == Spec => RecordsOnlyAdvance
<1>1. ASSUME Inv, [Next]_vars, ~lost'
      PROVE  /\ \A c \in Subjects : Recorded'.at[c] >= Recorded.at[c]
             /\ \A c, d \in Subjects :
                   Recorded'.at[c] # Recorded.at[c] /\ Recorded'.at[d] # Recorded.at[d] => c = d
  <2>1. Recorded \in States /\ Past(Recorded)
    BY <1>1 DEF Inv, TypeOK, BackedInv, Recorded
  <2>2. Recorded.at \in [Subjects -> Nat]
    BY <2>1, StateType
  <2>3. CASE Recorded' = Recorded
    BY <2>2, <2>3
  <2>4. ASSUME NEW p \in Procs, Recorded' = record(p, Recorded)
        PROVE  /\ \A c \in Subjects : Recorded'.at[c] >= Recorded.at[c]
               /\ \A c, d \in Subjects :
                     Recorded'.at[c] # Recorded.at[c] /\ Recorded'.at[d] # Recorded.at[d] => c = d
    <3>1. Recorded'.at = [Recorded.at EXCEPT ![subject[p]] = now]
      BY <1>1, <2>1, <2>4, RecordType DEF Inv
    <3>2. \A c \in Subjects : Recorded.at[c] <= now
      BY <2>1 DEF Past
    <3> QED BY <2>2, <3>1, <3>2
  <2> QED BY <1>1, <2>3, <2>4, RecordedStep DEF lost
<1>2. Inv /\ [Next]_vars =>
         [~lost' =>
          /\ \A c \in {Self} \cup Extensions : Recorded'.at[c] >= Recorded.at[c]
          /\ \A c, d \in {Self} \cup Extensions :
                Recorded'.at[c] # Recorded.at[c] /\ Recorded'.at[d] # Recorded.at[d] => c = d]_vars
  BY <1>1 DEF Subjects
<1> QED BY <1>2, Invariance, PTL DEF Spec, RecordsOnlyAdvance
-----------------------------------------------------------------------------
\* Release v may be told of now.
Timely(v) == /\ v > Installed
             /\ now - published[v] >= NotifyDelay
             /\ newestSince(v, now - CacheWindow - FetchTime + 1)

LEMMA OlderStillNewest ==
    ASSUME TypeOK, NEW v \in Nat, v # 0, NEW t \in Int, NEW u \in Int, u <= t, newestSince(v, t)
    PROVE  newestSince(v, u)
<1> SUFFICES ASSUME v < Len(published) PROVE published[v + 1] >= u
  BY DEF newestSince
<1>1. v + 1 \in DOMAIN published
  BY ReleasesType
<1>2. published[v + 1] \in Nat /\ published[v + 1] >= t
  BY <1>1, ReleasesType DEF newestSince
<1> QED BY <1>2

LEMMA FoundIsNotable ==
    ASSUME TypeOK, NEW p \in Procs, NEW v \in Nat, found(p, v) # 0
    PROVE  /\ found(p, v) = v /\ v # 0 /\ subject[p] = Self
           /\ v > Installed /\ now - published[v] >= NotifyDelay
BY CheckAssumption DEF found, evaluate

LEMMA ToldFromCache ==
    ASSUME Inv, NEW p \in Procs, file.ok, ~due(p, file), found(p, file.release) # 0
    PROVE  Timely(found(p, file.release))
<1>0. /\ TypeOK /\ file \in States /\ Backed(file) /\ now \in Nat
      /\ CacheWindow \in Nat \ {0} /\ FetchTime \in Nat
  BY CheckAssumption DEF Inv, TypeOK, BackedInv
<1>1. file.release \in Nat /\ file.at[Self] \in Nat
  BY <1>0, StateType
<1>2. /\ found(p, file.release) = file.release /\ file.release # 0 /\ subject[p] = Self
      /\ file.release > Installed /\ now - published[file.release] >= NotifyDelay
  BY <1>0, <1>1, FoundIsNotable
<1>3. now - file.at[Self] < CacheWindow
  BY <1>0, <1>1, <1>2 DEF due
<1>4. newestSince(file.release, file.at[Self] - FetchTime)
  BY <1>0, <1>2 DEF Backed
<1>5. /\ now - CacheWindow - FetchTime + 1 <= file.at[Self] - FetchTime
      /\ now - CacheWindow - FetchTime + 1 \in Int /\ file.at[Self] - FetchTime \in Int
  BY <1>0, <1>1, <1>3
<1>6. newestSince(file.release, now - CacheWindow - FetchTime + 1)
  BY <1>0, <1>1, <1>2, <1>4, <1>5, OlderStillNewest
<1> QED BY <1>2, <1>6 DEF Timely

LEMMA ToldFromAnswer ==
    ASSUME Inv, NEW p \in Procs, pc[p] = "flush", found(p, info[p]) # 0
    PROVE  Timely(found(p, info[p]))
<1>0. /\ TypeOK /\ info[p] \in Nat /\ askedAt[p] \in Nat /\ now \in Nat
      /\ CacheWindow \in Nat \ {0} /\ FetchTime \in Nat
  BY CheckAssumption DEF Inv, TypeOK
<1>1. /\ found(p, info[p]) = info[p] /\ info[p] # 0
      /\ info[p] > Installed /\ now - published[info[p]] >= NotifyDelay
  BY <1>0, FoundIsNotable
<1>2. now <= askedAt[p] + FetchTime /\ newestSince(info[p], askedAt[p])
  BY <1>1 DEF Inv, AskedInv
<1>3. now - CacheWindow - FetchTime + 1 <= askedAt[p] /\ now - CacheWindow - FetchTime + 1 \in Int
  BY <1>0, <1>2
<1>4. newestSince(info[p], now - CacheWindow - FetchTime + 1)
  BY <1>0, <1>1, <1>2, <1>3, OlderStillNewest
<1> QED BY <1>1, <1>4 DEF Timely

\* A notice is of a release that is newer than the CLI, has been out for the delay, and
\* was the newest less than a cache window and a request ago, wherever it was learnt from.
THEOREM Timeliness == Spec => NoticeIsTimely
<1>1. ASSUME Inv, [Next]_vars, NEW p \in Procs, notice'[p] # notice[p], notice'[p] # 0
      PROVE  Timely(notice'[p])
  <2>0. TypeOK
    BY <1>1 DEF Inv
  <2>1. ASSUME NEW q \in Procs, NEW v, settle(q, v) PROVE p = q /\ notice'[p] = v
    BY <1>1, <2>0, <2>1 DEF settle, TypeOK
  <2>2. ASSUME NEW q \in Procs PROVE ~settle(q, 0) /\ ~ends(q)
    BY <1>1, <2>0, <2>1 DEF ends, TypeOK
  <2>3. ASSUME NEW q \in Procs, LoadState(q) PROVE Timely(notice'[p])
    <3>1. file.ok /\ ~due(q, file) /\ settle(q, found(q, file.release))
      BY <1>1, <2>2, <2>3 DEF LoadState
    <3> QED BY <1>1, <2>1, <3>1, ToldFromCache
  <2>4. ASSUME NEW q \in Procs, flush(q) PROVE Timely(notice'[p])
    BY <1>1, <2>1, <2>4, ToldFromAnswer DEF flush
  <2>5. CASE \A q \in Procs : ~LoadState(q) /\ ~flush(q)
    <3>1. notice' = notice
      BY <1>1, <2>2, <2>5 DEF Next, check, Start, Answer, fetchFails, SaveState, truncate, lockCancelled,
            Settled, Exit, Finish, Publish, Advance, vars
    <3> QED BY <1>1, <3>1
  <2> QED BY <2>3, <2>4, <2>5
<1>2. Inv /\ [Next]_vars =>
         [\A p \in Procs :
            notice'[p] # notice[p] /\ notice'[p] # 0 =>
              /\ notice'[p] > Installed
              /\ now - published[notice'[p]] >= NotifyDelay
              /\ newestSince(notice'[p], now - CacheWindow - FetchTime + 1)]_vars
  BY <1>1 DEF Timely
<1> QED BY <1>2, Invariance, PTL DEF Spec, NoticeIsTimely
=============================================================================
