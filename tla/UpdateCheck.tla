----------------------------- MODULE UpdateCheck -----------------------------
(***************************************************************************)
(* The release checks of internal/update and of managed extensions         *)
(* (cmd/extension, promptForUpdate), which share state.yml                  *)
(* (internal/config/state.go).  The CLI's own check runs in the background  *)
(* of a command and is cancelled, or cut short by the end of the process,   *)
(* when the command is over.                                               *)
(***************************************************************************)
EXTENDS Integers, Sequences, FiniteSets

CONSTANTS
    Procs, None,
    Extensions,    \* names of the managed extensions
    Self,          \* the CLI itself
    CacheWindow,   \* update.CacheWindow
    NotifyDelay,   \* update.notifyDelay
    FetchTime,     \* the longest a request may take
    Installed,     \* the CLI's own version; releases are numbered 1, 2, ...
    MaxTime,       \* bound: the clock stops here
    MaxReleases    \* bound: releases ever made

ASSUME CheckAssumption ==
    /\ None \notin Procs
    /\ Self \notin Extensions
    /\ CacheWindow \in Nat \ {0} /\ NotifyDelay \in Nat /\ FetchTime \in Nat
    /\ Installed \in Nat /\ MaxTime \in Nat /\ MaxReleases \in Nat

VARIABLES
    now,        \* the clock; 0 is the zero time.Time
    published,  \* published[v]: when release v of the CLI came out
    file,       \* state.yml
    writer,     \* the holder of its exclusive lock
    pc,
    subject,    \* what a process checks for: Self or an extension
    cancelled,  \* Notifier.Finish has cancelled the check
    askedAt,    \* when the request was made
    info,       \* the release the source reported; 0 for none it could tell
    mem,        \* the state a process is about to write
    notice      \* what Check returned: a release worth telling of, or 0

vars == <<now, published, file, writer, pc, subject, cancelled, askedAt, info, mem, notice>>

Zero    == [ok |-> TRUE, at |-> [c \in {Self} \cup Extensions |-> 0], release |-> 0]
Corrupt == [Zero EXCEPT !.ok = FALSE]

Init ==
    /\ now = 1 /\ published = <<>>
    /\ file = Zero /\ writer = None
    /\ pc = [p \in Procs |-> "idle"]
    /\ subject = [p \in Procs |-> Self]
    /\ cancelled = [p \in Procs |-> FALSE]
    /\ askedAt = [p \in Procs |-> 0]
    /\ info = [p \in Procs |-> 0] /\ notice = [p \in Procs |-> 0]
    /\ mem = [p \in Procs |-> Zero]

goto(p, state) == pc' = [pc EXCEPT ![p] = state]

\* What the check holds is gone with it, its locks too.
drop(p) ==
    /\ writer' = IF writer = p THEN None ELSE writer
    /\ askedAt' = [askedAt EXCEPT ![p] = 0]
    /\ info' = [info EXCEPT ![p] = 0]
    /\ mem' = [mem EXCEPT ![p] = Zero]

\* Check returns v.
settle(p, v) ==
    /\ goto(p, "settled")
    /\ notice' = [notice EXCEPT ![p] = v]
    /\ drop(p)

-----------------------------------------------------------------------------
(* One check.                                                              *)

evaluate(v) ==
    IF v > Installed /\ now - published[v] >= NotifyDelay THEN v ELSE 0

\* What there is to tell once release v is known; an extension's check does not
\* go through Check and has its own prompt.
found(p, v) == IF subject[p] = Self THEN evaluate(v) ELSE 0

\* Fault: the cache is good for one moment too many.
dueLate(p, s) == s.at[subject[p]] = 0 \/ now - s.at[subject[p]] > CacheWindow

due(p, s) == s.at[subject[p]] = 0 \/ now - s.at[subject[p]] >= CacheWindow

Start(p) ==
    /\ pc[p] = "idle"
    /\ \E c \in {Self} \cup Extensions : subject' = [subject EXCEPT ![p] = c]
    /\ goto(p, "load")
    /\ UNCHANGED <<now, published, file, writer, cancelled, askedAt, info, mem, notice>>

\* LoadState takes the shared lock for as long as it reads, which is at once.
LoadState(p) ==
    /\ pc[p] = "load" /\ ~cancelled[p]
    /\ writer = None
    /\ \/ /\ ~file.ok
          /\ settle(p, 0)
       \/ /\ file.ok /\ ~due(p, file)
          /\ settle(p, found(p, file.release))
       \/ /\ file.ok /\ due(p, file)
          /\ askedAt' = [askedAt EXCEPT ![p] = now]
          /\ goto(p, "fetch")
          /\ UNCHANGED <<writer, info, mem, notice>>
    /\ UNCHANGED <<now, published, file, subject, cancelled>>

\* The source answers with the newest release there is, or refuses for good
\* (400, 401, 403), which counts as an answer without a release.  The releases of
\* the extensions are not modelled.
Answer(p) ==
    /\ pc[p] = "fetch"
    /\ \E v \in IF subject[p] = Self THEN {0, Len(published)} ELSE {0} :
          info' = [info EXCEPT ![p] = v]
    /\ goto(p, "answer")
    /\ UNCHANGED <<now, published, file, writer, subject, cancelled, askedAt, mem, notice>>

\* A request that fails, or is cancelled, leaves the state alone.
fetchFails(p) ==
    /\ pc[p] \in {"fetch", "answer"}
    /\ settle(p, 0)
    /\ UNCHANGED <<now, published, file, subject, cancelled>>

\* Fault: an answer without a release leaves the old one in place.
recordKept(p, s) ==
    [s EXCEPT !.at[subject[p]] = now,
              !.release = IF subject[p] = Self /\ info[p] # 0 THEN info[p] ELSE @]

\* Fault: the record is written on its own, without what the file held.
recordFresh(p, s) ==
    [Zero EXCEPT !.at[subject[p]] = now,
                 !.release = IF subject[p] = Self THEN info[p] ELSE @]

\* The callback given to SaveState, on the state s.
record(p, s) ==
    [s EXCEPT !.at[subject[p]] = now,
              !.release = IF subject[p] = Self THEN info[p] ELSE @]

\* The answer arrives.  SaveState takes the exclusive lock, reads again and changes what it read.
SaveState(p) ==
    /\ pc[p] = "answer" /\ ~cancelled[p]
    /\ writer = None
    /\ \/ /\ file.ok
          /\ writer' = p
          /\ mem' = [mem EXCEPT ![p] = record(p, file)]
          /\ goto(p, "truncate")
          /\ UNCHANGED <<askedAt, info, notice>>
       \/ /\ ~file.ok
          /\ settle(p, 0)
    /\ UNCHANGED <<now, published, file, subject, cancelled>>

\* os.WriteFile empties the file before it fills it.
truncate(p) ==
    /\ pc[p] = "truncate"
    /\ file' = Zero
    /\ goto(p, "flush")
    /\ UNCHANGED <<now, published, writer, subject, cancelled, askedAt, info, mem, notice>>

flush(p) ==
    /\ pc[p] = "flush"
    /\ file' = mem[p]
    /\ settle(p, found(p, info[p]))
    /\ UNCHANGED <<now, published, subject, cancelled>>

\* Fault: the cancellation is noticed only when the lock happens to be free.
lockCancelledWhenFree(p) ==
    /\ pc[p] \in {"load", "answer"} /\ cancelled[p]
    /\ writer = None
    /\ settle(p, 0)
    /\ UNCHANGED <<now, published, file, subject, cancelled>>

\* A lock that is waited for when the context is cancelled.
lockCancelled(p) ==
    /\ pc[p] \in {"load", "answer"} /\ cancelled[p]
    /\ settle(p, 0)
    /\ UNCHANGED <<now, published, file, subject, cancelled>>

-----------------------------------------------------------------------------
(* The command around it.                                                  *)

ends(p) ==
    /\ goto(p, "idle")
    /\ subject' = [subject EXCEPT ![p] = Self]
    /\ cancelled' = [cancelled EXCEPT ![p] = FALSE]
    /\ notice' = [notice EXCEPT ![p] = 0]
    /\ drop(p)

\* Finish cancels the check first and waits for it after; an extension's check
\* runs in the foreground and ends by itself.
Finish(p) ==
    /\ subject[p] = Self
    /\ pc[p] \notin {"idle", "settled"} /\ ~cancelled[p]
    /\ cancelled' = [cancelled EXCEPT ![p] = TRUE]
    /\ UNCHANGED <<now, published, file, writer, pc, subject, askedAt, info, mem, notice>>

\* The notice is printed, if there is one, and the process ends.
Settled(p) ==
    /\ pc[p] = "settled"
    /\ ends(p)
    /\ UNCHANGED <<now, published, file>>

\* The command failed, so nothing waits for the check: the process ends under it,
\* wherever it is.  A file it was writing is left as it is: empty, or filled in
\* part, which may not parse.
Exit(p) ==
    /\ pc[p] \notin {"idle", "settled"}
    /\ ends(p)
    /\ file' \in IF pc[p] = "flush" THEN {file, Corrupt} ELSE {file}
    /\ UNCHANGED <<now, published>>

Publish ==
    /\ Len(published) < MaxReleases
    /\ published' = Append(published, now)
    /\ UNCHANGED <<now, file, writer, pc, subject, cancelled, askedAt, info, mem, notice>>

\* The clock is coarse: everything but a request, and the rest of a command, is
\* over before it moves.
Advance ==
    /\ now < MaxTime
    /\ \A p \in Procs :
          \/ pc[p] \in {"idle", "settled"}
          \/ pc[p] \in {"fetch", "answer"} /\ now < askedAt[p] + FetchTime
    /\ now' = now + 1
    /\ UNCHANGED <<published, file, writer, pc, subject, cancelled, askedAt, info, mem, notice>>

check(p) ==
    \/ LoadState(p) \/ fetchFails(p) \/ SaveState(p)
    \/ truncate(p) \/ flush(p) \/ lockCancelled(p) \/ Settled(p)

Next ==
    \/ \E p \in Procs : Start(p) \/ check(p) \/ Answer(p) \/ Finish(p) \/ Exit(p)
    \/ Publish
    \/ Advance

\* A check goes on whenever it can, and a cancelled request fails; nothing is
\* assumed of the source, the locks' order or the commands.
Spec == Init /\ [][Next]_vars /\ \A p \in Procs : WF_vars(check(p))

-----------------------------------------------------------------------------
(* Properties.                                                             *)

Subjects == {Self} \cup Extensions
States   == [ok : BOOLEAN, at : [Subjects -> Nat], release : Nat]

TypeOK ==
    /\ now \in Nat /\ published \in Seq(Nat) /\ file \in States /\ writer \in Procs \cup {None}
    /\ pc \in [Procs -> {"idle", "load", "fetch", "answer", "truncate", "flush", "settled"}]
    /\ subject \in [Procs -> Subjects] /\ cancelled \in [Procs -> BOOLEAN]
    /\ askedAt \in [Procs -> Nat] /\ info \in [Procs -> Nat] /\ notice \in [Procs -> Nat]
    /\ mem \in [Procs -> States]

\* What the file says, or will once the writer that has emptied it fills it.
Recorded == IF writer # None /\ pc[writer] = "flush" THEN mem[writer] ELSE file

\* A process that was killed in a write took the record with it.
lost == Recorded \in {Zero, Corrupt}

\* Release v was the newest one at some time from t on, as far as is known now.
newestSince(v, t) == v < Len(published) => published[v + 1] >= t

\* What state.yml says of the CLI's own releases was true when it was stored, but
\* for the length of a request, whichever check, of the CLI or of an extension,
\* stored last and in whatever order their answers came (update.go, Check).
RecordIsBacked ==
    LET r == Recorded IN
    r.release # 0 =>
        /\ r.release <= Len(published)
        /\ published[r.release] <= r.at[Self]
        /\ newestSince(r.release, r.at[Self] - FetchTime)

\* A notice, told from the cache or from an answer, is of a release newer than the
\* CLI, out for at least the delay, and was the newest until less than a cache window
\* and a request ago: a cached answer is never used past its window, however late it
\* was stored and whatever the other checks write (update.go, CacheWindow, evaluate).
NoticeIsTimely ==
    [][\A p \in Procs :
          notice'[p] # notice[p] /\ notice'[p] # 0 =>
              /\ notice'[p] > Installed
              /\ now - published[notice'[p]] >= NotifyDelay
              /\ newestSince(notice'[p], now - CacheWindow - FetchTime + 1)]_vars

\* The checks of the CLI and of the extensions share one file and never undo each
\* other: a time recorded only moves on, one at a time, unless a process killed in
\* its write lost them all (state.go, SaveState).
RecordsOnlyAdvance ==
    [][~lost' =>
          /\ \A c \in {Self} \cup Extensions : Recorded'.at[c] >= Recorded.at[c]
          /\ \A c, d \in {Self} \cup Extensions :
                Recorded'.at[c] # Recorded.at[c] /\ Recorded'.at[d] # Recorded.at[d] => c = d]_vars

\* Finish returns: once it has cancelled the check, nothing the other processes do
\* with the lock, and no request, keeps the command from ending (update.go, Finish).
FinishReturns == \A p \in Procs : cancelled[p] ~> ~cancelled[p]

=============================================================================
