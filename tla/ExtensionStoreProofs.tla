------------------------- MODULE ExtensionStoreProofs -------------------------
(***************************************************************************)
(* For any processes, extensions and releases: a command starts unless a   *)
(* manifest is torn or being changed, and what runs is what its manifest   *)
(* says unless the binary's last write failed or had a rival.              *)
(***************************************************************************)
EXTENDS ExtensionStore, TLAPS

-----------------------------------------------------------------------------
(* What is known of a file whose last write neither failed nor had a rival. *)

Copied(r, k) == [i \in 1..k |-> r]

\* It is written by one process, and holds what that process has copied so far.
Sole(p, n) ==
    /\ \A q \in Procs : Writing(q, n) => q = p
    /\ binary[n] = IF proc[p].open THEN Copied(proc[p].release, proc[p].offset) ELSE None
    /\ proc[p].pc = "fill" => manifest[n] = IF proc[p].filling THEN Torn ELSE None

Underway(p) ==
    /\ proc[p].release \in Releases /\ proc[p].offset \in 0 .. Parts[proc[p].release]
    /\ proc[p].pc # "copy" => proc[p].offset = Parts[proc[p].release]

WriterInv ==
    \A n \in Extensions, p \in Procs : Writing(p, n) =>
        /\ Underway(p)
        /\ proc[p].open => binary[n] \in Seq(Nat)
        /\ ~spoiled[n] => Sole(p, n)

\* At rest, the binary is the one the manifest names.
Whole(n) ==
    ~spoiled[n] /\ binary[n] # None /\ manifest[n] \notin {None, Torn} =>
        binary[n] = Image(manifest[n])

RestInv == \A n \in Extensions : (\A p \in Procs : ~Writing(p, n)) => Whole(n)

\* A process under which nobody changes the extension holds the manifest that is there.
Undisturbed(p, n) ==
    /\ \A q \in Procs : q # p => ~Writing(q, n)
    /\ proc[p].pc \in {"copy", "empty", "fill"} => proc[p].open
    /\ proc[p].pc = "fill" => proc[p].filling
    /\ proc[p].pc \in {"visit", "decode", "lookup", "download", "open", "exec"}
       /\ ~spoiled[n] /\ proc[p].hand # None => manifest[n] = proc[p].hand
    /\ proc[p].pc = "running" /\ ~spoiled[n] => proc[p].ran = Image(proc[p].hand)

HandInv ==
    \A p \in Procs : proc[p].pc # "idle" /\ ~touched[p] => Undisturbed(p, proc[p].name)

\* To run an extension is to have a manifest of it, read or just written.
ExecInv ==
    \A p \in Procs : proc[p].pc \in {"exec", "running"} => proc[p].hand \in Releases

\* A copy begins at the beginning, with a release that there is.
DownloadInv ==
    \A p \in Procs :
        /\ proc[p].pc \in {"visit", "decode", "lookup", "download", "open"} => proc[p].offset = 0
        /\ proc[p].pc \in {"download", "open"} => proc[p].release \in Releases

\* Until a manifest is torn, or changes, whoever reads them finds one whenever it looks.
StirInv ==
    \A p \in Procs : ~stirred[p] =>
        /\ proc[p].pc # "refused"
        /\ walking(p) => \A n \in Extensions : manifest[n] # Torn
        /\ proc[p].pc = "decode" => manifest[proc[p].at] # None /\ proc[p].at \in Extensions

-----------------------------------------------------------------------------
(* Types.                                                                  *)

LEMMA IdleType == Idle \in Process /\ Idle.pc = "idle"
BY DEF Idle, Process, Steps

LEMMA FieldType ==
    ASSUME NEW r \in Process, NEW s \in Steps
    PROVE  [r EXCEPT !.pc = s] \in Process
BY DEF Process

\* What one process becomes leaves the others as they are.
LEMMA Becomes ==
    ASSUME TypeOK, NEW p \in Procs, NEW r \in Process, become(p, r),
           r.pc # "idle" => r.name \in Extensions
    PROVE  /\ proc' \in [Procs -> Process] /\ proc'[p] = r
           /\ \A q \in Procs \ {p} : proc'[q] = proc[q]
           /\ \A q \in Procs : proc'[q].pc # "idle" => proc'[q].name \in Extensions
<1>1. proc \in [Procs -> Process]
  BY DEF TypeOK
<1>2. proc' \in [Procs -> Process] /\ proc'[p] = r /\ \A q \in Procs \ {p} : proc'[q] = proc[q]
  BY <1>1 DEF become
<1> QED BY <1>2 DEF TypeOK

LEMMA GotoType ==
    ASSUME TypeOK, NEW p \in Procs, NEW s \in Steps, goto(p, s), proc[p].pc # "idle"
    PROVE  /\ proc' \in [Procs -> Process]
           /\ proc'[p] = [proc[p] EXCEPT !.pc = s]
           /\ \A q \in Procs \ {p} : proc'[q] = proc[q]
           /\ \A q \in Procs : proc'[q].pc # "idle" => proc'[q].name \in Extensions
<1>1. proc[p] \in Process /\ proc[p].name \in Extensions
  BY DEF TypeOK
<1>2. [proc[p] EXCEPT !.pc = s] \in Process
  BY <1>1, FieldType
<1>3. [proc[p] EXCEPT !.pc = s].name = proc[p].name
  BY <1>1 DEF Process
<1> QED BY <1>1, <1>2, <1>3, Becomes DEF goto

LEMMA EndsType ==
    ASSUME TypeOK, NEW p \in Procs, ends(p)
    PROVE  /\ proc' \in [Procs -> Process] /\ proc'[p] = Idle
           /\ \A q \in Procs \ {p} : proc'[q] = proc[q]
           /\ \A q \in Procs : proc'[q].pc # "idle" => proc'[q].name \in Extensions
BY IdleType, Becomes DEF ends

LEMMA GiveUpType ==
    ASSUME TypeOK, NEW p \in Procs, giveUp(p), proc[p].pc # "idle"
    PROVE  /\ proc' \in [Procs -> Process]
           /\ proc'[p] \in {Idle, [proc[p] EXCEPT !.pc = "exec"]}
           /\ proc[p].hand = None => proc'[p] = Idle
           /\ \A q \in Procs \ {p} : proc'[q] = proc[q]
           /\ \A q \in Procs : proc'[q].pc # "idle" => proc'[q].name \in Extensions
<1>1. "exec" \in Steps
  BY DEF Steps
<1> QED BY <1>1, GotoType, EndsType DEF giveUp, upgrading

LEMMA WriteAtType ==
    ASSUME NEW f \in Seq(Nat), NEW o \in Nat, NEW x \in Nat
    PROVE  writeAt(f, o, x) \in Seq(Nat)
BY DEF writeAt

LEMMA ReleasesAreNumbers == \A r \in Releases : r \in Nat /\ Parts[r] \in Nat
BY ExtensionAssumption DEF Releases

-----------------------------------------------------------------------------
(* What each step makes of its process.                                    *)

\* The fields of r that are those of proc[p] unless said otherwise.
Keeps(r, p) ==
    /\ r.op = proc[p].op /\ r.name = proc[p].name /\ r.ran = proc[p].ran
    /\ r.open = proc[p].open /\ r.filling = proc[p].filling /\ r.offset = proc[p].offset

Moved(p) ==
    /\ proc' \in [Procs -> Process]
    /\ \A q \in Procs : proc'[q].pc # "idle" => proc'[q].name \in Extensions
    /\ \A q \in Procs \ {p} : proc'[q] = proc[q]

LEMMA StartShape ==
    ASSUME TypeOK, NEW p \in Procs, Start(p)
    PROVE  /\ Moved(p)
           /\ proc'[p].pc = "visit" /\ proc'[p].name \in Extensions
           /\ proc'[p].hand = None /\ proc'[p].offset = 0
<1>1. PICK op \in {"install", "remove", "use"}, n \in Extensions :
        become(p, [Idle EXCEPT !.pc = "visit", !.op = op, !.name = n, !.left = Extensions])
  BY DEF Start
<1> DEFINE r == [Idle EXCEPT !.pc = "visit", !.op = op, !.name = n, !.left = Extensions]
<1>2. r \in Process /\ r.name = n /\ r.pc = "visit" /\ r.hand = None /\ r.offset = 0
  BY DEF Idle, Process, Steps
<1> HIDE DEF r
<1>3. become(p, r)
  BY <1>1 DEF r
<1> QED BY <1>2, <1>3, Becomes DEF Moved

LEMMA VisitShape ==
    ASSUME TypeOK, NEW p \in Procs, NEW n \in Extensions, visit(p, n)
    PROVE  /\ Moved(p) /\ Keeps(proc'[p], p)
           /\ proc'[p].hand = proc[p].hand
           /\ \/ proc'[p].pc = "visit"
              \/ proc'[p].pc = "decode" /\ proc'[p].at = n /\ manifest[n] # None
<1>0. proc[p] \in Process /\ proc[p].name \in Extensions /\ proc[p].pc = "visit"
  BY DEF visit, TypeOK
<1>1. CASE become(p, [proc[p] EXCEPT !.left = @ \ {n}])
  <2> DEFINE r == [proc[p] EXCEPT !.left = @ \ {n}]
  <2>1. r \in Process /\ Keeps(r, p) /\ r.hand = proc[p].hand /\ r.pc = "visit"
    BY <1>0 DEF Process, Keeps
  <2>2. r.name \in Extensions
    BY <1>0 DEF Process
  <2> HIDE DEF r
  <2>3. become(p, r)
    BY <1>1 DEF r
  <2> QED BY <2>1, <2>2, <2>3, Becomes DEF Moved
<1>2. CASE become(p, [proc[p] EXCEPT !.pc = "decode", !.at = n]) /\ manifest[n] # None
  <2> DEFINE r == [proc[p] EXCEPT !.pc = "decode", !.at = n]
  <2>1. r \in Process /\ Keeps(r, p) /\ r.hand = proc[p].hand /\ r.pc = "decode" /\ r.at = n
    BY <1>0 DEF Process, Keeps, Steps
  <2>2. r.name \in Extensions
    BY <1>0 DEF Process
  <2> HIDE DEF r
  <2>3. become(p, r)
    BY <1>2 DEF r
  <2> QED BY <1>2, <2>1, <2>2, <2>3, Becomes DEF Moved
<1> QED BY <1>1, <1>2 DEF visit

LEMMA DecodeShape ==
    ASSUME TypeOK, NEW p \in Procs, decode(p)
    PROVE  /\ Moved(p) /\ Keeps(proc'[p], p)
           /\ \/ /\ proc'[p].pc = "refused" /\ proc'[p].hand = proc[p].hand
                 /\ manifest[proc[p].at] \in {None, Torn}
              \/ /\ proc'[p].pc = "visit"
                 /\ manifest[proc[p].at] \notin {None, Torn}
                 /\ proc'[p].hand = IF proc[p].at = proc[p].name THEN manifest[proc[p].at]
                                    ELSE proc[p].hand
<1>0. proc[p] \in Process /\ proc[p].name \in Extensions /\ proc[p].pc = "decode"
  BY DEF decode, TypeOK
<1> DEFINE m == manifest[proc[p].at]
<1>1. CASE m \in {None, Torn} /\ goto(p, "refused")
  <2>1. "refused" \in Steps
    BY DEF Steps
  <2> DEFINE r == [proc[p] EXCEPT !.pc = "refused"]
  <2>2. Keeps(r, p) /\ r.hand = proc[p].hand /\ r.pc = "refused"
    BY <1>0 DEF Process, Keeps
  <2>3. Moved(p) /\ proc'[p] = r
    BY <1>0, <1>1, <2>1, GotoType DEF Moved
  <2> QED BY <1>1, <2>2, <2>3
<1>2. CASE /\ m \notin {None, Torn}
           /\ become(p, [proc[p] EXCEPT !.pc = "visit", !.left = @ \ {proc[p].at}, !.at = None,
                                        !.hand = IF proc[p].at = proc[p].name THEN m ELSE @])
  <2> DEFINE r == [proc[p] EXCEPT !.pc = "visit", !.left = @ \ {proc[p].at}, !.at = None,
                                  !.hand = IF proc[p].at = proc[p].name THEN m ELSE @]
  <2>0. proc[p].at = proc[p].name => m \in Releases
    BY <1>0, <1>2 DEF TypeOK
  <2>1. r \in Process
    BY <1>0, <2>0 DEF Process, Steps
  <2>2. /\ Keeps(r, p) /\ r.pc = "visit"
        /\ r.hand = IF proc[p].at = proc[p].name THEN m ELSE proc[p].hand
    BY <1>0 DEF Process, Keeps
  <2>3. r.name \in Extensions
    BY <1>0 DEF Process
  <2> HIDE DEF r
  <2>4. become(p, r)
    BY <1>2 DEF r
  <2> QED BY <1>2, <2>1, <2>2, <2>3, <2>4, Becomes DEF Moved
<1> QED BY <1>1, <1>2 DEF decode

LEMMA LookupShape ==
    ASSUME TypeOK, NEW p \in Procs, lookup(p)
    PROVE  /\ Moved(p)
           /\ \/ proc'[p] = Idle
              \/ proc'[p] = [proc[p] EXCEPT !.pc = "exec"] /\ proc[p].hand # None
              \/ /\ Keeps(proc'[p], p) /\ proc'[p].hand = proc[p].hand
                 /\ proc'[p].pc = "download" /\ proc'[p].release \in Releases
<1>0. proc[p] \in Process /\ proc[p].name \in Extensions /\ proc[p].pc = "lookup"
  BY DEF lookup, TypeOK
<1>1. CASE giveUp(p)
  BY <1>0, <1>1, GiveUpType DEF Moved
<1> DEFINE v == latest[proc[p].name]
           r == [proc[p] EXCEPT !.pc = "download", !.release = v]
<1>2. CASE v # 0 /\ become(p, r)
  <2>1. v \in Releases /\ v \in Nat
    BY <1>0, <1>2, ReleasesAreNumbers DEF TypeOK
  <2>2. /\ r \in Process /\ Keeps(r, p) /\ r.hand = proc[p].hand
        /\ r.pc = "download" /\ r.release = v
    BY <1>0, <2>1 DEF Process, Keeps, Steps
  <2>3. r.name \in Extensions
    BY <1>0 DEF Process
  <2> HIDE DEF r
  <2> QED BY <1>2, <2>1, <2>2, <2>3, Becomes DEF Moved
<1> QED BY <1>1, <1>2 DEF lookup

LEMMA OpenShape ==
    ASSUME TypeOK, NEW p \in Procs, openBinary(p)
    PROVE  /\ Moved(p)
           /\ proc'[p].pc = "copy" /\ proc'[p].open /\ proc'[p].name = proc[p].name
           /\ proc'[p].release = proc[p].release /\ proc'[p].offset = proc[p].offset
           /\ proc'[p].hand = proc[p].hand
<1>0. proc[p] \in Process /\ proc[p].name \in Extensions
  BY DEF openBinary, TypeOK
<1> DEFINE r == [proc[p] EXCEPT !.pc = "copy", !.open = TRUE]
<1>1. /\ r \in Process /\ r.pc = "copy" /\ r.open /\ r.name = proc[p].name
      /\ r.release = proc[p].release /\ r.offset = proc[p].offset /\ r.hand = proc[p].hand
  BY <1>0 DEF Process, Steps
<1> HIDE DEF r
<1>2. become(p, r)
  BY DEF openBinary, r
<1> QED BY <1>0, <1>1, <1>2, Becomes DEF Moved

LEMMA CopyShape ==
    ASSUME TypeOK, NEW p \in Procs, copyPart(p)
    PROVE  /\ Moved(p)
           /\ proc'[p].pc = "copy" /\ proc'[p].hand = proc[p].hand
           /\ proc'[p].name = proc[p].name /\ proc'[p].open = proc[p].open
           /\ proc'[p].release = proc[p].release /\ proc'[p].offset = proc[p].offset + 1
<1>0. proc[p] \in Process /\ proc[p].name \in Extensions /\ proc[p].pc = "copy"
  BY DEF copyPart, TypeOK
<1> DEFINE r == [proc[p] EXCEPT !.offset = @ + 1]
<1>1. proc[p].offset + 1 \in Nat
  BY <1>0 DEF Process
<1>2. r \in Process
  BY <1>0, <1>1 DEF Process
<1>3. /\ r.pc = "copy" /\ r.hand = proc[p].hand
      /\ r.name = proc[p].name /\ r.open = proc[p].open
      /\ r.release = proc[p].release /\ r.offset = proc[p].offset + 1
  BY <1>0 DEF Process
<1>4. r.name \in Extensions
  BY <1>0 DEF Process
<1> HIDE DEF r
<1>5. become(p, r)
  BY DEF copyPart, r
<1> QED BY <1>2, <1>3, <1>4, <1>5, Becomes DEF Moved

LEMMA EmptyShape ==
    ASSUME TypeOK, NEW p \in Procs, emptyManifest(p)
    PROVE  /\ Moved(p)
           /\ proc'[p].pc = "fill" /\ proc'[p].filling /\ proc'[p].open = proc[p].open
           /\ proc'[p].name = proc[p].name /\ proc'[p].hand = proc[p].hand
           /\ proc'[p].release = proc[p].release /\ proc'[p].offset = proc[p].offset
<1>0. proc[p] \in Process /\ proc[p].name \in Extensions
  BY DEF emptyManifest, TypeOK
<1> DEFINE r == [proc[p] EXCEPT !.pc = "fill", !.filling = TRUE]
<1>1. /\ r \in Process /\ r.pc = "fill" /\ r.filling /\ r.open = proc[p].open
      /\ r.name = proc[p].name /\ r.hand = proc[p].hand
      /\ r.release = proc[p].release /\ r.offset = proc[p].offset
  BY <1>0 DEF Process, Steps
<1> HIDE DEF r
<1>2. become(p, r)
  BY DEF emptyManifest, r
<1> QED BY <1>0, <1>1, <1>2, Becomes DEF Moved

LEMMA FillShape ==
    ASSUME TypeOK, WriterInv, NEW p \in Procs, fillManifest(p)
    PROVE  /\ Moved(p) /\ proc[p].release \in Releases
           /\ \/ proc'[p] = Idle
              \/ /\ proc'[p].pc = "exec" /\ proc'[p].hand = proc[p].release
                 /\ proc'[p].name = proc[p].name
<1>0. proc[p] \in Process /\ proc[p].name \in Extensions /\ proc[p].pc = "fill"
  BY DEF fillManifest, TypeOK
<1>1. proc[p].release \in Releases
  BY <1>0 DEF WriterInv, Underway, Writing
<1>2. CASE ends(p)
  BY <1>1, <1>2, EndsType DEF Moved
<1> DEFINE r == [proc[p] EXCEPT !.pc = "exec", !.hand = proc[p].release]
<1>3. CASE become(p, r)
  <2>1. /\ r \in Process /\ r.pc = "exec" /\ r.hand = proc[p].release /\ r.name = proc[p].name
    BY <1>0, <1>1 DEF Process, Steps
  <2> HIDE DEF r
  <2> QED BY <1>0, <1>1, <1>3, <2>1, Becomes DEF Moved
<1> QED BY <1>2, <1>3 DEF fillManifest

LEMMA ExecShape ==
    ASSUME TypeOK, NEW p \in Procs, exec(p)
    PROVE  /\ Moved(p)
           /\ \/ proc'[p] = Idle
              \/ /\ proc'[p].pc = "running" /\ proc'[p].hand = proc[p].hand
                 /\ proc'[p].name = proc[p].name
                 /\ proc'[p].ran = binary[proc[p].name] /\ binary[proc[p].name] # None
<1>0. proc[p] \in Process /\ proc[p].name \in Extensions
  BY DEF exec, TypeOK
<1>1. CASE ends(p)
  BY <1>1, EndsType DEF Moved
<1> DEFINE b == binary[proc[p].name]
           r == [proc[p] EXCEPT !.pc = "running", !.ran = b]
<1>2. CASE become(p, r) /\ b # None
  <2>0. b \in Seq(Nat) \cup {None}
    BY <1>0 DEF TypeOK
  <2>1. /\ r \in Process /\ r.pc = "running" /\ r.hand = proc[p].hand
        /\ r.name = proc[p].name /\ r.ran = b
    BY <1>0, <2>0 DEF Process, Steps
  <2> HIDE DEF r
  <2> QED BY <1>0, <1>2, <2>1, Becomes DEF Moved
<1> QED BY <1>1, <1>2 DEF exec

LEMMA RemoveShape ==
    ASSUME TypeOK, NEW p \in Procs, remove(p)
    PROVE  /\ Moved(p)
           /\ proc'[p] = Idle \/ (proc'[p].pc = "unlink" /\ proc'[p].name = proc[p].name)
<1>0. proc[p] \in Process /\ proc[p].name \in Extensions
  BY DEF remove, TypeOK
<1>1. CASE ends(p)
  BY <1>1, EndsType DEF Moved
<1> DEFINE n == proc[p].name
           listed == (IF binary[n] # None THEN {"binary"} ELSE {})
                \cup (IF manifest[n] # None THEN {"manifest"} ELSE {})
           r == [proc[p] EXCEPT !.pc = "unlink", !.entries = listed]
<1>2. CASE become(p, r)
  <2>0. listed \in SUBSET {"binary", "manifest"}
    OBVIOUS
  <2> HIDE DEF listed
  <2>1. r \in Process /\ r.pc = "unlink" /\ r.name = proc[p].name
    BY <1>0, <2>0 DEF Process, Steps
  <2> HIDE DEF r
  <2> QED BY <1>0, <1>2, <2>1, Becomes DEF Moved
<1> QED BY <1>1, <1>2 DEF remove

\* A removal also takes their files from the processes that write them.
Robbed(p) ==
    /\ proc' \in [Procs -> Process]
    /\ \A q \in Procs :
          /\ proc'[q].pc = proc[q].pc /\ proc'[q].name = proc[q].name
          /\ proc'[q].hand = proc[q].hand /\ proc'[q].at = proc[q].at
          /\ proc'[q].release = proc[q].release /\ proc'[q].offset = proc[q].offset
          /\ proc'[q].ran = proc[q].ran

LEMMA UnlinkBinaryShape ==
    ASSUME TypeOK, NEW p \in Procs, unlinkBinary(p)
    PROVE  /\ Robbed(p)
           /\ \A q \in Procs : /\ proc'[q].filling = proc[q].filling
                               /\ proc'[q].open = (proc[q].open /\ (q = p \/ proc[q].name # proc[p].name))
<1>0. \A q \in Procs : proc[q] \in Process
  BY DEF TypeOK
<1> DEFINE mine  == [proc[p] EXCEPT !.entries = @ \ {"binary"}]
           lost(q) == [proc[q] EXCEPT !.open = FALSE]
           same(r, q) == /\ r.pc = proc[q].pc /\ r.name = proc[q].name /\ r.hand = proc[q].hand
                         /\ r.at = proc[q].at /\ r.release = proc[q].release
                         /\ r.offset = proc[q].offset /\ r.ran = proc[q].ran
                         /\ r.filling = proc[q].filling
<1>1. mine \in Process /\ same(mine, p) /\ mine.open = proc[p].open
  BY <1>0 DEF Process
<1>2. \A q \in Procs : lost(q) \in Process /\ same(lost(q), q) /\ lost(q).open = FALSE
  BY <1>0 DEF Process
<1>3. proc' = [q \in Procs |-> IF q = p THEN mine
                               ELSE IF proc[q].name = proc[p].name THEN lost(q) ELSE proc[q]]
  BY DEF unlinkBinary
<1>4. \A q \in Procs : proc[q].open \in BOOLEAN
  BY <1>0 DEF Process
<1> HIDE DEF mine, lost
<1>5. proc' \in [Procs -> Process]
  BY <1>0, <1>1, <1>2, <1>3
<1>6. ASSUME NEW q \in Procs
      PROVE  same(proc'[q], q) /\ proc'[q].open = (proc[q].open /\ (q = p \/ proc[q].name # proc[p].name))
  BY <1>1, <1>2, <1>3, <1>4, <1>6
<1> QED BY <1>5, <1>6 DEF Robbed

LEMMA UnlinkManifestShape ==
    ASSUME TypeOK, NEW p \in Procs, unlinkManifest(p)
    PROVE  /\ Robbed(p)
           /\ \A q \in Procs :
                 /\ proc'[q].open = proc[q].open
                 /\ proc'[q].filling = (proc[q].filling /\ (q = p \/ proc[q].name # proc[p].name))
<1>0. \A q \in Procs : proc[q] \in Process
  BY DEF TypeOK
<1> DEFINE mine  == [proc[p] EXCEPT !.entries = @ \ {"manifest"}]
           lost(q) == [proc[q] EXCEPT !.filling = FALSE]
           same(r, q) == /\ r.pc = proc[q].pc /\ r.name = proc[q].name /\ r.hand = proc[q].hand
                         /\ r.at = proc[q].at /\ r.release = proc[q].release
                         /\ r.offset = proc[q].offset /\ r.ran = proc[q].ran
                         /\ r.open = proc[q].open
<1>1. mine \in Process /\ same(mine, p) /\ mine.filling = proc[p].filling
  BY <1>0 DEF Process
<1>2. \A q \in Procs : lost(q) \in Process /\ same(lost(q), q) /\ lost(q).filling = FALSE
  BY <1>0 DEF Process
<1>3. proc' = [q \in Procs |-> IF q = p THEN mine
                               ELSE IF proc[q].name = proc[p].name THEN lost(q) ELSE proc[q]]
  BY DEF unlinkManifest
<1>4. \A q \in Procs : proc[q].filling \in BOOLEAN
  BY <1>0 DEF Process
<1> HIDE DEF mine, lost
<1>5. proc' \in [Procs -> Process]
  BY <1>0, <1>1, <1>2, <1>3
<1>6. ASSUME NEW q \in Procs
      PROVE  same(proc'[q], q) /\ proc'[q].filling = (proc[q].filling /\ (q = p \/ proc[q].name # proc[p].name))
  BY <1>1, <1>2, <1>3, <1>4, <1>6
<1> QED BY <1>5, <1>6 DEF Robbed

\* Only the step of a process changes.
LEMMA GotoKeeps ==
    ASSUME TypeOK, NEW p \in Procs, NEW s, NEW r, r = [proc[p] EXCEPT !.pc = s]
    PROVE  /\ Keeps(r, p) /\ r.pc = s /\ r.hand = proc[p].hand /\ r.at = proc[p].at
           /\ r.release = proc[p].release /\ r.offset = proc[p].offset
<1>1. proc[p] \in Process
  BY DEF TypeOK
<1> QED BY <1>1 DEF Process, Keeps

LEMMA BeginShape ==
    ASSUME TypeOK, NEW p \in Procs, begin(p)
    PROVE  /\ Moved(p)
           /\ \/ proc'[p] = Idle
              \/ /\ Keeps(proc'[p], p) /\ proc'[p].hand = proc[p].hand
                 /\ proc'[p].pc \in {"lookup", "remove", "exec"}
                 /\ proc'[p].pc = "exec" => proc[p].hand # None
<1>1. CASE ends(p)
  BY <1>1, EndsType DEF Moved
<1>2. ASSUME NEW s \in {"lookup", "remove", "exec"}, goto(p, s), s = "exec" => proc[p].hand # None
      PROVE  Moved(p) /\ Keeps(proc'[p], p) /\ proc'[p].hand = proc[p].hand /\ proc'[p].pc = s
  <2>1. s \in Steps /\ proc[p].pc # "idle"
    BY DEF Steps, begin
  <2>2. Moved(p) /\ proc'[p] = [proc[p] EXCEPT !.pc = s]
    BY <1>2, <2>1, GotoType DEF Moved
  <2> QED BY <2>2, GotoKeeps
<1> QED BY <1>1, <1>2 DEF begin

\* Whoever fails or is over writes no more.
LEMMA OutShape ==
    ASSUME TypeOK, NEW p \in Procs, ends(p) \/ (giveUp(p) /\ proc[p].pc # "idle")
    PROVE  /\ Moved(p)
           /\ \/ proc'[p] = Idle
              \/ proc'[p] = [proc[p] EXCEPT !.pc = "exec"] /\ proc[p].hand # None
BY EndsType, GiveUpType DEF Moved

LEMMA CopiedShape ==
    ASSUME TypeOK, NEW p \in Procs, copied(p)
    PROVE  /\ Moved(p) /\ Keeps(proc'[p], p)
           /\ proc'[p].pc = "empty" /\ proc'[p].hand = proc[p].hand
           /\ proc'[p].release = proc[p].release
<1>1. "empty" \in Steps /\ proc[p].pc # "idle"
  BY DEF Steps, copied
<1>2. Moved(p) /\ proc'[p] = [proc[p] EXCEPT !.pc = "empty"]
  BY <1>1, GotoType DEF Moved, copied
<1> QED BY <1>2, GotoKeeps

LEMMA DirShape ==
    ASSUME TypeOK, NEW p \in Procs, makeDir(p)
    PROVE  /\ Moved(p) /\ Keeps(proc'[p], p)
           /\ proc'[p].pc = "open" /\ proc'[p].hand = proc[p].hand
           /\ proc'[p].release = proc[p].release /\ dir' \in [Extensions -> BOOLEAN]
<1>1. "open" \in Steps /\ proc[p].pc # "idle"
  BY DEF Steps, makeDir
<1>2. Moved(p) /\ proc'[p] = [proc[p] EXCEPT !.pc = "open"]
  BY <1>1, GotoType DEF Moved, makeDir
<1>3. dir' \in [Extensions -> BOOLEAN]
  BY DEF makeDir, TypeOK
<1> QED BY <1>2, <1>3, GotoKeeps

-----------------------------------------------------------------------------
(* The steps preserve the types.                                           *)

\* The steps that change no file, and what they do to the rest.
resting(p) ==
    \/ \E n \in Extensions : visit(p, n)
    \/ decode(p) \/ begin(p) \/ lookup(p) \/ downloadFails(p) \/ makeDir(p)
    \/ exec(p) \/ remove(p) \/ Over(p)

Quiet(r) == r.pc \notin {"copy", "empty", "fill"}

LEMMA RestingShape ==
    ASSUME TypeOK, NEW p \in Procs, resting(p)
    PROVE  /\ Moved(p) /\ Quiet(proc[p]) /\ Quiet(proc'[p])
           /\ dir' \in [Extensions -> BOOLEAN]
           /\ UNCHANGED <<latest, binary, manifest, spoiled, touched, stirred>>
<1> USE DEF files, history, Quiet
<1>0. /\ Idle.pc = "idle" /\ \A s : [proc[p] EXCEPT !.pc = s].pc = s
      /\ dir \in [Extensions -> BOOLEAN]
  BY IdleType, GotoKeeps DEF TypeOK
<1>1. CASE \E n \in Extensions : visit(p, n)
  BY <1>0, <1>1, VisitShape DEF visit
<1>2. CASE decode(p)
  BY <1>0, <1>2, DecodeShape DEF decode
<1>3. CASE begin(p)
  BY <1>0, <1>3, BeginShape DEF begin
<1>4. CASE lookup(p)
  BY <1>0, <1>4, LookupShape DEF lookup
<1>5. CASE downloadFails(p)
  BY <1>0, <1>5, OutShape DEF downloadFails
<1>6. CASE exec(p)
  BY <1>0, <1>6, ExecShape DEF exec
<1>7. CASE remove(p)
  BY <1>0, <1>7, RemoveShape DEF remove
<1>8. CASE Over(p)
  BY <1>0, <1>8, OutShape DEF Over
<1>9. CASE makeDir(p)
  BY <1>9, DirShape DEF makeDir
<1> QED BY <1>1, <1>2, <1>3, <1>4, <1>5, <1>6, <1>7, <1>8, <1>9 DEF resting

LEMMA StepsOfNext ==
    ASSUME Next
    PROVE  \/ \E p \in Procs :
                 \/ resting(p) \/ Start(p) \/ copied(p) \/ openBinary(p) \/ copyPart(p)
                 \/ emptyManifest(p) \/ fillManifest(p) \/ writeFails(p) \/ Kill(p)
                 \/ unlinkBinary(p) \/ unlinkManifest(p) \/ rmdir(p)
           \/ \E n \in Extensions : Publish(n)
BY DEF Next, Write, resting

LEMMA TypeStep ==
    ASSUME TypeOK, WriterInv, Next
    PROVE  TypeOK'
<1> USE DEF Moved, files, history
<1>0. \A q \in Procs : proc[q].pc # "idle" => proc[q].name \in Extensions
  BY DEF TypeOK
<1>1. ASSUME NEW p \in Procs, resting(p)
      PROVE  TypeOK'
  BY <1>1, RestingShape DEF TypeOK
<1>2. ASSUME NEW p \in Procs, Start(p)
      PROVE  TypeOK'
  BY <1>2, StartShape DEF TypeOK, Start
<1>3. ASSUME NEW p \in Procs, copied(p)
      PROVE  TypeOK'
  BY <1>3, CopiedShape DEF TypeOK, copied
<1>4. ASSUME NEW p \in Procs, openBinary(p)
      PROVE  TypeOK'
  <2>1. proc[p].name \in Extensions
    BY <1>0, <1>4 DEF openBinary
  <2>2. /\ dir' \in [Extensions -> BOOLEAN] /\ binary' \in [Extensions -> Seq(Nat) \cup {None}]
        /\ spoiled' \in [Extensions -> BOOLEAN] /\ touched' \in [Procs -> BOOLEAN]
        /\ UNCHANGED <<latest, manifest, stirred>>
    BY <1>4, <2>1 DEF openBinary, touch, TypeOK
  <2> QED BY <1>4, <2>2, OpenShape DEF TypeOK
<1>5. ASSUME NEW p \in Procs, copyPart(p)
      PROVE  TypeOK'
  <2>1. proc[p].name \in Extensions /\ proc[p].pc = "copy"
    BY <1>0, <1>5 DEF copyPart
  <2>2. /\ proc[p].release \in Nat /\ proc[p].offset \in Nat
        /\ proc[p].open => binary[proc[p].name] \in Seq(Nat)
    BY <2>1, ReleasesAreNumbers DEF WriterInv, Underway, Writing
  <2>3. proc[p].open => writeAt(binary[proc[p].name], proc[p].offset, proc[p].release) \in Seq(Nat)
    BY <2>2, WriteAtType
  <2>4. binary' \in [Extensions -> Seq(Nat) \cup {None}]
    BY <1>5, <2>1, <2>3 DEF copyPart, TypeOK
  <2> QED BY <1>5, <2>4, CopyShape DEF TypeOK, copyPart
<1>6. ASSUME NEW p \in Procs, emptyManifest(p)
      PROVE  TypeOK'
  <2>1. proc[p].name \in Extensions
    BY <1>0, <1>6 DEF emptyManifest
  <2>2. /\ manifest' \in [Extensions -> Releases \cup {None, Torn}]
        /\ touched' \in [Procs -> BOOLEAN] /\ stirred' \in [Procs -> BOOLEAN]
        /\ UNCHANGED <<latest, dir, binary, spoiled>>
    BY <1>6, <2>1 DEF emptyManifest, touch, stir, walking, TypeOK
  <2> QED BY <1>6, <2>2, EmptyShape DEF TypeOK
<1>7. ASSUME NEW p \in Procs, fillManifest(p)
      PROVE  TypeOK'
  <2>1. proc[p].name \in Extensions /\ proc[p].release \in Releases
    BY <1>0, <1>7, FillShape DEF fillManifest
  <2>2. /\ manifest' \in [Extensions -> Releases \cup {None, Torn}]
        /\ touched' \in [Procs -> BOOLEAN] /\ stirred' \in [Procs -> BOOLEAN]
        /\ UNCHANGED <<latest, dir, binary, spoiled>>
    BY <1>7, <2>1 DEF fillManifest, filled, touch, stir, walking, TypeOK
  <2> QED BY <1>7, <2>2, FillShape DEF TypeOK
<1>8. ASSUME NEW p \in Procs, writeFails(p)
      PROVE  TypeOK'
  <2>1. proc[p].pc # "idle"
    BY <1>8 DEF writeFails, Writing
  <2> QED BY <1>8, <2>1, OutShape DEF TypeOK, writeFails
<1>9. ASSUME NEW p \in Procs, Kill(p)
      PROVE  TypeOK'
  <2>1. spoiled' \in [Extensions -> BOOLEAN]
    BY <1>9 DEF TypeOK, Kill, Writing
  <2> QED BY <1>9, <2>1, OutShape DEF TypeOK, Kill
<1>10. ASSUME NEW p \in Procs, unlinkBinary(p)
       PROVE  TypeOK'
  <2>1. proc[p].name \in Extensions
    BY <1>0, <1>10 DEF unlinkBinary
  <2>2. /\ binary' \in [Extensions -> Seq(Nat) \cup {None}] /\ touched' \in [Procs -> BOOLEAN]
        /\ UNCHANGED <<latest, dir, manifest, spoiled, stirred>>
    BY <1>10, <2>1 DEF unlinkBinary, touch, TypeOK
  <2>3. Robbed(p)
    BY <1>10, UnlinkBinaryShape
  <2> QED BY <1>0, <2>2, <2>3 DEF TypeOK, Robbed
<1>11. ASSUME NEW p \in Procs, unlinkManifest(p)
       PROVE  TypeOK'
  <2>1. proc[p].name \in Extensions
    BY <1>0, <1>11 DEF unlinkManifest
  <2>2. /\ manifest' \in [Extensions -> Releases \cup {None, Torn}]
        /\ touched' \in [Procs -> BOOLEAN] /\ stirred' \in [Procs -> BOOLEAN]
        /\ UNCHANGED <<latest, dir, binary, spoiled>>
    BY <1>11, <2>1 DEF unlinkManifest, touch, stir, walking, TypeOK
  <2>3. Robbed(p)
    BY <1>11, UnlinkManifestShape
  <2> QED BY <1>0, <2>2, <2>3 DEF TypeOK, Robbed
<1>12. ASSUME NEW p \in Procs, rmdir(p)
       PROVE  TypeOK'
  <2>1. dir' \in [Extensions -> BOOLEAN]
    BY <1>12 DEF rmdir, TypeOK
  <2> QED BY <1>12, <2>1, OutShape DEF TypeOK, rmdir
<1>13. ASSUME NEW n \in Extensions, Publish(n)
       PROVE  TypeOK'
  BY <1>13 DEF TypeOK, Publish
<1> QED BY <1>1, <1>2, <1>3, <1>4, <1>5, <1>6, <1>7, <1>8, <1>9, <1>10, <1>11, <1>12, <1>13,
           StepsOfNext

-----------------------------------------------------------------------------
(* The steps preserve what is known of the processes.                      *)

\* Nothing is torn or changed, and the process does not read on.
LEMMA StirElsewhere ==
    ASSUME StirInv, NEW p \in Procs, Moved(p), UNCHANGED <<manifest, stirred>>,
           proc'[p].pc \notin {"visit", "decode", "refused"}
    PROVE  StirInv'
BY DEF StirInv, Moved, walking

\* Whoever reads while a manifest changes is told apart.
LEMMA StirOthers ==
    ASSUME StirInv, NEW p \in Procs, TypeOK, stir,
           \A q \in Procs : proc'[q].pc = proc[q].pc
                            \/ (q = p /\ proc'[q].pc \notin {"visit", "decode", "refused"})
    PROVE  StirInv'
BY DEF StirInv, walking, stir, TypeOK

LEMMA StirStep ==
    ASSUME TypeOK, WriterInv, StirInv, Next
    PROVE  StirInv'
<1> USE DEF files, history
<1>0. /\ Idle.pc = "idle"
      /\ \A p \in Procs : /\ [proc[p] EXCEPT !.pc = "exec"].pc = "exec"
                          /\ [proc[p] EXCEPT !.pc = "empty"].pc = "empty"
  BY IdleType, GotoKeeps
<1>1. ASSUME NEW p \in Procs, NEW n \in Extensions, visit(p, n)
      PROVE  StirInv'
  <2>1. Moved(p) /\ UNCHANGED <<manifest, stirred>> /\ proc[p].pc = "visit"
    BY <1>1, VisitShape DEF visit
  <2> QED BY <1>1, <2>1, VisitShape DEF StirInv, Moved, walking
<1>2. ASSUME NEW p \in Procs, decode(p)
      PROVE  StirInv'
  <2>1. Moved(p) /\ UNCHANGED <<manifest, stirred>> /\ proc[p].pc = "decode"
    BY <1>2, DecodeShape DEF decode
  <2> QED BY <1>2, <2>1, DecodeShape DEF StirInv, Moved, walking
<1>3. ASSUME NEW p \in Procs,
             \/ begin(p) \/ lookup(p) \/ downloadFails(p) \/ makeDir(p)
             \/ exec(p) \/ remove(p) \/ Over(p)
      PROVE  StirInv'
  <2>1. Moved(p) /\ UNCHANGED <<manifest, stirred>>
    BY <1>3, RestingShape DEF resting
  <2>2. CASE begin(p)
    BY <1>0, <2>1, <2>2, BeginShape, StirElsewhere
  <2>3. CASE lookup(p)
    BY <1>0, <2>1, <2>3, LookupShape, StirElsewhere
  <2>4. CASE downloadFails(p)
    BY <1>0, <2>1, <2>4, OutShape, StirElsewhere DEF downloadFails
  <2>5. CASE exec(p)
    BY <1>0, <2>1, <2>5, ExecShape, StirElsewhere
  <2>6. CASE remove(p)
    BY <1>0, <2>1, <2>6, RemoveShape, StirElsewhere
  <2>7. CASE Over(p)
    BY <1>0, <2>1, <2>7, OutShape, StirElsewhere DEF Over
  <2>8. CASE makeDir(p)
    BY <1>0, <2>1, <2>8, DirShape, StirElsewhere
  <2> QED BY <1>3, <2>2, <2>3, <2>4, <2>5, <2>6, <2>7, <2>8
<1>4. ASSUME NEW p \in Procs, Start(p)
      PROVE  StirInv'
  <2>1. Moved(p) /\ proc'[p].pc = "visit" /\ manifest' = manifest
    BY <1>4, StartShape DEF Start
  <2>2. stirred'[p] = (\E n \in Extensions : manifest[n] = Torn)
    BY <1>4 DEF Start, TypeOK
  <2>3. \A q \in Procs \ {p} : stirred'[q] = stirred[q]
    BY <1>4 DEF Start, TypeOK
  <2> QED BY <2>1, <2>2, <2>3 DEF StirInv, Moved, walking
<1>5. ASSUME NEW p \in Procs, copied(p)
      PROVE  StirInv'
  BY <1>0, <1>5, CopiedShape, StirElsewhere DEF copied
<1>6. ASSUME NEW p \in Procs, openBinary(p)
      PROVE  StirInv'
  BY <1>6, OpenShape, StirElsewhere DEF openBinary
<1>7. ASSUME NEW p \in Procs, copyPart(p)
      PROVE  StirInv'
  BY <1>7, CopyShape, StirElsewhere DEF copyPart
<1>8. ASSUME NEW p \in Procs, emptyManifest(p)
      PROVE  StirInv'
  <2>1. \A q \in Procs : proc'[q].pc = proc[q].pc \/ (q = p /\ proc'[q].pc = "fill")
    BY <1>8, EmptyShape DEF Moved
  <2> QED BY <1>8, <2>1, StirOthers DEF emptyManifest
<1>9. ASSUME NEW p \in Procs, fillManifest(p)
      PROVE  StirInv'
  <2>1. \A q \in Procs : proc'[q].pc = proc[q].pc \/ (q = p /\ proc'[q].pc \in {"idle", "exec"})
    BY <1>0, <1>9, FillShape DEF Moved
  <2> QED BY <1>9, <2>1, StirOthers DEF fillManifest
<1>10. ASSUME NEW p \in Procs, writeFails(p)
       PROVE  StirInv'
  <2>1. proc[p].pc # "idle"
    BY <1>10 DEF writeFails, Writing
  <2> QED BY <1>0, <1>10, <2>1, OutShape, StirElsewhere DEF writeFails
<1>11. ASSUME NEW p \in Procs, Kill(p) \/ rmdir(p)
       PROVE  StirInv'
  BY <1>0, <1>11, EndsType, StirElsewhere DEF Kill, rmdir, Moved
<1>12. ASSUME NEW p \in Procs, unlinkBinary(p)
       PROVE  StirInv'
  BY <1>12, UnlinkBinaryShape DEF Robbed, unlinkBinary, StirInv, walking
<1>13. ASSUME NEW p \in Procs, unlinkManifest(p)
       PROVE  StirInv'
  BY <1>13, UnlinkManifestShape, StirOthers DEF Robbed, unlinkManifest
<1>14. ASSUME NEW n \in Extensions, Publish(n)
       PROVE  StirInv'
  BY <1>14 DEF Publish, StirInv, walking
<1> QED BY <1>1, <1>2, <1>3, <1>4, <1>5, <1>6, <1>7, <1>8, <1>9, <1>10, <1>11, <1>12, <1>13,
           <1>14, StepsOfNext DEF resting

\* Nobody else's release, offset or manifest is touched by what one process does.
LEMMA HoldsElsewhere ==
    ASSUME TypeOK, ExecInv, DownloadInv, NEW p \in Procs, Moved(p),
           proc'[p].pc \in {"exec", "running"} => proc'[p].hand \in Releases,
           proc'[p].pc \in {"visit", "decode", "lookup", "download", "open"} => proc'[p].offset = 0,
           proc'[p].pc \in {"download", "open"} => proc'[p].release \in Releases
    PROVE  (ExecInv /\ DownloadInv)'
BY DEF ExecInv, DownloadInv, Moved

LEMMA HoldStep ==
    ASSUME TypeOK, WriterInv, ExecInv, DownloadInv, Next
    PROVE  (ExecInv /\ DownloadInv)'
<1> USE DEF files, history
<1>0. Idle.pc = "idle" /\ \A p \in Procs : proc[p].hand \in Releases \cup {None}
  BY IdleType DEF TypeOK, Process
<1>1. ASSUME NEW p \in Procs, proc'[p] = [proc[p] EXCEPT !.pc = "exec"] /\ proc[p].hand # None
      PROVE  proc'[p].pc = "exec" /\ proc'[p].hand \in Releases
  BY <1>0, <1>1, GotoKeeps
<1>2. ASSUME NEW p \in Procs, NEW n \in Extensions, visit(p, n)
      PROVE  (ExecInv /\ DownloadInv)'
  <2>1. proc[p].offset = 0
    BY <1>2 DEF visit, DownloadInv
  <2> QED BY <1>2, <2>1, VisitShape, HoldsElsewhere DEF Keeps
<1>3. ASSUME NEW p \in Procs, decode(p)
      PROVE  (ExecInv /\ DownloadInv)'
  <2>1. proc[p].offset = 0
    BY <1>3 DEF decode, DownloadInv
  <2> QED BY <1>3, <2>1, DecodeShape, HoldsElsewhere DEF Keeps
<1>4. ASSUME NEW p \in Procs, begin(p)
      PROVE  (ExecInv /\ DownloadInv)'
  <2>1. proc[p].offset = 0
    BY <1>4 DEF begin, DownloadInv
  <2> QED BY <1>0, <1>4, <2>1, BeginShape, HoldsElsewhere DEF Keeps
<1>5. ASSUME NEW p \in Procs, lookup(p)
      PROVE  (ExecInv /\ DownloadInv)'
  <2>1. proc[p].offset = 0
    BY <1>5 DEF lookup, DownloadInv
  <2> QED BY <1>0, <1>1, <1>5, <2>1, LookupShape, HoldsElsewhere DEF Keeps
<1>6. ASSUME NEW p \in Procs, downloadFails(p) \/ writeFails(p) \/ Over(p) \/ Kill(p) \/ rmdir(p)
      PROVE  (ExecInv /\ DownloadInv)'
  <2>1. ends(p) \/ (giveUp(p) /\ proc[p].pc # "idle")
    BY <1>6 DEF downloadFails, writeFails, Over, Kill, rmdir, Writing
  <2> QED BY <1>0, <1>1, <2>1, OutShape, HoldsElsewhere
<1>7. ASSUME NEW p \in Procs, exec(p)
      PROVE  (ExecInv /\ DownloadInv)'
  <2>1. proc[p].hand \in Releases
    BY <1>7 DEF exec, ExecInv
  <2> QED BY <1>0, <1>7, <2>1, ExecShape, HoldsElsewhere
<1>8. ASSUME NEW p \in Procs, remove(p)
      PROVE  (ExecInv /\ DownloadInv)'
  BY <1>0, <1>8, RemoveShape, HoldsElsewhere
<1>9. ASSUME NEW p \in Procs, Start(p)
      PROVE  (ExecInv /\ DownloadInv)'
  BY <1>9, StartShape, HoldsElsewhere
<1>10. ASSUME NEW p \in Procs, copied(p)
       PROVE  (ExecInv /\ DownloadInv)'
  BY <1>10, CopiedShape, HoldsElsewhere
<1>11. ASSUME NEW p \in Procs, openBinary(p) \/ copyPart(p) \/ emptyManifest(p)
       PROVE  (ExecInv /\ DownloadInv)'
  BY <1>11, OpenShape, CopyShape, EmptyShape, HoldsElsewhere
<1>12. ASSUME NEW p \in Procs, fillManifest(p)
       PROVE  (ExecInv /\ DownloadInv)'
  BY <1>0, <1>12, FillShape, HoldsElsewhere
<1>13. ASSUME NEW p \in Procs, unlinkBinary(p) \/ unlinkManifest(p)
       PROVE  (ExecInv /\ DownloadInv)'
  <2>1. Robbed(p)
    BY <1>13, UnlinkBinaryShape, UnlinkManifestShape
  <2> QED BY <2>1 DEF Robbed, ExecInv, DownloadInv
<1>14. ASSUME NEW n \in Extensions, Publish(n)
       PROVE  (ExecInv /\ DownloadInv)'
  BY <1>14 DEF Publish, ExecInv, DownloadInv
<1>15. ASSUME NEW p \in Procs, makeDir(p)
       PROVE  (ExecInv /\ DownloadInv)'
  <2>1. proc[p].offset = 0 /\ proc[p].release \in Releases
    BY <1>15 DEF makeDir, DownloadInv
  <2> QED BY <1>15, <2>1, DirShape, HoldsElsewhere DEF Keeps
<1> QED BY <1>2, <1>3, <1>4, <1>5, <1>6, <1>7, <1>8, <1>9, <1>10, <1>11, <1>12, <1>13, <1>14,
           <1>15, StepsOfNext DEF resting

-----------------------------------------------------------------------------
(* The steps preserve what is known of the files.                          *)

\* A process that does not write, and does not start to, disturbs no writer.
LEMMA WritersElsewhere ==
    ASSUME TypeOK, WriterInv, RestInv, NEW p \in Procs, Moved(p),
           Quiet(proc[p]), Quiet(proc'[p]), UNCHANGED <<binary, manifest, spoiled>>
    PROVE  (WriterInv /\ RestInv)'
<1>1. \A n \in Extensions, q \in Procs : Writing(q, n)' <=> Writing(q, n)
  BY DEF Writing, Quiet, Moved
<1>2. \A n \in Extensions, q \in Procs : Writing(q, n) => proc'[q] = proc[q]
  BY DEF Writing, Quiet, Moved
<1>3. WriterInv'
  BY <1>1, <1>2 DEF WriterInv, Underway, Sole
<1>4. RestInv'
  BY <1>1 DEF RestInv, Whole
<1> QED BY <1>3, <1>4

\* A writer that stops half-way leaves a binary that is not to be relied on.
LEMMA WritersLeave ==
    ASSUME TypeOK, WriterInv, RestInv, NEW p \in Procs, Moved(p), Quiet(proc'[p]),
           UNCHANGED <<binary, manifest>>,
           \A n \in Extensions : spoiled'[n] = (spoiled[n] \/ Writing(p, n))
    PROVE  (WriterInv /\ RestInv)'
<1>1. \A n \in Extensions, q \in Procs : Writing(q, n)' <=> (q # p /\ Writing(q, n))
  BY DEF Writing, Quiet, Moved
<1>2. \A n \in Extensions, q \in Procs : q # p => proc'[q] = proc[q]
  BY DEF Moved
<1>3. WriterInv'
  <2> SUFFICES ASSUME NEW n \in Extensions, NEW q \in Procs, Writing(q, n)'
               PROVE  /\ Underway(q)'
                      /\ proc'[q].open => binary'[n] \in Seq(Nat)
                      /\ ~spoiled'[n] => Sole(q, n)'
    BY DEF WriterInv
  <2>1. Writing(q, n) /\ proc'[q] = proc[q]
    BY <1>1, <1>2
  <2>2. Underway(q) /\ (proc[q].open => binary[n] \in Seq(Nat)) /\ (~spoiled[n] => Sole(q, n))
    BY <2>1 DEF WriterInv
  <2>3. Underway(q)' /\ (proc'[q].open => binary'[n] \in Seq(Nat))
    BY <2>1, <2>2 DEF Underway
  <2>4. ASSUME ~spoiled'[n]
        PROVE  Sole(q, n)'
    BY <1>1, <2>1, <2>2, <2>4 DEF Sole
  <2> QED BY <2>3, <2>4
<1>4. RestInv'
  <2> SUFFICES ASSUME NEW n \in Extensions, \A q \in Procs : ~Writing(q, n)', ~spoiled'[n]
               PROVE  Whole(n)'
    BY DEF RestInv, Whole
  <2>1. \A q \in Procs : ~Writing(q, n)
    BY <1>1
  <2> QED BY <2>1 DEF RestInv, Whole
<1> QED BY <1>3, <1>4

LEMMA OpenFiles ==
    ASSUME TypeOK, WriterInv, RestInv, DownloadInv, NEW p \in Procs, openBinary(p)
    PROVE  (WriterInv /\ RestInv)'
<1> DEFINE n == proc[p].name
<1>1. n \in Extensions /\ proc[p].pc = "open"
  BY DEF openBinary, TypeOK
<1>2. /\ Moved(p) /\ proc'[p].name = n /\ proc'[p].pc = "copy" /\ proc'[p].open
      /\ proc'[p].release = proc[p].release /\ proc'[p].offset = proc[p].offset
  BY OpenShape
<1>3. /\ binary'[n] = <<>> /\ spoiled'[n] = (\E q \in Procs : Writing(q, n))
      /\ \A m \in Extensions : m # n => binary'[m] = binary[m] /\ spoiled'[m] = spoiled[m]
      /\ manifest' = manifest
  BY <1>1 DEF openBinary, TypeOK, files
<1>4. proc[p].release \in Releases /\ proc[p].offset = 0
  BY <1>1 DEF DownloadInv
<1>5. \A m \in Extensions, q \in Procs : Writing(q, m)' <=> (Writing(q, m) \/ (q = p /\ m = n))
  BY <1>1, <1>2 DEF Writing, Moved
<1>6. \A q \in Procs : q # p => proc'[q] = proc[q]
  BY <1>2 DEF Moved
<1>7. \A m \in Extensions : ~Writing(p, m)
  BY <1>1 DEF Writing
<1> HIDE DEF n
<1>10. binary'[n] \in Seq(Nat)
  BY <1>3
<1>8. WriterInv'
  <2> SUFFICES ASSUME NEW m \in Extensions, NEW q \in Procs, Writing(q, m)'
               PROVE  /\ Underway(q)'
                      /\ proc'[q].open => binary'[m] \in Seq(Nat)
                      /\ ~spoiled'[m] => Sole(q, m)'
    BY DEF WriterInv
  <2>1. CASE q = p
    <3>1. m = n
      BY <1>2, <2>1 DEF Writing
    <3>2. Underway(q)'
      BY <1>2, <1>4, <2>1, ReleasesAreNumbers DEF Underway
    <3>3. Copied(proc[p].release, 0) = <<>>
      BY DEF Copied
    <3>4. ASSUME ~spoiled'[m]
          PROVE  Sole(q, m)'
      <4>1. \A x \in Procs : Writing(x, m)' => x = q
        BY <1>3, <1>5, <2>1, <3>1, <3>4
      <4>2. binary'[m] = Copied(proc'[q].release, proc'[q].offset)
        BY <1>2, <1>3, <1>4, <2>1, <3>1, <3>3
      <4> QED BY <1>2, <2>1, <4>1, <4>2 DEF Sole
    <3> QED BY <1>10, <3>1, <3>2, <3>4
  <2>2. CASE q # p
    <3>1. Writing(q, m) /\ proc'[q] = proc[q]
      BY <1>5, <1>6, <2>2
    <3>2. Underway(q) /\ (proc[q].open => binary[m] \in Seq(Nat)) /\ (~spoiled[m] => Sole(q, m))
      BY <3>1 DEF WriterInv
    <3>3. Underway(q)'
      BY <3>1, <3>2 DEF Underway
    <3>5. proc'[q].open => binary'[m] \in Seq(Nat)
      BY <1>3, <1>10, <3>1, <3>2
    <3>4. ASSUME ~spoiled'[m]
          PROVE  Sole(q, m)'
      <4>1. m # n
        BY <1>3, <3>1, <3>4
      <4> QED BY <1>3, <1>5, <3>1, <3>2, <3>4, <4>1 DEF Sole
    <3> QED BY <3>3, <3>4, <3>5
  <2> QED BY <2>1, <2>2
<1>9. RestInv'
  <2> SUFFICES ASSUME NEW m \in Extensions, \A q \in Procs : ~Writing(q, m)'
               PROVE  Whole(m)'
    BY DEF RestInv
  <2>1. m # n /\ \A q \in Procs : ~Writing(q, m)
    BY <1>5
  <2> QED BY <1>3, <2>1 DEF RestInv, Whole
<1> QED BY <1>8, <1>9

LEMMA CopyGrows ==
    ASSUME NEW r \in Nat, NEW k \in Nat
    PROVE  writeAt(Copied(r, k), k, r) = Copied(r, k + 1)
<1>1. Len(Copied(r, k)) = k
  BY DEF Copied
<1>2. writeAt(Copied(r, k), k, r) =
        [i \in 1 .. k + 1 |-> IF i = k + 1 THEN r ELSE IF i <= k THEN Copied(r, k)[i] ELSE 0]
  BY <1>1 DEF writeAt
<1>3. \A i \in 1 .. k : Copied(r, k)[i] = r
  BY DEF Copied
<1> QED BY <1>2, <1>3 DEF Copied

\* The one writer of a file gets on with it.
GoesOn(p, n) ==
    /\ Writing(p, n) /\ Writing(p, n)' /\ Moved(p) /\ spoiled' = spoiled
    /\ \A m \in Extensions \ {n} : binary'[m] = binary[m] /\ manifest'[m] = manifest[m]
    /\ binary'[n] = binary[n] \/ binary'[n] \in Seq(Nat)
    /\ Underway(p)'
    /\ proc'[p].open => binary'[n] \in Seq(Nat)
    /\ ~spoiled[n] =>
          /\ binary'[n] = IF proc'[p].open THEN Copied(proc'[p].release, proc'[p].offset) ELSE None
          /\ proc'[p].pc = "fill" => manifest'[n] = IF proc'[p].filling THEN Torn ELSE None

LEMMA WriterGoesOn ==
    ASSUME TypeOK, WriterInv, RestInv, NEW p \in Procs, NEW n \in Extensions, GoesOn(p, n)
    PROVE  (WriterInv /\ RestInv)'
<1>1. \A m \in Extensions, q \in Procs : Writing(q, m)' <=> Writing(q, m)
  BY DEF GoesOn, Writing, Moved
<1>2. \A q \in Procs : q # p => proc'[q] = proc[q]
  BY DEF GoesOn, Moved
<1>3. WriterInv'
  <2> SUFFICES ASSUME NEW m \in Extensions, NEW q \in Procs, Writing(q, m)'
               PROVE  /\ Underway(q)'
                      /\ proc'[q].open => binary'[m] \in Seq(Nat)
                      /\ ~spoiled'[m] => Sole(q, m)'
    BY DEF WriterInv
  <2>1. Underway(q) /\ (proc[q].open => binary[m] \in Seq(Nat)) /\ (~spoiled[m] => Sole(q, m))
    BY <1>1 DEF WriterInv
  <2>2. ~spoiled'[m] => \A x \in Procs : Writing(x, m)' => x = q
    BY <1>1, <2>1 DEF GoesOn, Sole
  <2>3. CASE q = p
    <3>1. m = n
      BY <2>3 DEF GoesOn, Writing
    <3> QED BY <2>2, <2>3, <3>1 DEF GoesOn, Sole
  <2>4. CASE q # p
    <3>1. proc'[q] = proc[q]
      BY <1>2, <2>4
    <3>2. Underway(q)'
      BY <2>1, <3>1 DEF Underway
    <3>3. proc'[q].open => binary'[m] \in Seq(Nat)
      BY <2>1, <3>1 DEF GoesOn
    <3>4. ~spoiled'[m] => m # n
      BY <2>2, <2>4 DEF GoesOn
    <3>5. m # n /\ ~spoiled'[m] => Sole(q, m)'
      BY <1>1, <2>1, <3>1 DEF GoesOn, Sole
    <3> QED BY <3>2, <3>3, <3>4, <3>5
  <2> QED BY <2>3, <2>4
<1>4. RestInv'
  <2> SUFFICES ASSUME NEW m \in Extensions, \A q \in Procs : ~Writing(q, m)'
               PROVE  Whole(m)'
    BY DEF RestInv
  <2>1. m # n /\ \A q \in Procs : ~Writing(q, m)
    BY <1>1 DEF GoesOn
  <2> QED BY <2>1 DEF GoesOn, RestInv, Whole
<1> QED BY <1>3, <1>4

LEMMA CopyFiles ==
    ASSUME TypeOK, WriterInv, RestInv, NEW p \in Procs, copyPart(p)
    PROVE  (WriterInv /\ RestInv)'
<1> DEFINE n == proc[p].name
           r == proc[p].release
           k == proc[p].offset
<1>1. n \in Extensions /\ proc[p].pc = "copy" /\ k < Parts[r]
  BY DEF copyPart, TypeOK
<1>2. /\ Moved(p) /\ proc'[p].name = n /\ proc'[p].pc = "copy" /\ proc'[p].open = proc[p].open
      /\ proc'[p].release = r /\ proc'[p].offset = k + 1
  BY <1>1, CopyShape
<1>3. Writing(p, n) /\ Writing(p, n)'
  BY <1>1, <1>2 DEF Writing
<1>4. Underway(p) /\ (proc[p].open => binary[n] \in Seq(Nat)) /\ (~spoiled[n] => Sole(p, n))
  BY <1>1, <1>3 DEF WriterInv
<1>5. r \in Releases /\ r \in Nat /\ k \in Nat /\ Parts[r] \in Nat
  BY <1>4, ReleasesAreNumbers DEF Underway
<1>6. Underway(p)'
  BY <1>1, <1>2, <1>5 DEF Underway
<1>7. /\ binary'[n] = IF proc[p].open THEN writeAt(binary[n], k, r) ELSE binary[n]
      /\ \A m \in Extensions \ {n} : binary'[m] = binary[m]
      /\ manifest' = manifest /\ spoiled' = spoiled
  BY <1>1 DEF copyPart, TypeOK, history
<1>8. proc[p].open => binary'[n] \in Seq(Nat)
  BY <1>4, <1>5, <1>7, WriteAtType
<1>9. ASSUME ~spoiled[n]
      PROVE  binary'[n] = IF proc'[p].open THEN Copied(proc'[p].release, proc'[p].offset) ELSE None
  <2>1. binary[n] = IF proc[p].open THEN Copied(r, k) ELSE None
    BY <1>4, <1>9 DEF Sole
  <2>2. writeAt(Copied(r, k), k, r) = Copied(r, k + 1)
    BY <1>5, CopyGrows
  <2>3. binary'[n] = IF proc[p].open THEN Copied(r, k + 1) ELSE None
    BY <1>7, <2>1, <2>2
  <2> QED BY <1>2, <2>3
<1>10. binary'[n] = binary[n] \/ binary'[n] \in Seq(Nat)
  BY <1>7, <1>8
<1>11. /\ \A m \in Extensions \ {n} : binary'[m] = binary[m] /\ manifest'[m] = manifest[m]
       /\ proc'[p].open => binary'[n] \in Seq(Nat)
       /\ proc'[p].pc # "fill"
  BY <1>2, <1>7, <1>8
<1> HIDE DEF n, r, k
<1>12. GoesOn(p, n)
  BY <1>2, <1>3, <1>6, <1>7, <1>9, <1>10, <1>11 DEF GoesOn
<1> QED BY <1>1, <1>12, WriterGoesOn

LEMMA CopiedFiles ==
    ASSUME TypeOK, WriterInv, RestInv, NEW p \in Procs, copied(p)
    PROVE  (WriterInv /\ RestInv)'
<1> DEFINE n == proc[p].name
<1>1. n \in Extensions /\ proc[p].pc = "copy" /\ proc[p].offset = Parts[proc[p].release]
  BY DEF copied, TypeOK
<1>2. /\ Moved(p) /\ proc'[p].name = n /\ proc'[p].pc = "empty" /\ proc'[p].open = proc[p].open
      /\ proc'[p].release = proc[p].release /\ proc'[p].offset = proc[p].offset
  BY CopiedShape DEF Keeps
<1>3. Writing(p, n) /\ Writing(p, n)'
  BY <1>1, <1>2 DEF Writing
<1>4. Underway(p) /\ (proc[p].open => binary[n] \in Seq(Nat)) /\ (~spoiled[n] => Sole(p, n))
  BY <1>1, <1>3 DEF WriterInv
<1>5. Underway(p)'
  BY <1>1, <1>2, <1>4 DEF Underway
<1>6. UNCHANGED <<binary, manifest, spoiled>>
  BY DEF copied, files, history
<1>7. ~spoiled[n] =>
         binary'[n] = IF proc'[p].open THEN Copied(proc'[p].release, proc'[p].offset) ELSE None
  BY <1>2, <1>4, <1>6 DEF Sole
<1>8. /\ \A m \in Extensions \ {n} : binary'[m] = binary[m] /\ manifest'[m] = manifest[m]
      /\ proc'[p].open => binary'[n] \in Seq(Nat)
      /\ proc'[p].pc # "fill" /\ binary'[n] = binary[n] /\ spoiled' = spoiled
  BY <1>2, <1>4, <1>6
<1> HIDE DEF n
<1>9. GoesOn(p, n)
  BY <1>2, <1>3, <1>5, <1>7, <1>8 DEF GoesOn
<1> QED BY <1>1, <1>9, WriterGoesOn

LEMMA EmptyFiles ==
    ASSUME TypeOK, WriterInv, RestInv, NEW p \in Procs, emptyManifest(p)
    PROVE  (WriterInv /\ RestInv)'
<1> DEFINE n == proc[p].name
<1>1. n \in Extensions /\ proc[p].pc = "empty"
  BY DEF emptyManifest, TypeOK
<1>2. /\ Moved(p) /\ proc'[p].name = n /\ proc'[p].pc = "fill" /\ proc'[p].open = proc[p].open
      /\ proc'[p].filling /\ proc'[p].release = proc[p].release /\ proc'[p].offset = proc[p].offset
  BY EmptyShape
<1>3. Writing(p, n) /\ Writing(p, n)'
  BY <1>1, <1>2 DEF Writing
<1>4. Underway(p) /\ (proc[p].open => binary[n] \in Seq(Nat)) /\ (~spoiled[n] => Sole(p, n))
  BY <1>1, <1>3 DEF WriterInv
<1>5. Underway(p)'
  BY <1>1, <1>2, <1>4 DEF Underway
<1>6. /\ binary' = binary /\ spoiled' = spoiled /\ manifest'[n] = Torn
      /\ \A m \in Extensions \ {n} : manifest'[m] = manifest[m]
  BY <1>1 DEF emptyManifest, TypeOK
<1>7. ~spoiled[n] =>
         binary'[n] = IF proc'[p].open THEN Copied(proc'[p].release, proc'[p].offset) ELSE None
  BY <1>2, <1>4, <1>6 DEF Sole
<1>8. /\ \A m \in Extensions \ {n} : binary'[m] = binary[m] /\ manifest'[m] = manifest[m]
      /\ proc'[p].open => binary'[n] \in Seq(Nat)
      /\ proc'[p].filling /\ manifest'[n] = Torn /\ binary'[n] = binary[n] /\ spoiled' = spoiled
  BY <1>2, <1>4, <1>6
<1> HIDE DEF n
<1>9. GoesOn(p, n)
  BY <1>2, <1>3, <1>5, <1>7, <1>8 DEF GoesOn
<1> QED BY <1>1, <1>9, WriterGoesOn

\* The manifest is there: the file is at rest, and it is the one the manifest names.
LEMMA FillFiles ==
    ASSUME TypeOK, WriterInv, RestInv, NEW p \in Procs, fillManifest(p)
    PROVE  /\ (WriterInv /\ RestInv)'
           /\ ~spoiled[proc[p].name] /\ proc[p].filling =>
                manifest'[proc[p].name] = proc[p].release
<1> DEFINE n == proc[p].name
<1>1. n \in Extensions /\ proc[p].pc = "fill"
  BY DEF fillManifest, TypeOK
<1>2. Moved(p) /\ Quiet(proc'[p])
  BY FillShape, IdleType DEF Quiet
<1>3. Writing(p, n)
  BY <1>1 DEF Writing
<1>4. Underway(p) /\ (~spoiled[n] => Sole(p, n))
  BY <1>1, <1>3 DEF WriterInv
<1>5. /\ binary' = binary /\ spoiled' = spoiled /\ manifest'[n] \in filled(p)
      /\ \A m \in Extensions \ {n} : manifest'[m] = manifest[m]
  BY <1>1 DEF fillManifest, TypeOK
<1>6. ~spoiled[n] => manifest'[n] = IF proc[p].filling THEN proc[p].release ELSE None
  BY <1>1, <1>4, <1>5 DEF filled, Sole
<1> HIDE DEF n
<1>7. \A m \in Extensions, q \in Procs : Writing(q, m)' <=> (q # p /\ Writing(q, m))
  BY <1>2 DEF Writing, Quiet, Moved
<1>8. WriterInv'
  <2> SUFFICES ASSUME NEW m \in Extensions, NEW q \in Procs, Writing(q, m)'
               PROVE  /\ Underway(q)'
                      /\ proc'[q].open => binary'[m] \in Seq(Nat)
                      /\ ~spoiled'[m] => Sole(q, m)'
    BY DEF WriterInv
  <2>1. Underway(q) /\ (proc[q].open => binary[m] \in Seq(Nat)) /\ (~spoiled[m] => Sole(q, m))
    BY <1>7 DEF WriterInv
  <2>2. proc'[q] = proc[q]
    BY <1>2, <1>7 DEF Moved
  <2>3. Underway(q)' /\ (proc'[q].open => binary'[m] \in Seq(Nat))
    BY <1>5, <2>1, <2>2 DEF Underway
  <2>4. ASSUME ~spoiled'[m]
        PROVE  Sole(q, m)'
    <3>1. Sole(q, m)
      BY <1>5, <2>1, <2>4
    <3>2. m # n
      BY <1>3, <1>7, <3>1 DEF Sole
    <3> QED BY <1>5, <1>7, <2>2, <3>1, <3>2 DEF Sole
  <2> QED BY <2>3, <2>4
<1>9. RestInv'
  <2> SUFFICES ASSUME NEW m \in Extensions, \A q \in Procs : ~Writing(q, m)', ~spoiled'[m],
                      binary'[m] # None, manifest'[m] \notin {None, Torn}
               PROVE  binary'[m] = Image(manifest'[m])
    BY DEF RestInv, Whole
  <2>1. CASE m = n
    <3>1. proc[p].filling /\ proc[p].open /\ manifest'[m] = proc[p].release
      BY <1>4, <1>5, <1>6, <2>1 DEF Sole
    <3>2. binary[m] = Copied(proc[p].release, Parts[proc[p].release])
      BY <1>1, <1>4, <1>5, <2>1, <3>1 DEF Sole, Underway
    <3> QED BY <1>5, <3>1, <3>2 DEF Image, Copied
  <2>2. CASE m # n
    <3>1. \A q \in Procs : ~Writing(q, m)
      BY <1>3, <1>7, <2>2 DEF Writing, n
    <3> QED BY <1>5, <2>2, <3>1 DEF RestInv, Whole
  <2> QED BY <2>1, <2>2
<1> QED BY <1>6, <1>8, <1>9 DEF n

LEMMA UnlinkBinaryFiles ==
    ASSUME TypeOK, WriterInv, RestInv, NEW p \in Procs, unlinkBinary(p)
    PROVE  (WriterInv /\ RestInv)'
<1> DEFINE n == proc[p].name
<1>1. n \in Extensions /\ proc[p].pc = "unlink"
  BY DEF unlinkBinary, TypeOK
<1>2. /\ Robbed(p)
      /\ \A q \in Procs : /\ proc'[q].filling = proc[q].filling
                          /\ proc'[q].open = (proc[q].open /\ (q = p \/ proc[q].name # n))
  BY UnlinkBinaryShape
<1>3. /\ binary'[n] = None /\ manifest' = manifest /\ spoiled' = spoiled
      /\ \A m \in Extensions \ {n} : binary'[m] = binary[m]
  BY <1>1 DEF unlinkBinary, TypeOK
<1> HIDE DEF n
<1>4. \A m \in Extensions, q \in Procs : Writing(q, m)' <=> Writing(q, m)
  BY <1>2 DEF Writing, Robbed
<1>5. WriterInv'
  <2> SUFFICES ASSUME NEW m \in Extensions, NEW q \in Procs, Writing(q, m)'
               PROVE  /\ Underway(q)'
                      /\ proc'[q].open => binary'[m] \in Seq(Nat)
                      /\ ~spoiled'[m] => Sole(q, m)'
    BY DEF WriterInv
  <2>1. Underway(q) /\ (proc[q].open => binary[m] \in Seq(Nat)) /\ (~spoiled[m] => Sole(q, m))
    BY <1>4 DEF WriterInv
  <2>2. proc[q].name = m /\ q # p
    BY <1>1, <1>4 DEF Writing
  <2>3. Underway(q)'
    BY <1>2, <2>1 DEF Underway, Robbed
  <2>4. CASE m = n
    <3>1. ~proc'[q].open /\ binary'[m] = None
      BY <1>2, <1>3, <2>2, <2>4
    <3> QED BY <1>2, <1>3, <1>4, <2>1, <2>3, <3>1 DEF Sole, Robbed
  <2>5. CASE m # n
    <3>1. proc'[q].open = proc[q].open /\ binary'[m] = binary[m]
      <4>1. proc[q].open \in BOOLEAN
        BY DEF TypeOK, Process
      <4> QED BY <1>2, <1>3, <2>2, <2>5, <4>1
    <3> QED BY <1>2, <1>3, <1>4, <2>1, <2>3, <3>1 DEF Sole, Robbed
  <2> QED BY <2>4, <2>5
<1>6. RestInv'
  BY <1>3, <1>4 DEF RestInv, Whole
<1> QED BY <1>5, <1>6

LEMMA UnlinkManifestFiles ==
    ASSUME TypeOK, WriterInv, RestInv, NEW p \in Procs, unlinkManifest(p)
    PROVE  (WriterInv /\ RestInv)'
<1> DEFINE n == proc[p].name
<1>1. n \in Extensions /\ proc[p].pc = "unlink"
  BY DEF unlinkManifest, TypeOK
<1>2. /\ Robbed(p)
      /\ \A q \in Procs :
            /\ proc'[q].open = proc[q].open
            /\ proc'[q].filling = (proc[q].filling /\ (q = p \/ proc[q].name # n))
  BY UnlinkManifestShape
<1>3. /\ manifest'[n] = None /\ binary' = binary /\ spoiled' = spoiled
      /\ \A m \in Extensions \ {n} : manifest'[m] = manifest[m]
  BY <1>1 DEF unlinkManifest, TypeOK
<1> HIDE DEF n
<1>4. \A m \in Extensions, q \in Procs : Writing(q, m)' <=> Writing(q, m)
  BY <1>2 DEF Writing, Robbed
<1>5. WriterInv'
  <2> SUFFICES ASSUME NEW m \in Extensions, NEW q \in Procs, Writing(q, m)'
               PROVE  /\ Underway(q)'
                      /\ proc'[q].open => binary'[m] \in Seq(Nat)
                      /\ ~spoiled'[m] => Sole(q, m)'
    BY DEF WriterInv
  <2>1. Underway(q) /\ (proc[q].open => binary[m] \in Seq(Nat)) /\ (~spoiled[m] => Sole(q, m))
    BY <1>4 DEF WriterInv
  <2>2. proc[q].name = m /\ q # p /\ proc[q].filling \in BOOLEAN
    BY <1>1, <1>4 DEF Writing, TypeOK, Process
  <2>3. Underway(q)'
    BY <1>2, <2>1 DEF Underway, Robbed
  <2>4. ~spoiled'[m] /\ proc'[q].pc = "fill" =>
            manifest'[m] = IF proc'[q].filling THEN Torn ELSE None
    BY <1>2, <1>3, <2>1, <2>2 DEF Sole, Robbed
  <2> QED BY <1>2, <1>3, <1>4, <2>1, <2>3, <2>4 DEF Sole, Robbed
<1>6. RestInv'
  BY <1>3, <1>4 DEF RestInv, Whole
<1> QED BY <1>5, <1>6

LEMMA FilesStep ==
    ASSUME TypeOK, WriterInv, RestInv, DownloadInv, Next
    PROVE  (WriterInv /\ RestInv)'
<1>0. Quiet(Idle) /\ \A p \in Procs : Quiet([proc[p] EXCEPT !.pc = "exec"])
  BY IdleType, GotoKeeps DEF Quiet
<1>1. ASSUME NEW p \in Procs, resting(p)
      PROVE  (WriterInv /\ RestInv)'
  BY <1>1, RestingShape, WritersElsewhere
<1>2. ASSUME NEW p \in Procs, Start(p)
      PROVE  (WriterInv /\ RestInv)'
  <2>1. Quiet(proc[p]) /\ UNCHANGED <<binary, manifest, spoiled>>
    BY <1>2 DEF Start, Quiet, files
  <2> QED BY <1>2, <2>1, StartShape, WritersElsewhere DEF Quiet
<1>3. ASSUME NEW p \in Procs, rmdir(p)
      PROVE  (WriterInv /\ RestInv)'
  <2>1. Quiet(proc[p]) /\ UNCHANGED <<binary, manifest, spoiled>>
    BY <1>3 DEF rmdir, Quiet, history
  <2>2. Moved(p) /\ Quiet(proc'[p])
    BY <1>0, <1>3, EndsType DEF rmdir, Moved
  <2> QED BY <2>1, <2>2, WritersElsewhere
<1>4. ASSUME NEW p \in Procs, writeFails(p)
      PROVE  (WriterInv /\ RestInv)'
  <2>1. proc[p].pc # "idle" /\ Writing(p, proc[p].name)
    BY <1>4 DEF writeFails, Writing
  <2>2. Moved(p) /\ Quiet(proc'[p])
    BY <1>0, <1>4, <2>1, OutShape DEF writeFails
  <2>3. UNCHANGED <<binary, manifest>>
    BY <1>4 DEF writeFails, files
  <2>4. \A n \in Extensions : spoiled'[n] = (spoiled[n] \/ Writing(p, n))
    BY <1>4, <2>1 DEF writeFails, Writing, TypeOK
  <2> QED BY <2>2, <2>3, <2>4, WritersLeave
<1>5. ASSUME NEW p \in Procs, Kill(p)
      PROVE  (WriterInv /\ RestInv)'
  <2>1. Moved(p) /\ Quiet(proc'[p])
    BY <1>0, <1>5, EndsType DEF Kill, Moved
  <2>2. UNCHANGED <<binary, manifest>> /\ \A n \in Extensions : spoiled'[n] = (spoiled[n] \/ Writing(p, n))
    BY <1>5 DEF Kill, files
  <2> QED BY <2>1, <2>2, WritersLeave
<1>6. ASSUME NEW n \in Extensions, Publish(n)
      PROVE  (WriterInv /\ RestInv)'
  BY <1>6 DEF Publish, files, history, WriterInv, Writing, Underway, Sole, RestInv, Whole
<1> QED BY <1>1, <1>2, <1>3, <1>4, <1>5, <1>6, OpenFiles, CopyFiles, CopiedFiles, EmptyFiles,
           FillFiles, UnlinkBinaryFiles, UnlinkManifestFiles, StepsOfNext

-----------------------------------------------------------------------------
(* The steps preserve what a process knows of its extension.               *)

\* What the steps of another process do to the extension of p, if p is not told.
Spared(p) ==
    LET n == proc[p].name IN
    /\ binary'[n] = binary[n] /\ manifest'[n] = manifest[n] /\ spoiled'[n] = spoiled[n]
    /\ \A q \in Procs : q # p => ~Writing(q, n)'
    /\ proc'[p].pc = proc[p].pc /\ proc'[p].name = proc[p].name /\ proc'[p].hand = proc[p].hand
    /\ proc'[p].open = proc[p].open /\ proc'[p].filling = proc[p].filling
    /\ proc'[p].ran = proc[p].ran

\* A step of q that changes nothing of the extension, or says so to p, spares p.
LEMMA SparedIfQuiet ==
    ASSUME TypeOK, HandInv, NEW p \in Procs, NEW q \in Procs \ {p},
           proc[p].pc # "idle", ~touched[p], Moved(q),
           Quiet(proc'[q]) \/ (Writing(q, proc[q].name) /\ proc'[q].name = proc[q].name)
              \/ proc'[q].name # proc[p].name,
           \/ proc[q].name = proc[p].name /\ Writing(q, proc[q].name)
           \/ LET n == proc[p].name IN
              binary'[n] = binary[n] /\ manifest'[n] = manifest[n] /\ spoiled'[n] = spoiled[n]
    PROVE  Spared(p)
<1> DEFINE n == proc[p].name
<1>1. \A x \in Procs : x # p => ~Writing(x, n)
  BY DEF HandInv, Undisturbed
<1>2. binary'[n] = binary[n] /\ manifest'[n] = manifest[n] /\ spoiled'[n] = spoiled[n]
  BY <1>1
<1>3. proc'[p] = proc[p] /\ \A x \in Procs \ {q} : proc'[x] = proc[x]
  BY DEF Moved
<1>4. ~Writing(q, n)'
  BY <1>1, <1>3 DEF Writing, Quiet
<1> QED BY <1>1, <1>2, <1>3, <1>4 DEF Spared, Writing

LEMMA SparedStaysUndisturbed ==
    ASSUME NEW p \in Procs, Undisturbed(p, proc[p].name), Spared(p)
    PROVE  Undisturbed(p, proc[p].name)'
BY DEF Spared, Undisturbed

LEMMA SparedStep ==
    ASSUME TypeOK, WriterInv, HandInv, NEW p \in Procs, NEW q \in Procs \ {p},
           resting(q) \/ Start(q) \/ copied(q) \/ openBinary(q) \/ copyPart(q)
              \/ emptyManifest(q) \/ fillManifest(q) \/ writeFails(q) \/ Kill(q)
              \/ unlinkBinary(q) \/ unlinkManifest(q) \/ rmdir(q),
           proc'[p].pc # "idle", ~touched'[p]
    PROVE  proc[p].pc # "idle" /\ ~touched[p] /\ Spared(p)
<1> USE DEF files, history
<1>0. Quiet(Idle) /\ Quiet([proc[q] EXCEPT !.pc = "exec"])
  BY IdleType, GotoKeeps DEF Quiet
<1>1. ASSUME touch(q, proc[q].name)
      PROVE  ~touched[p] /\ proc[q].name # proc[p].name
  BY <1>1 DEF touch
<1>2. CASE resting(q)
  <2>1. /\ Moved(q) /\ Quiet(proc'[q])
        /\ UNCHANGED <<binary, manifest, spoiled, touched>>
    BY <1>2, RestingShape
  <2> QED BY <2>1, SparedIfQuiet DEF Moved
<1>3. CASE Start(q)
  <2>1. Moved(q) /\ proc'[q].pc = "visit" /\ UNCHANGED <<binary, manifest, spoiled>>
    BY <1>3, StartShape DEF Start
  <2>2. touched'[p] = touched[p]
    BY <1>3 DEF Start, TypeOK
  <2>3. Quiet(proc'[q])
    BY <2>1 DEF Quiet
  <2> QED BY <2>1, <2>2, <2>3, SparedIfQuiet DEF Moved
<1>4. CASE copied(q)
  <2>1. /\ Moved(q) /\ proc'[q].name = proc[q].name
        /\ UNCHANGED <<binary, manifest, spoiled, touched>>
    BY <1>4, CopiedShape DEF copied, Keeps
  <2>2. Writing(q, proc[q].name)
    BY <1>4 DEF copied, Writing
  <2> QED BY <2>1, <2>2, SparedIfQuiet DEF Moved
<1>5. CASE openBinary(q)
  <2>1. Moved(q) /\ proc'[q].name = proc[q].name /\ manifest' = manifest
    BY <1>5, OpenShape DEF openBinary
  <2>2. ~touched[p] /\ proc[q].name # proc[p].name
    BY <1>1, <1>5 DEF openBinary
  <2>3. proc[p].pc # "idle" /\ proc[p].name \in Extensions
    BY <2>1 DEF Moved, TypeOK
  <2>4. binary'[proc[p].name] = binary[proc[p].name] /\ spoiled'[proc[p].name] = spoiled[proc[p].name]
    BY <1>5, <2>2, <2>3 DEF openBinary, TypeOK
  <2> QED BY <2>1, <2>2, <2>3, <2>4, SparedIfQuiet
<1>6. CASE copyPart(q)
  <2>1. /\ Moved(q) /\ proc'[q].name = proc[q].name
        /\ UNCHANGED <<manifest, spoiled, touched>>
    BY <1>6, CopyShape DEF copyPart
  <2>2. Writing(q, proc[q].name)
    BY <1>6 DEF copyPart, Writing
  <2>3. proc[p].pc # "idle" /\ proc[p].name \in Extensions
    BY <2>1 DEF Moved, TypeOK
  <2>4. proc[q].name # proc[p].name => binary'[proc[p].name] = binary[proc[p].name]
    BY <1>6, <2>3 DEF copyPart, TypeOK
  <2> QED BY <2>1, <2>2, <2>3, <2>4, SparedIfQuiet
<1>7. CASE emptyManifest(q)
  <2>1. Moved(q) /\ proc'[q].name = proc[q].name /\ UNCHANGED <<binary, spoiled>>
    BY <1>7, EmptyShape DEF emptyManifest
  <2>2. ~touched[p] /\ proc[q].name # proc[p].name
    BY <1>1, <1>7 DEF emptyManifest
  <2>3. proc[p].pc # "idle" /\ proc[p].name \in Extensions
    BY <2>1 DEF Moved, TypeOK
  <2>4. manifest'[proc[p].name] = manifest[proc[p].name]
    BY <1>7, <2>2, <2>3 DEF emptyManifest, TypeOK
  <2> QED BY <2>1, <2>2, <2>3, <2>4, SparedIfQuiet
<1>8. CASE fillManifest(q)
  <2>1. Moved(q) /\ Quiet(proc'[q]) /\ UNCHANGED <<binary, spoiled>>
    BY <1>8, FillShape, IdleType DEF fillManifest, Quiet
  <2>2. ~touched[p] /\ proc[q].name # proc[p].name
    BY <1>1, <1>8 DEF fillManifest
  <2>3. proc[p].pc # "idle" /\ proc[p].name \in Extensions
    BY <2>1 DEF Moved, TypeOK
  <2>4. manifest'[proc[p].name] = manifest[proc[p].name]
    BY <1>8, <2>2, <2>3 DEF fillManifest, TypeOK
  <2> QED BY <2>1, <2>2, <2>3, <2>4, SparedIfQuiet
<1>9. CASE writeFails(q)
  <2>1. proc[q].pc # "idle" /\ Writing(q, proc[q].name)
    BY <1>9 DEF writeFails, Writing
  <2>2. Moved(q) /\ Quiet(proc'[q]) /\ UNCHANGED <<binary, manifest, touched>>
    BY <1>0, <1>9, <2>1, OutShape DEF writeFails
  <2>3. proc[p].pc # "idle" /\ proc[p].name \in Extensions
    BY <2>2 DEF Moved, TypeOK
  <2>4. proc[q].name # proc[p].name => spoiled'[proc[p].name] = spoiled[proc[p].name]
    BY <1>9, <2>3 DEF writeFails, TypeOK
  <2> QED BY <2>1, <2>2, <2>3, <2>4, SparedIfQuiet
<1>10. CASE Kill(q)
  <2>1. Moved(q) /\ Quiet(proc'[q]) /\ UNCHANGED <<binary, manifest, touched>>
    BY <1>0, <1>10, EndsType DEF Kill, Moved
  <2>2. proc[p].pc # "idle" /\ proc[p].name \in Extensions /\ ~touched[p]
    BY <2>1 DEF Moved, TypeOK
  <2>3. ~Writing(q, proc[p].name)
    BY <2>2 DEF HandInv, Undisturbed
  <2>4. spoiled'[proc[p].name] = spoiled[proc[p].name]
    BY <1>10, <2>2, <2>3 DEF Kill, TypeOK
  <2> QED BY <2>1, <2>2, <2>4, SparedIfQuiet
<1>11. CASE rmdir(q)
  <2>1. Moved(q) /\ Quiet(proc'[q]) /\ UNCHANGED <<binary, manifest, spoiled, touched>>
    BY <1>0, <1>11, EndsType DEF rmdir, Moved
  <2> QED BY <2>1, SparedIfQuiet DEF Moved
<1>12. CASE unlinkBinary(q)
  <2>1. ~touched[p] /\ proc[q].name # proc[p].name
    BY <1>1, <1>12 DEF unlinkBinary
  <2>2. /\ Robbed(q) /\ proc'[p].filling = proc[p].filling
        /\ proc'[p].open = proc[p].open
    <3>1. proc[p].open \in BOOLEAN
      BY DEF TypeOK, Process
    <3> QED BY <1>12, <2>1, <3>1, UnlinkBinaryShape
  <2>3. proc[p].pc # "idle" /\ proc[p].name \in Extensions
    BY <2>2 DEF Robbed, TypeOK
  <2>4. /\ binary'[proc[p].name] = binary[proc[p].name]
        /\ UNCHANGED <<manifest, spoiled>>
    BY <1>12, <2>1, <2>3 DEF unlinkBinary, TypeOK
  <2>5. \A x \in Procs : x # p => ~Writing(x, proc[p].name)
    BY <2>1, <2>3 DEF HandInv, Undisturbed
  <2> QED BY <2>1, <2>2, <2>3, <2>4, <2>5 DEF Spared, Robbed, Writing
<1>13. CASE unlinkManifest(q)
  <2>1. ~touched[p] /\ proc[q].name # proc[p].name
    BY <1>1, <1>13 DEF unlinkManifest
  <2>2. /\ Robbed(q) /\ proc'[p].filling = proc[p].filling
        /\ proc'[p].open = proc[p].open
    <3>1. proc[p].filling \in BOOLEAN
      BY DEF TypeOK, Process
    <3> QED BY <1>13, <2>1, <3>1, UnlinkManifestShape
  <2>3. proc[p].pc # "idle" /\ proc[p].name \in Extensions
    BY <2>2 DEF Robbed, TypeOK
  <2>4. /\ manifest'[proc[p].name] = manifest[proc[p].name]
        /\ UNCHANGED <<binary, spoiled>>
    BY <1>13, <2>1, <2>3 DEF unlinkManifest, TypeOK
  <2>5. \A x \in Procs : x # p => ~Writing(x, proc[p].name)
    BY <2>1, <2>3 DEF HandInv, Undisturbed
  <2> QED BY <2>1, <2>2, <2>3, <2>4, <2>5 DEF Spared, Robbed, Writing
<1> QED BY <1>2, <1>3, <1>4, <1>5, <1>6, <1>7, <1>8, <1>9, <1>10, <1>11, <1>12, <1>13

\* A step of p itself, with nobody else in the way.
LEMMA OwnStep ==
    ASSUME TypeOK, WriterInv, RestInv, HandInv, ExecInv, NEW p \in Procs,
           resting(p) \/ copied(p) \/ openBinary(p) \/ copyPart(p)
              \/ emptyManifest(p) \/ fillManifest(p) \/ writeFails(p) \/ Kill(p)
              \/ unlinkBinary(p) \/ unlinkManifest(p) \/ rmdir(p),
           proc[p].pc # "idle", ~touched[p], proc'[p].pc # "idle"
    PROVE  Undisturbed(p, proc[p].name)' /\ proc'[p].name = proc[p].name
<1> USE DEF files, history
<1> DEFINE n == proc[p].name
<1>0. Idle.pc = "idle" /\ n \in Extensions
  BY IdleType DEF TypeOK
<1>1. Undisturbed(p, n)
  BY DEF HandInv
<1>2. ASSUME Moved(p), proc'[p].name = n
      PROVE  \A q \in Procs : q # p => ~Writing(q, n)'
  BY <1>1, <1>2 DEF Undisturbed, Writing, Moved
<1>3. ASSUME proc'[p] = [proc[p] EXCEPT !.pc = "exec"]
      PROVE  proc'[p].pc = "exec" /\ proc'[p].name = n /\ proc'[p].hand = proc[p].hand
  BY <1>3, GotoKeeps DEF Keeps
<1>4. ASSUME Moved(p), proc'[p].name = n, UNCHANGED <<binary, manifest, spoiled>>,
             proc[p].pc \in {"visit", "decode", "lookup", "download", "open"},
             proc'[p].pc \notin {"copy", "empty", "fill", "running"},
             proc'[p].hand = proc[p].hand \/ proc'[p].hand = manifest[n]
      PROVE  Undisturbed(p, n)' /\ proc'[p].name = n
  BY <1>1, <1>2, <1>4 DEF Undisturbed
<1>5. CASE \E m \in Extensions : visit(p, m)
  <2>1. /\ Moved(p) /\ UNCHANGED <<binary, manifest, spoiled>>
        /\ proc[p].pc = "visit"
    BY <1>5, VisitShape DEF visit
  <2> QED BY <1>4, <1>5, <2>1, VisitShape DEF Keeps
<1>6. CASE decode(p)
  <2>1. /\ Moved(p) /\ UNCHANGED <<binary, manifest, spoiled>>
        /\ proc[p].pc = "decode"
    BY <1>6, DecodeShape DEF decode
  <2> QED BY <1>4, <1>6, <2>1, DecodeShape DEF Keeps
<1>7. CASE begin(p)
  <2>1. /\ Moved(p) /\ UNCHANGED <<binary, manifest, spoiled>>
        /\ proc[p].pc = "visit"
    BY <1>7, BeginShape DEF begin
  <2> QED BY <1>0, <1>4, <1>7, <2>1, BeginShape DEF Keeps
<1>8. CASE lookup(p)
  <2>1. /\ Moved(p) /\ UNCHANGED <<binary, manifest, spoiled>>
        /\ proc[p].pc = "lookup"
    BY <1>8, LookupShape DEF lookup
  <2> QED BY <1>0, <1>3, <1>4, <1>8, <2>1, LookupShape DEF Keeps
<1>9. CASE downloadFails(p)
  <2>1. /\ Moved(p) /\ UNCHANGED <<binary, manifest, spoiled>>
        /\ proc[p].pc \in {"download", "open"} /\ giveUp(p)
    BY <1>9, OutShape DEF downloadFails
  <2>2. proc'[p] = [proc[p] EXCEPT !.pc = "exec"]
    BY <1>0, <2>1, OutShape
  <2> QED BY <1>3, <1>4, <2>1, <2>2
<1>10. CASE exec(p)
  <2>1. /\ Moved(p) /\ proc[p].pc = "exec" /\ UNCHANGED <<binary, manifest, spoiled>>
        /\ proc'[p].pc = "running" /\ proc'[p].hand = proc[p].hand /\ proc'[p].name = n
        /\ proc'[p].ran = binary[n] /\ binary[n] # None
    BY <1>0, <1>10, ExecShape DEF exec
  <2>2. \A q \in Procs : ~Writing(q, n)
    BY <1>1, <2>1 DEF Undisturbed, Writing
  <2>3. proc[p].hand \in Releases /\ proc[p].hand \notin {None, Torn}
    BY <2>1, ReleasesAreNumbers, ExtensionAssumption DEF ExecInv
  <2>4. ~spoiled[n] => binary[n] = Image(proc[p].hand)
    BY <1>0, <1>1, <2>1, <2>2, <2>3 DEF RestInv, Whole, Undisturbed
  <2> QED BY <1>2, <2>1, <2>4 DEF Undisturbed
<1>11. CASE remove(p)
  <2>1. Moved(p) /\ proc'[p].pc = "unlink" /\ proc'[p].name = n
    BY <1>0, <1>11, RemoveShape
  <2> QED BY <1>2, <2>1 DEF Undisturbed
<1>12. CASE Over(p) \/ Kill(p) \/ rmdir(p)
  BY <1>0, <1>12, EndsType DEF Over, Kill, rmdir
<1>13. CASE copied(p)
  <2>1. /\ Moved(p) /\ proc'[p].pc = "empty" /\ proc'[p].name = n
        /\ proc'[p].open = proc[p].open /\ proc[p].pc = "copy"
    BY <1>13, CopiedShape DEF Keeps, copied
  <2> QED BY <1>1, <1>2, <2>1 DEF Undisturbed
<1>14. CASE openBinary(p)
  <2>1. Moved(p) /\ proc'[p].pc = "copy" /\ proc'[p].name = n /\ proc'[p].open
    BY <1>14, OpenShape
  <2> QED BY <1>2, <2>1 DEF Undisturbed
<1>15. CASE copyPart(p)
  <2>1. /\ Moved(p) /\ proc'[p].pc = "copy" /\ proc'[p].name = n
        /\ proc'[p].open = proc[p].open /\ proc[p].pc = "copy"
    BY <1>15, CopyShape DEF copyPart
  <2> QED BY <1>1, <1>2, <2>1 DEF Undisturbed
<1>16. CASE emptyManifest(p)
  <2>1. /\ Moved(p) /\ proc'[p].pc = "fill" /\ proc'[p].name = n
        /\ proc'[p].open = proc[p].open /\ proc'[p].filling /\ proc[p].pc = "empty"
    BY <1>16, EmptyShape DEF emptyManifest
  <2> QED BY <1>1, <1>2, <2>1 DEF Undisturbed
<1>17. CASE fillManifest(p)
  <2>1. /\ Moved(p) /\ proc'[p].pc = "exec" /\ proc'[p].hand = proc[p].release
        /\ proc'[p].name = n /\ proc[p].pc = "fill" /\ spoiled' = spoiled
    BY <1>0, <1>17, FillShape DEF fillManifest
  <2>2. proc[p].filling
    BY <1>1, <2>1 DEF Undisturbed
  <2>3. ~spoiled[n] => manifest'[n] = proc[p].release
    BY <1>17, <2>2, FillFiles
  <2> QED BY <1>2, <2>1, <2>3 DEF Undisturbed
<1>18. CASE writeFails(p)
  <2>1. /\ Writing(p, n) /\ giveUp(p) /\ spoiled' = [spoiled EXCEPT ![n] = TRUE]
    BY <1>18 DEF writeFails
  <2>2. Moved(p) /\ proc'[p] = [proc[p] EXCEPT !.pc = "exec"]
    BY <1>0, <2>1, OutShape
  <2>3. spoiled'[n]
    BY <1>0, <2>1 DEF TypeOK
  <2>4. proc'[p].pc = "exec" /\ proc'[p].name = n
    BY <1>3, <2>2
  <2> QED BY <1>2, <2>2, <2>3, <2>4 DEF Undisturbed
<1>19. CASE unlinkBinary(p) \/ unlinkManifest(p)
  <2>1. Robbed(p) /\ proc[p].pc = "unlink"
    BY <1>19, UnlinkBinaryShape, UnlinkManifestShape DEF unlinkBinary, unlinkManifest
  <2>2. \A q \in Procs : q # p => ~Writing(q, n)'
    BY <1>1, <2>1 DEF Undisturbed, Writing, Robbed
  <2> QED BY <2>1, <2>2 DEF Undisturbed, Robbed
<1>20. CASE makeDir(p)
  <2>1. /\ Moved(p) /\ UNCHANGED <<binary, manifest, spoiled>>
        /\ proc[p].pc = "download"
    BY <1>20, DirShape DEF makeDir
  <2> QED BY <1>4, <1>20, <2>1, DirShape DEF Keeps
<1> QED BY <1>5, <1>6, <1>7, <1>8, <1>9, <1>10, <1>11, <1>12, <1>13, <1>14, <1>15, <1>16, <1>17,
           <1>18, <1>19, <1>20 DEF resting

\* Whoever starts while nobody changes the extension has nothing in hand yet.
LEMMA StartUndisturbed ==
    ASSUME TypeOK, NEW p \in Procs, Start(p), ~touched'[p]
    PROVE  Undisturbed(p, proc[p].name)'
<1>1. /\ Moved(p) /\ proc'[p].pc = "visit" /\ proc'[p].hand = None
      /\ proc'[p].name \in Extensions
  BY StartShape
<1>2. PICK m \in Extensions :
        /\ \E op \in {"install", "remove", "use"} :
              become(p, [Idle EXCEPT !.pc = "visit", !.op = op, !.name = m, !.left = Extensions])
        /\ touched' = [touched EXCEPT ![p] = \E q \in Procs : Changing(q, m)]
  BY DEF Start
<1>3. proc'[p].name = m
  <2>1. PICK op \in {"install", "remove", "use"} :
          become(p, [Idle EXCEPT !.pc = "visit", !.op = op, !.name = m, !.left = Extensions])
    BY <1>2
  <2>2. proc'[p] = [Idle EXCEPT !.pc = "visit", !.op = op, !.name = m, !.left = Extensions]
    BY <2>1 DEF become, TypeOK
  <2> QED BY <2>2 DEF Idle
<1>4. \A q \in Procs : ~Writing(q, m)
  BY <1>2 DEF TypeOK, Changing
<1>5. \A q \in Procs : q # p => ~Writing(q, m)'
  BY <1>1, <1>4 DEF Moved, Writing
<1> QED BY <1>1, <1>3, <1>5 DEF Undisturbed

LEMMA HandStep ==
    ASSUME TypeOK, WriterInv, RestInv, HandInv, ExecInv, Next
    PROVE  HandInv'
<1> USE DEF files, history
<1> SUFFICES ASSUME NEW p \in Procs, proc'[p].pc # "idle", ~touched'[p]
             PROVE  Undisturbed(p, proc[p].name)'
  BY DEF HandInv
<1> DEFINE steps(q) ==
        \/ resting(q) \/ copied(q) \/ openBinary(q) \/ copyPart(q)
        \/ emptyManifest(q) \/ fillManifest(q) \/ writeFails(q) \/ Kill(q)
        \/ unlinkBinary(q) \/ unlinkManifest(q) \/ rmdir(q)
<1>1. CASE \E n \in Extensions : Publish(n)
  <2>1. UNCHANGED <<binary, manifest, proc, spoiled, touched>>
    BY <1>1 DEF Publish
  <2> QED BY <2>1 DEF HandInv, Undisturbed, Writing
<1>2. ASSUME NEW q \in Procs \ {p}, steps(q) \/ Start(q)
      PROVE  Undisturbed(p, proc[p].name)'
  <2>1. proc[p].pc # "idle" /\ ~touched[p] /\ Spared(p)
    BY <1>2, SparedStep
  <2>2. Undisturbed(p, proc[p].name)
    BY <2>1 DEF HandInv
  <2> QED BY <2>1, <2>2, SparedStaysUndisturbed
<1>3. CASE Start(p)
  BY <1>3, StartUndisturbed
<1>4. CASE steps(p)
  <2>1. proc[p].pc # "idle"
    BY <1>4 DEF resting, visit, decode, begin, lookup, downloadFails, makeDir, exec, remove, Over, copied,
                openBinary, copyPart, emptyManifest, fillManifest, writeFails, Kill, unlinkBinary,
                unlinkManifest, rmdir, Writing
  <2>2. ~touched[p]
    <3>1. CASE resting(p)
      BY <3>1, RestingShape
    <3>2. CASE ~resting(p)
      BY <1>4, <3>2 DEF copied, openBinary, copyPart, emptyManifest, fillManifest, writeFails, Kill,
                unlinkBinary, unlinkManifest, rmdir, touch, TypeOK
    <3> QED BY <3>1, <3>2
  <2> QED BY <1>4, <2>1, <2>2, OwnStep
<1> QED BY <1>1, <1>2, <1>3, <1>4, StepsOfNext

-----------------------------------------------------------------------------
(* The theorems.                                                           *)

IInv ==
    /\ TypeOK
    /\ WriterInv
    /\ RestInv
    /\ HandInv
    /\ ExecInv
    /\ DownloadInv
    /\ StirInv

LEMMA Initially == Init => IInv
<1> SUFFICES ASSUME Init
             PROVE  IInv
  OBVIOUS
<1>1. \A p \in Procs : proc[p] = Idle /\ proc[p].pc = "idle"
  BY IdleType DEF Init
<1>2. TypeOK
  BY <1>1, IdleType DEF Init, TypeOK
<1>3. WriterInv /\ RestInv
  BY <1>1 DEF Init, WriterInv, RestInv, Whole, Writing
<1>4. HandInv /\ ExecInv /\ DownloadInv /\ StirInv
  BY <1>1 DEF HandInv, ExecInv, DownloadInv, StirInv, walking
<1> QED BY <1>2, <1>3, <1>4 DEF IInv

LEMMA Stuttering == IInv /\ UNCHANGED vars => IInv'
BY DEF IInv, vars, files, history, TypeOK, WriterInv, Underway, Sole, Writing, RestInv, Whole,
       HandInv, Undisturbed, ExecInv, DownloadInv, StirInv, walking

LEMMA Inductive == IInv /\ [Next]_vars => IInv'
<1>1. ASSUME IInv, Next
      PROVE  IInv'
  BY <1>1, TypeStep, FilesStep, HandStep, HoldStep, StirStep DEF IInv
<1> QED BY <1>1, Stuttering

LEMMA Invariance == Spec => []IInv
BY Initially, Inductive, PTL DEF Spec

\* Every variable keeps its type, whatever fails and whoever is killed (store.go, Write).
THEOREM TypeCorrect == Spec => []TypeOK
<1>1. IInv => TypeOK
  BY DEF IInv
<1> QED BY <1>1, Invariance, PTL

\* A command of the CLI starts unless a manifest is torn, or was changed while it read
\* (store.go, FindAll), however many extensions are installed or removed in part.
THEOREM Starts == Spec => []StartsUnlessStirred
<1>1. IInv => StartsUnlessStirred
  BY DEF IInv, StirInv, StartsUnlessStirred
<1> QED BY <1>1, Invariance, PTL

\* What runs is the whole binary of the release in its manifest, unless the last write
\* failed or had a rival, or the extension was changed under it (store.go, Write; manager.go).
THEOREM RunsWhatWasInstalled == Spec => []RunsWhatItSays
<1>1. IInv => RunsWhatItSays
  BY DEF IInv, HandInv, Undisturbed, RunsWhatItSays
<1> QED BY <1>1, Invariance, PTL

=============================================================================
