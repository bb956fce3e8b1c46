---------------------------- MODULE ExtensionStore ----------------------------
(***************************************************************************)
(* The directory of managed extensions: internal/extension (store.go,      *)
(* manager.go) and the commands of cmd/extension.  Every command of the    *)
(* CLI reads all the manifests when it starts; install, and the upgrade    *)
(* that is offered before an extension runs, write a binary and then its   *)
(* manifest; remove takes the files away one by one.  Nothing is locked,   *)
(* any write may fail, and any process may be killed.                      *)
(***************************************************************************)
EXTENDS Integers, Sequences

CONSTANTS
    Procs, Extensions,
    Official,     \* those whose command is there before they are installed
    Parts,        \* Parts[r]: the writes it takes to copy the binary of release r
    None, Torn    \* no file; a manifest without content

Releases == DOMAIN Parts
Image(r) == [k \in 1 .. Parts[r] |-> r]

ASSUME ExtensionAssumption ==
    /\ Official \subseteq Extensions
    /\ Parts \in Seq(Nat \ {0})
    /\ None # Torn /\ {None, Torn} \cap Nat = {}

VARIABLES
    latest,      \* the release the registry names; 0 before the first
    dir,         \* is there a directory for the extension
    binary,      \* what its binary holds
    manifest,    \* the release its manifest names
    proc,        \* what each process is doing
    spoiled,     \* history: the last write of the binary failed, or had a rival
    touched,     \* history: another process changed the extension p was started for
    stirred      \* history: a manifest was changed, or torn, while p read them

files   == <<dir, binary, manifest>>
history == <<spoiled, touched, stirred>>
vars    == <<latest, files, proc, history>>

Idle ==
    [pc |-> "idle", op |-> None, name |-> None,
     left |-> {}, at |-> None,          \* the manifests still to read, and the one it is at
     hand |-> None,                     \* the release of the manifest it acts on
     release |-> 0, offset |-> 0,       \* what it writes, and how far it is
     open |-> FALSE, filling |-> FALSE, \* its files are still those in the directory
     entries |-> {}, ran |-> None]

Init ==
    /\ latest = [n \in Extensions |-> 0]
    /\ dir = [n \in Extensions |-> FALSE]
    /\ binary = [n \in Extensions |-> None]
    /\ manifest = [n \in Extensions |-> None]
    /\ proc = [p \in Procs |-> Idle]
    /\ spoiled = [n \in Extensions |-> FALSE]
    /\ touched = [p \in Procs |-> FALSE]
    /\ stirred = [p \in Procs |-> FALSE]

\* Processes in store.Write, from the opening of the binary to its close.
Writing(p, n)   == proc[p].name = n /\ proc[p].pc \in {"copy", "empty", "fill"}
Changing(p, n)  == Writing(p, n) \/ (proc[p].name = n /\ proc[p].pc = "unlink")
walking(p)      == proc[p].pc \in {"visit", "decode"}

become(p, r)   == proc' = [proc EXCEPT ![p] = r]
goto(p, state) == become(p, [proc[p] EXCEPT !.pc = state])
ends(p)        == become(p, Idle)

touch(p, n) ==
    touched' = [q \in Procs |-> touched[q] \/ (q # p /\ proc[q].name = n)]
stir == stirred' = [q \in Procs |-> stirred[q] \/ walking(q)]

-----------------------------------------------------------------------------
(* The start of a command: RegisterExtensions reads every manifest.        *)

Start(p) ==
    /\ proc[p].pc = "idle"
    /\ \E op \in {"install", "remove", "use"}, n \in Extensions :
          /\ become(p, [Idle EXCEPT !.pc = "visit", !.op = op, !.name = n, !.left = Extensions])
          /\ touched' = [touched EXCEPT ![p] = \E q \in Procs : Changing(q, n)]
    /\ stirred' = [stirred EXCEPT ![p] = \E n \in Extensions : manifest[n] = Torn]
    /\ UNCHANGED <<latest, files, spoiled>>

\* Fault: a directory without a manifest is taken for a corrupt extension.
visitStrict(p, n) ==
    /\ proc[p].pc = "visit" /\ n \in proc[p].left
    /\ \/ ~dir[n] /\ become(p, [proc[p] EXCEPT !.left = @ \ {n}])
       \/ dir[n] /\ manifest[n] = None /\ goto(p, "refused")
       \/ manifest[n] # None /\ become(p, [proc[p] EXCEPT !.pc = "decode", !.at = n])
    /\ UNCHANGED <<latest, files, history>>

\* filepath.Walk comes to an extension: what is not there is passed over.
visit(p, n) ==
    /\ proc[p].pc = "visit" /\ n \in proc[p].left
    /\ \/ manifest[n] = None /\ become(p, [proc[p] EXCEPT !.left = @ \ {n}])
       \/ manifest[n] # None /\ become(p, [proc[p] EXCEPT !.pc = "decode", !.at = n])
    /\ UNCHANGED <<latest, files, history>>

\* The manifest it found is opened and decoded.  One that has gone, or is empty,
\* is an error, and cobra.CheckErr ends the process whatever it was started for.
decode(p) ==
    /\ proc[p].pc = "decode"
    /\ LET m == manifest[proc[p].at] IN
       \/ m \in {None, Torn} /\ goto(p, "refused")
       \/ /\ m \notin {None, Torn}
          /\ become(p, [proc[p] EXCEPT !.pc = "visit", !.left = @ \ {proc[p].at}, !.at = None,
                                       !.hand = IF proc[p].at = proc[p].name THEN m ELSE @])
    /\ UNCHANGED <<latest, files, history>>

\* The command that was asked for: an extension that has a manifest is offered its
\* update unless its check is not due; an official one without is offered for
\* installation; any other is no command at all, and the process is over.
begin(p) ==
    /\ proc[p].pc = "visit" /\ proc[p].left = {}
    /\ LET n == proc[p].name IN
       \/ proc[p].op = "install" /\ goto(p, "lookup")
       \/ proc[p].op = "remove" /\ (goto(p, "remove") \/ ends(p))
       \/ proc[p].op = "use" /\ proc[p].hand # None /\ (goto(p, "exec") \/ goto(p, "lookup"))
       \/ proc[p].op = "use" /\ proc[p].hand = None /\ n \in Official /\ goto(p, "lookup")
       \/ proc[p].op = "use" /\ proc[p].hand = None /\ ends(p)
    /\ UNCHANGED <<latest, files, history>>

-----------------------------------------------------------------------------
(* Installation and upgrade.                                               *)

upgrading(p) == proc[p].op = "use" /\ proc[p].hand # None

\* What follows a step that failed: an upgrade runs what was there before, or what
\* is left of it; an installation is over.
giveUp(p) == IF upgrading(p) THEN goto(p, "exec") ELSE ends(p)

\* The registry names its latest release, or there is none, or it does not answer.
\* An upgrade goes on if the release is newer and the user says yes.
lookup(p) ==
    /\ proc[p].pc = "lookup"
    /\ LET v == latest[proc[p].name] IN
       \/ giveUp(p)
       \/ /\ v # 0
          /\ upgrading(p) => v > proc[p].hand
          /\ become(p, [proc[p] EXCEPT !.pc = "download", !.release = v])
    /\ UNCHANGED <<latest, files, history>>

\* The archive is read to its end and its checksum compared before anything is written;
\* or it is the directory, or the file in it, that cannot be made.
downloadFails(p) ==
    /\ proc[p].pc \in {"download", "open"}
    /\ giveUp(p)
    /\ UNCHANGED <<latest, files, history>>

makeDir(p) ==
    /\ proc[p].pc = "download"
    /\ dir' = [dir EXCEPT ![proc[p].name] = TRUE]
    /\ goto(p, "open")
    /\ UNCHANGED <<latest, binary, manifest, history>>

\* Fault: the binary is opened without O_TRUNC.
openOverOld(p) ==
    /\ proc[p].pc = "open" /\ dir[proc[p].name]
    /\ LET n == proc[p].name IN
       /\ binary' = [binary EXCEPT ![n] = IF @ = None THEN <<>> ELSE @]
       /\ spoiled' = [spoiled EXCEPT ![n] = \E q \in Procs : Writing(q, n)]
       /\ touch(p, n)
    /\ become(p, [proc[p] EXCEPT !.pc = "copy", !.open = TRUE])
    /\ UNCHANGED <<latest, dir, manifest, stirred>>

\* store.Write opens the binary, which empties it, in the directory if it still is there.
openBinary(p) ==
    /\ proc[p].pc = "open" /\ dir[proc[p].name]
    /\ LET n == proc[p].name IN
       /\ binary' = [binary EXCEPT ![n] = <<>>]
       /\ spoiled' = [spoiled EXCEPT ![n] = \E q \in Procs : Writing(q, n)]
       /\ touch(p, n)
    /\ become(p, [proc[p] EXCEPT !.pc = "copy", !.open = TRUE])
    /\ UNCHANGED <<latest, dir, manifest, stirred>>

\* Writing x behind the first o parts of f, which may have become shorter than that.
writeAt(f, o, x) ==
    [k \in 1 .. IF o + 1 > Len(f) THEN o + 1 ELSE Len(f) |->
        IF k = o + 1 THEN x ELSE IF k <= Len(f) THEN f[k] ELSE 0]

copyPart(p) ==
    /\ proc[p].pc = "copy" /\ proc[p].offset < Parts[proc[p].release]
    /\ LET n == proc[p].name IN
       binary' = IF proc[p].open
                 THEN [binary EXCEPT ![n] = writeAt(@, proc[p].offset, proc[p].release)]
                 ELSE binary
    /\ become(p, [proc[p] EXCEPT !.offset = @ + 1])
    /\ UNCHANGED <<latest, dir, manifest, history>>

copied(p) ==
    /\ proc[p].pc = "copy" /\ proc[p].offset = Parts[proc[p].release]
    /\ goto(p, "empty")
    /\ UNCHANGED <<latest, files, history>>

\* The manifest is written last, by os.WriteFile, in the directory, which may be gone.
emptyManifest(p) ==
    /\ proc[p].pc = "empty" /\ dir[proc[p].name]
    /\ LET n == proc[p].name IN
       /\ manifest' = [manifest EXCEPT ![n] = Torn]
       /\ touch(p, n) /\ stir
    /\ become(p, [proc[p] EXCEPT !.pc = "fill", !.filling = TRUE])
    /\ UNCHANGED <<latest, dir, binary, spoiled>>

\* Over the content of a rival it may leave a tail.
filled(p) ==
    LET m == manifest[proc[p].name] IN
    IF ~proc[p].filling THEN {m}
    ELSE IF m = Torn THEN {proc[p].release}
    ELSE {proc[p].release, Torn}

fillManifest(p) ==
    /\ proc[p].pc = "fill"
    /\ \E m \in filled(p) : manifest' = [manifest EXCEPT ![proc[p].name] = m]
    /\ IF proc[p].op = "use"
       THEN become(p, [proc[p] EXCEPT !.pc = "exec", !.hand = proc[p].release])
       ELSE ends(p)
    /\ touch(p, proc[p].name) /\ stir
    /\ UNCHANGED <<latest, dir, binary, spoiled>>

\* Any step of store.Write fails.  Its cleanup removes a path taken relative to the
\* working directory, so the binary stays as it is.
writeFails(p) ==
    /\ Writing(p, proc[p].name)
    /\ spoiled' = [spoiled EXCEPT ![proc[p].name] = TRUE]
    /\ giveUp(p)
    /\ UNCHANGED <<latest, files, touched, stirred>>

-----------------------------------------------------------------------------
(* Running and removing.                                                   *)

\* runExtension starts what the binary holds, if there is one.
exec(p) ==
    /\ proc[p].pc = "exec"
    /\ LET b == binary[proc[p].name] IN
       IF b = None THEN ends(p)
       ELSE become(p, [proc[p] EXCEPT !.pc = "running", !.ran = b])
    /\ UNCHANGED <<latest, files, history>>

\* RemoveAll lists the directory, takes away each file it listed, in the order the
\* file system has them, and then the directory.
remove(p) ==
    /\ proc[p].pc = "remove"
    /\ LET n == proc[p].name IN
       \/ ~dir[n] /\ ends(p)
       \/ /\ dir[n]
          /\ become(p, [proc[p] EXCEPT !.pc = "unlink",
                !.entries = (IF binary[n] # None THEN {"binary"} ELSE {})
                       \cup (IF manifest[n] # None THEN {"manifest"} ELSE {})])
    /\ UNCHANGED <<latest, files, history>>

unlinkBinary(p) ==
    /\ proc[p].pc = "unlink" /\ "binary" \in proc[p].entries
    /\ LET n == proc[p].name IN
       /\ binary' = [binary EXCEPT ![n] = None]
       /\ proc' = [q \in Procs |->
             IF q = p THEN [proc[p] EXCEPT !.entries = @ \ {"binary"}]
             ELSE IF proc[q].name = n THEN [proc[q] EXCEPT !.open = FALSE] ELSE proc[q]]
       /\ touch(p, n)
    /\ UNCHANGED <<latest, dir, manifest, spoiled, stirred>>

unlinkManifest(p) ==
    /\ proc[p].pc = "unlink" /\ "manifest" \in proc[p].entries
    /\ LET n == proc[p].name IN
       /\ manifest' = [manifest EXCEPT ![n] = None]
       /\ proc' = [q \in Procs |->
             IF q = p THEN [proc[p] EXCEPT !.entries = @ \ {"manifest"}]
             ELSE IF proc[q].name = n THEN [proc[q] EXCEPT !.filling = FALSE] ELSE proc[q]]
       /\ touch(p, n) /\ stir
    /\ UNCHANGED <<latest, dir, binary, spoiled>>

\* A directory that somebody has put a file into meanwhile stays, and remove fails.
rmdir(p) ==
    /\ proc[p].pc = "unlink" /\ proc[p].entries = {}
    /\ LET n == proc[p].name IN
       dir' = [dir EXCEPT ![n] = @ /\ ~(binary[n] = None /\ manifest[n] = None)]
    /\ ends(p)
    /\ UNCHANGED <<latest, binary, manifest, history>>

-----------------------------------------------------------------------------
(* The rest of the world.                                                  *)

Publish(n) ==
    /\ latest[n] + 1 \in Releases
    /\ latest' = [latest EXCEPT ![n] = @ + 1]
    /\ UNCHANGED <<files, proc, history>>

\* The process ends by itself, after a refusal or the run of an extension.
Over(p) ==
    /\ proc[p].pc \in {"refused", "running"}
    /\ ends(p)
    /\ UNCHANGED <<latest, files, history>>

\* It is killed, wherever it is.
Kill(p) ==
    /\ proc[p].pc \notin {"idle", "refused", "running"}
    /\ spoiled' = [n \in Extensions |-> spoiled[n] \/ Writing(p, n)]
    /\ ends(p)
    /\ UNCHANGED <<latest, files, touched, stirred>>

Write(p) ==
    \/ downloadFails(p) \/ makeDir(p) \/ openBinary(p) \/ copyPart(p) \/ copied(p)
    \/ emptyManifest(p) \/ fillManifest(p) \/ writeFails(p)

Next ==
    \/ \E p \in Procs :
          \/ Start(p) \/ (\E n \in Extensions : visit(p, n)) \/ decode(p) \/ begin(p)
          \/ lookup(p) \/ Write(p) \/ exec(p)
          \/ remove(p) \/ unlinkBinary(p) \/ unlinkManifest(p) \/ rmdir(p)
          \/ Over(p) \/ Kill(p)
    \/ \E n \in Extensions : Publish(n)

Spec == Init /\ [][Next]_vars

-----------------------------------------------------------------------------
(* Properties.                                                             *)

Steps == {"idle", "visit", "decode", "refused", "lookup", "download", "open", "copy",
          "empty", "fill", "exec", "running", "remove", "unlink"}

Process ==
    [pc : Steps, op : {"install", "remove", "use", None}, name : Extensions \cup {None},
     left : SUBSET Extensions, at : Extensions \cup {None},
     hand : Releases \cup {None}, release : Nat, offset : Nat,
     open : BOOLEAN, filling : BOOLEAN,
     entries : SUBSET {"binary", "manifest"}, ran : Seq(Nat) \cup {None}]

TypeOK ==
    /\ latest \in [Extensions -> Releases \cup {0}]
    /\ dir \in [Extensions -> BOOLEAN]
    /\ binary \in [Extensions -> Seq(Nat) \cup {None}]
    /\ manifest \in [Extensions -> Releases \cup {None, Torn}]
    /\ proc \in [Procs -> Process]
    /\ \A p \in Procs : proc[p].pc # "idle" => proc[p].name \in Extensions
    /\ spoiled \in [Extensions -> BOOLEAN]
    /\ touched \in [Procs -> BOOLEAN] /\ stirred \in [Procs -> BOOLEAN]

\* What runs as an extension is the whole binary of the release its manifest names,
\* whatever installations failed or died before it and were repeated, and whichever
\* removals stopped half-way; unless the last write of the binary failed or had a rival
\* (store.go, Write), or another process changed the extension under this one.
RunsWhatItSays ==
    \A p \in Procs :
        proc[p].pc = "running" /\ ~touched[p] /\ ~spoiled[proc[p].name] =>
            proc[p].ran = Image(proc[p].hand)

\* No command of the CLI is kept from starting by an extension that is installed in
\* part or removed in part: only by a manifest that is torn, or that another process
\* changed while this one read (store.go, FindAll, under cobra.CheckErr).
StartsUnlessStirred ==
    \A p \in Procs : proc[p].pc = "refused" => stirred[p]

=============================================================================
