---------------------------- MODULE MCConfigStore ----------------------------
(* ConfigStore on two hosts that issued one token each, for each question.  *)
EXTENDS ConfigStore, TLC

CONSTANTS std, other,    \* config files: the XDG default, one given by --config
          h1, h2, t1, t2, dark

MCHostOf == t1 :> h1 @@ t2 :> h2

MCSave(o, h, t, v) == [op |-> o, host |-> h, token |-> t, pref |-> v]

Login(t)   == MCSave("login", MCHostOf[t], t, None)
Logout     == MCSave("logout", None, None, None)
Token(t)   == MCSave("token", None, t, None)
SetHost(h) == MCSave("host", h, None, None)
Pref       == MCSave("pref", None, None, dark)
Unpref     == MCSave("unpref", None, None, None)

Cmd(k, f, s, ops) == [kind |-> k, path |-> f, secure |-> s, saves |-> ops]

Load(f, s) == Cmd("load", f, s, <<>>)

\* A machine never used, and one logged in to host h with its token in the keyring.
NoFile    == [f \in Paths |-> Empty]
NoRing    == [h \in Hosts |-> None]
InUse(h)  == [f \in Paths |-> [Empty EXCEPT !.host = h, !.pref = dark]]
Ring(t)   == [h \in Hosts |-> IF MCHostOf[t] = h THEN t ELSE None]

\* The default file is in use, the other new.  Commands racing on both: logins to both hosts, a signup, a logout, a host
\* switch and a preference; --config moves only some of them off the default file.
RaceCommands == {Load(std, TRUE), Cmd("signup", std, TRUE, <<Login(t1)>>),
                 Cmd("save", other, TRUE, <<Login(t2)>>), Cmd("save", std, TRUE, <<Logout>>),
                 Cmd("save", other, FALSE, <<SetHost(h2)>>), Cmd("save", other, FALSE, <<Unpref>>)}
RaceStored == {[f \in Paths |-> IF f = std THEN InUse(h1)[f] ELSE Empty]}
RaceRings  == {NoRing, Ring(t1)}

\* One machine, one file, and a keyring that refuses now and then, and comes and
\* goes; setup makes two saves.
CalmCommands == {Load(std, TRUE), Cmd("save", std, TRUE, <<Login(t1)>>),
                 Cmd("save", std, TRUE, <<SetHost(h1), Token(t2)>>), Cmd("save", std, TRUE, <<Logout>>),
                 Cmd("save", std, FALSE, <<Pref>>)}
InFile(t)  == [f \in Paths |-> [Empty EXCEPT !.token = t, !.user = t]]
CalmStored == {NoFile, InFile(t1)}
CalmRings  == {NoRing, Ring(t1)}

\* Processes are interchangeable; ConfigCalm checks no liveness.
Interchangeable == Permutations(Procs)

NoRingOnly == {NoRing}
LogoutStored   == {[f \in Paths |-> [Empty EXCEPT !.token = t1, !.user = t1]]}
LogoutCommands == {Cmd("save", std, TRUE, <<Logout>>)}

\* ConfigCalm's setup saves t2 under a host that did not issue it.
ASSUME CommandsAssumption ==
    /\ TokenLast
    /\ IF Commands = CalmCommands THEN Calm ELSE FiledTogether
=============================================================================
