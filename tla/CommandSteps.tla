---------------------------- MODULE CommandSteps ----------------------------
(* The vocabulary in which the command modules are written. A command that  *)
(* talks to the API is a sequence of steps: what it checks, what it asks    *)
(* the user, which requests it makes, in the order of its Go code.          *)
(* CommandRun says what a step does. A step is due when the facts it names  *)
(* in "when" hold and none of those in "unless". A fact is an option that   *)
(* was given, or something a step before has found out; "tty" is a terminal *)
(* on which the user can be asked, "force" is --force.                      *)
EXTENDS Sequences, FiniteSets

\* A request is told by what it does to the server, to which kind of thing, and
\* how it says which thing: by its id, by its name, or by neither.
Request(verb, kind, by) == [verb |-> verb, kind |-> kind, by |-> by]
NoRequest == Request("none", "none", "none")

Reading   == {"read", "list", "listOnce"}      \* listOnce takes one answer for the whole list
Ending    == {"delete", "cancel", "rollback"}   \* what it ends cannot be had back
Minting   == {"create", "start", "rollback"}    \* carried out twice, it does two things
Verbs     == Reading \cup Ending \cup Minting \cup {"put", "update", "none"}

Writes(req)   == req.verb \notin Reading \cup {"none"}
Destroys(req) == req.verb \in Ending
Mints(req)    == req.verb \in Minting

Exits == {"running", "ok", "general", "badArguments", "auth", "api", "notFound",
          "cancelled", "validation", "timeout"}

\* code: the exit code when the step fails, for a find that there is no such list;
\* miss: when what was looked for is not there, or the user says no; soft: the failures after which it goes on,
\* "miss" that of a lookup, "no" that of a prompt that is left;
\* fact: what the step asks for, or learns by being true or by failing softly;
\* many: it is done for each of several things; again: failing softly, it is
\* done again from the step before.
Step(do, code, miss, req) ==
    [do |-> do, fact |-> "", code |-> code, miss |-> miss, req |-> req,
     when |-> {}, unless |-> {}, soft |-> {}, many |-> FALSE, again |-> FALSE]

Need(code) == <<Step("need", code, code, NoRequest)>>         \* a check that may end the command
Require    == Need("badArguments")
Whether(f) == <<[Step("whether", "ok", "ok", NoRequest) EXCEPT !.fact = f]>>  \* it is so, or not
Stop(code) == <<Step("stop", code, code, NoRequest)>>         \* the command ends here
Ask(f)     == <<[Step("ask", "badArguments", "cancelled", NoRequest) EXCEPT !.fact = f]>>
Prompt     == Ask("")                                           \* no flag says it
Consent    == <<Step("consent", "cancelled", "cancelled", NoRequest)>>
Call(req)  == <<Step("call", "byAnswer", "notFound", req)>>
Find(req)  == <<Step("find", "notFound", "notFound", req)>>   \* list, and match the name
WriteFile  == <<Step("file", "general", "general", NoRequest)>>

Failures == {"notFound", "unauthorized", "refused", "silence"}

(* How a sequence of steps is qualified. *)
When(o, s)       == [i \in DOMAIN s |-> [s[i] EXCEPT !.when = @ \cup {o}]]
Unless(o, s)     == [i \in DOMAIN s |-> [s[i] EXCEPT !.unless = @ \cup {o}]]
Coded(code, s)   == [i \in DOMAIN s |-> [s[i] EXCEPT !.code = code]]
Missing(code, s) == [i \in DOMAIN s |-> [s[i] EXCEPT !.miss = code]]
Many(s)          == [i \in DOMAIN s |-> [s[i] EXCEPT !.many = TRUE]]
Again(s)         == [i \in DOMAIN s |-> [s[i] EXCEPT !.again = TRUE]]
Soft(answers, s) == [i \in DOMAIN s |-> [s[i] EXCEPT !.soft = @ \cup answers]]
Learn(f, s)      == [i \in DOMAIN s |-> [s[i] EXCEPT !.fact = f]]
\* Done for each of what the step before has listed, which may be nothing.
ForEach(f, s)    == Whether(f) \o Unless(f, Many(s))
Softly(s)        == Soft(Failures \cup {"miss"}, s)
=============================================================================
