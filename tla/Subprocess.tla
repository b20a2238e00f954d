----------------------------- MODULE Subprocess -----------------------------
(***************************************************************************)
(* The calls that run a program: IsServiceRunningWithContext (service.go), *)
(* which asks systemctl and, when that says nothing, service; and the      *)
(* who(1) of GetSystemWithContext (system.go).  exec.run gives each        *)
(* program a timer of its own on top of the caller's context, kills it     *)
(* when either is done, and returns what it printed.                       *)
(*                                                                         *)
(* Output() returns when the program has ended and the last writer of its  *)
(* stdout has closed it: the kill reaches the program and none of its      *)
(* descendants.  Steps of the call take no time; the programs' may.        *)
(***************************************************************************)
EXTENDS Integers

CONSTANTS
  Timeout,   \* defaultExecTimeout in ticks
  Linger     \* bound: ticks a descendant keeps a stdout open by itself

ASSUME SubprocessAssumption == Timeout \in Nat \ {0} /\ Linger \in Nat

VARIABLES
  runAt,      \* where the call is
  tool,       \* the program being run
  installed,  \* programs found in $PATH
  ctxDone,    \* the caller's context is done
  time,       \* wall time since the call
  expiry,     \* when the timer of this run() fires
  child,      \* the program: not started, running, or how it ended
  heir,       \* a descendant of the program holds its stdout open
  said,       \* what has been printed
  verdict,    \* what the call returned
  held,       \* history: time in which only a descendant kept the call
  cancelTime  \* history: the time, less held, when the context was done

progVars == <<tool, installed, child, heir, said>>
runVars  == <<runAt, progVars, ctxDone, time, expiry, verdict, held, cancelTime>>

Tools == {"systemctl", "service", "who"}

\* "active": systemctl's one word, or the line serviceActiveRe looks for.
Outputs == {"nothing", "words", "active"}

\* (true, nil), (false, nil), (false, ctx.Err()), (false, could not determine);
\* and the user list of who, or none.
Verdicts == {"none", "running", "stopped", "ctx", "unknown", "users", "nobody"}

-----------------------------------------------------------------------------
\* Types of every variable.
SubprocessTypeOK ==
  /\ runAt \in {"idle", "start", "wait", "returned"}
  /\ tool \in Tools /\ installed \subseteq Tools
  /\ ctxDone \in BOOLEAN /\ heir \in BOOLEAN
  /\ time \in Nat /\ expiry \in Nat /\ held \in Nat /\ cancelTime \in Nat
  /\ child \in {"none", "running", "ok", "failed", "killed"}
  /\ said \in Outputs
  /\ verdict \in Verdicts

SubprocessInit ==
  /\ runAt = "idle" /\ tool = "systemctl" /\ installed = {}
  /\ ctxDone = FALSE /\ time = 0 /\ expiry = 0
  /\ child = "none" /\ heir = FALSE /\ said = "nothing"
  /\ verdict = "none" /\ held = 0 /\ cancelTime = 0

-----------------------------------------------------------------------------
(* The call.                                                               *)

\* isServiceRunning, or processLoggedInUsers, with a context done or not.
BeginRun ==
  /\ runAt = "idle"
  /\ runAt' = "start"
  /\ tool' \in {"systemctl", "who"}
  /\ installed' \in SUBSET Tools
  /\ ctxDone' \in BOOLEAN
  /\ UNCHANGED <<time, expiry, child, heir, said, verdict, held, cancelTime>>

Return(v) ==
  /\ runAt' = "returned" /\ verdict' = v
  /\ UNCHANGED progVars

\* The second program, with nothing kept of the first.
Fallback ==
  /\ runAt' = "start" /\ tool' = "service"
  /\ child' = "none" /\ said' = "nothing"
  /\ UNCHANGED <<installed, heir, verdict>>

\* Mutant: the exit status decides and not the output.
DecideByStatus(output, failed) ==
  \/ tool = "who" /\ Return(IF failed THEN "nobody" ELSE "users")
  \/ /\ tool # "who" /\ ~failed
     /\ Return(IF output = "active" THEN "running" ELSE "stopped")
  \/ /\ tool = "systemctl" /\ failed
     /\ Fallback
  \/ /\ tool = "service" /\ failed
     /\ Return("stopped")

\* What the caller of run() makes of its output and error.
Decide(output, failed) ==
  \/ tool = "who" /\ Return(IF failed THEN "nobody" ELSE "users")
  \/ /\ tool # "who" /\ output # "nothing"
     /\ Return(IF output = "active" THEN "running" ELSE "stopped")
  \/ /\ tool # "who" /\ output = "nothing" /\ ~failed
     /\ Return("stopped")
  \/ /\ tool = "systemctl" /\ output = "nothing" /\ failed
     /\ Fallback
  \/ /\ tool = "service" /\ output = "nothing" /\ failed
     /\ Return(IF ctxDone THEN "ctx" ELSE "unknown")

\* Mutant: the timer is not restarted and a first program uses it all up.
StartOnOneTimer ==
  /\ runAt = "start" /\ tool \in installed /\ ~ctxDone
  /\ runAt' = "wait" /\ child' = "running"
  /\ expiry' = expiry + 2 * Timeout
  /\ UNCHANGED <<tool, installed, heir, said, verdict, ctxDone, time, held, cancelTime>>

\* run: the program is started and its timer with it.
Start ==
  /\ runAt = "start" /\ tool \in installed /\ ~ctxDone
  /\ runAt' = "wait" /\ child' = "running"
  /\ expiry' = time + Timeout
  /\ UNCHANGED <<tool, installed, heir, said, verdict, ctxDone, time, held, cancelTime>>

\* cmd.Start fails: no such program, or a context already done.
StartFails ==
  /\ runAt = "start" /\ (tool \notin installed \/ ctxDone)
  /\ Decide("nothing", TRUE)
  /\ UNCHANGED <<ctxDone, time, expiry, held, cancelTime>>

Due == child = "running" /\ (ctxDone \/ time >= expiry)

\* Mutant: a program that has answered is left to end by itself.
KillIfSilent ==
  /\ runAt = "wait" /\ Due /\ said = "nothing"
  /\ child' = "killed"
  /\ UNCHANGED <<runAt, tool, installed, heir, said, ctxDone, time, expiry,
                 verdict, held, cancelTime>>

\* exec.CommandContext kills the program, and only it.
Kill ==
  /\ runAt = "wait" /\ Due
  /\ child' = "killed"
  /\ UNCHANGED <<runAt, tool, installed, heir, said, ctxDone, time, expiry,
                 verdict, held, cancelTime>>

Ended == child \in {"ok", "failed", "killed"} /\ ~heir

\* cmd.Output returns: the program has been waited for, its stdout read to the end.
OutputReturns ==
  /\ runAt = "wait" /\ Ended
  /\ Decide(said, child # "ok")
  /\ UNCHANGED <<ctxDone, time, expiry, held, cancelTime>>

RunStep == Start \/ StartFails \/ Kill \/ OutputReturns

-----------------------------------------------------------------------------
(* The programs, the caller and the clock.                                 *)

\* systemctl prints one word; service its lines, of which one may be the one
\* looked for; who any lines.
Speak ==
  /\ runAt = "wait" /\ (child = "running" \/ heir)
  /\ said' \in CASE said = "nothing" /\ tool = "systemctl" -> {"words", "active"}
                 [] said = "nothing" /\ tool # "systemctl" -> {"words"}
                 [] said = "words" /\ tool = "service"     -> {"active"}
                 [] OTHER                                  -> {}
  /\ UNCHANGED <<runAt, tool, installed, child, heir, ctxDone, time, expiry,
                 verdict, held, cancelTime>>

End ==
  /\ runAt = "wait" /\ child = "running"
  /\ child' \in {"ok", "failed"}
  /\ UNCHANGED <<runAt, tool, installed, heir, said, ctxDone, time, expiry,
                 verdict, held, cancelTime>>

\* The program forks a process that inherits its stdout; that process ends.
Fork ==
  /\ runAt = "wait" /\ child = "running" /\ ~heir
  /\ heir' = TRUE
  /\ UNCHANGED <<runAt, tool, installed, child, said, ctxDone, time, expiry,
                 verdict, held, cancelTime>>

HeirEnds ==
  /\ heir
  /\ heir' = FALSE
  /\ UNCHANGED <<runAt, tool, installed, child, said, ctxDone, time, expiry,
                 verdict, held, cancelTime>>

CallerCancels ==
  /\ runAt \in {"start", "wait"} /\ ~ctxDone
  /\ ctxDone' = TRUE /\ cancelTime' = time - held
  /\ UNCHANGED <<runAt, progVars, time, expiry, verdict, held>>

\* Time passes while the call has nothing to do.
TimePasses ==
  /\ runAt = "wait" /\ ~Due /\ ~Ended
  /\ child # "running" => held < Linger
  /\ time' = time + 1
  /\ held' = IF child = "running" THEN held ELSE held + 1
  /\ UNCHANGED <<runAt, progVars, ctxDone, expiry, verdict, cancelTime>>

ProgramStep == Speak \/ End \/ Fork \/ HeirEnds

SubprocessNext ==
  \/ BeginRun \/ RunStep \/ ProgramStep \/ CallerCancels \/ TimePasses

SubprocessSpec ==
  /\ SubprocessInit /\ [][SubprocessNext]_runVars
  /\ WF_runVars(RunStep) /\ WF_runVars(TimePasses)

-----------------------------------------------------------------------------
(* Properties.                                                             *)

\* isServiceRunning's rule (service.go:13-22): output decides, however the
\* program ended; one that ended well and said nothing means stopped; an error
\* means that neither program gave an answer, and is the context's if that is
\* done.  A user list is that of a who that ended well.
VerdictHeard ==
  /\ verdict = "running" => said = "active"
  /\ verdict = "stopped" => said = "words" \/ (said = "nothing" /\ child = "ok")
  /\ verdict \in {"ctx", "unknown"} =>
       /\ tool = "service" /\ said = "nothing" /\ child # "ok"
       /\ verdict = "ctx" <=> ctxDone
  /\ verdict = "users" => child = "ok"

\* systats.go:236-240: "(false, nil) means the service really is stopped, while
\* (false, err) means the check itself failed - a wedged systemd, a cancelled
\* context".  So no false verdict is read from what a service(8) had printed
\* when it was killed, its "Active:" line perhaps still to come.
StoppedInFull == verdict = "stopped" /\ tool = "service" => child # "killed"

\* doc.go:30: calls honour their context and are bounded otherwise, apart from
\* the time a program's descendant holds its stdout: by one timeout for who and
\* for systemctl, by a second one for service.
WithinTimeouts ==
  /\ time - held <= IF tool = "service" THEN 2 * Timeout ELSE Timeout
  /\ ctxDone => time - held = cancelTime

\* A call returns, unless a descendant never closes the stdout it inherited.
RunReturns == [](runAt \in {"start", "wait"} => <>(runAt = "returned") \/ <>[]heir)
=============================================================================
