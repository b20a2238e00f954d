----------------------------- MODULE Dashboard ------------------------------
(***************************************************************************)
(* One rendering of the example dashboard (example/collect.go, main.go):   *)
(* collect() starts a goroutine per reader, waits for all of them on a     *)
(* WaitGroup and assembles the page; the caller then writes it, unless it  *)
(* serves HTTP and the request's context is done.                          *)
(*                                                                         *)
(* Each goroutine fills its own field of the page without a lock; the      *)
(* list of problems and the readings the container panel needs are shared  *)
(* and guarded by mu.  append is a load and a store.  A reader is seen as  *)
(* reads, any of which may fail, with waits on the context in between.     *)
(***************************************************************************)
EXTENDS Integers, Sequences, FiniteSets

CONSTANTS
  Workers,    \* the readers, one goroutine each
  Aware,      \* readers that are given the context
  Naps,       \* how many times each reader waits (sleepCtx)
  Shared,     \* readers that also keep their reading for the container panel
  Limiters,   \* those of them with the container-aware SyStats: no panel
  Rank,       \* alphabetical order of the panels' names
  Modes,      \* "serve", "file": who calls collect()
  None        \* no goroutine

ASSUME WorkerAssumption ==
  /\ IsFiniteSet(Workers)
  /\ Aware \subseteq Workers
  /\ Shared \subseteq Workers
  /\ Limiters \subseteq Shared
  /\ Naps \in [Workers -> Nat]
  /\ \A w \in Workers : Naps[w] > 0 => w \in Aware
  /\ Rank \in [Workers -> Int]
  /\ \A v, w \in Workers : Rank[v] = Rank[w] => v = w
  /\ Modes \subseteq {"serve", "file"}
  /\ None \notin Workers

VARIABLES
  mode,       \* the caller
  done,       \* the context is done: client gone, or -timeout
  main,       \* where collect() and then its caller are
  wg,         \* the WaitGroup's counter
  mu,         \* the goroutine holding the mutex, or None
  at,         \* where each goroutine is
  naps,       \* waits it still has before it
  why,        \* why its reader failed: "none", "io" or "ctx"
  limited,    \* whether its reading has Limited set
  seen,       \* d.Problems as fail() loaded it
  panels,     \* readers whose panel is filled
  published,  \* shared readings stored, with their Limited
  problems,   \* d.Problems, by reader
  box         \* d.Container is set

workerVars == <<wg, mu, at, naps, why, limited, seen, panels, published, problems>>
vars == <<mode, done, main, workerVars, box>>

-----------------------------------------------------------------------------
Places == {"unstarted", "read", "nap", "lock", "publish", "fill", "failLock",
           "load", "store", "exit", "gone"}

Running == {w \in Workers : at[w] \notin {"unstarted", "gone"}}

Occurs(w, s) == \E n \in DOMAIN s : s[n] = w

\* Types of every variable.
TypeOK ==
  /\ mode \in Modes /\ done \in BOOLEAN
  /\ main \in {"spawn", "wait", "build", "check", "write", "written",
               "dropped", "error"}
  /\ wg \in Nat
  /\ mu \in Workers \cup {None}
  /\ at \in [Workers -> Places]
  /\ naps \in [Workers -> Nat]
  /\ why \in [Workers -> {"none", "io", "ctx"}]
  /\ limited \in [Workers -> BOOLEAN]
  /\ seen \in [Workers -> Seq(Workers)]
  /\ panels \subseteq Workers
  /\ published \in [Shared -> {"zero", "unlimited", "limited"}]
  /\ problems \in Seq(Workers)
  /\ box \in BOOLEAN

Init ==
  /\ mode \in Modes /\ done = FALSE
  /\ main = "spawn" /\ wg = 0 /\ mu = None
  /\ at = [w \in Workers |-> "unstarted"]
  /\ naps = Naps
  /\ why = [w \in Workers |-> "none"]
  /\ limited = [w \in Workers |-> FALSE]
  /\ seen = [w \in Workers |-> <<>>]
  /\ panels = {}
  /\ published = [w \in Shared |-> "zero"]
  /\ problems = <<>>
  /\ box = FALSE

-----------------------------------------------------------------------------
(* A goroutine.                                                            *)

Goto(w, place) == at' = [at EXCEPT ![w] = place]

\* After a good read: wait, publish, or fill the panel.
NextPlace(w) == IF naps[w] > 0 THEN "nap"
                ELSE IF w \in Shared THEN "lock" ELSE "fill"

ReadOK(w) ==
  /\ at[w] = "read"
  /\ Goto(w, NextPlace(w))
  /\ IF w \in Limiters
     THEN \E b \in BOOLEAN : limited' = [limited EXCEPT ![w] = b]
     ELSE UNCHANGED limited
  /\ UNCHANGED <<wg, mu, naps, why, seen, panels, published, problems>>

ReadFails(w) ==
  /\ at[w] = "read"
  /\ \E e \in {"io", "ctx"} :
       /\ e = "ctx" => done /\ w \in Aware
       /\ why' = [why EXCEPT ![w] = e]
  /\ Goto(w, "failLock")
  /\ UNCHANGED <<wg, mu, naps, limited, seen, panels, published, problems>>

\* Mutant: the timer is stopped before the select, so only ctx ends the wait.
NapNeverOver(w) ==
  /\ at[w] = "nap" /\ done
  /\ naps' = [naps EXCEPT ![w] = @ - 1]
  /\ Goto(w, "read")
  /\ UNCHANGED <<wg, mu, why, limited, seen, panels, published, problems>>

\* sleepCtx, in the library or in the example: the timer, or the context.
NapOver(w) ==
  /\ at[w] = "nap"
  /\ naps' = [naps EXCEPT ![w] = @ - 1]
  /\ Goto(w, "read")
  /\ UNCHANGED <<wg, mu, why, limited, seen, panels, published, problems>>

NapCancelled(w) ==
  /\ at[w] = "nap" /\ done
  /\ why' = [why EXCEPT ![w] = "ctx"]
  /\ Goto(w, "failLock")
  /\ UNCHANGED <<wg, mu, naps, limited, seen, panels, published, problems>>

\* Mutant: fail() appends without taking the mutex.
FailUnlocked(w) ==
  \/ /\ at[w] = "lock" /\ mu = None
     /\ mu' = w /\ Goto(w, "publish")
     /\ UNCHANGED <<wg, naps, why, limited, seen, panels, published, problems>>
  \/ /\ at[w] = "failLock"
     /\ Goto(w, "load")
     /\ UNCHANGED <<wg, mu, naps, why, limited, seen, panels, published, problems>>

\* mu.Lock()
Lock(w) ==
  /\ at[w] \in {"lock", "failLock"} /\ mu = None
  /\ mu' = w
  /\ Goto(w, IF at[w] = "lock" THEN "publish" ELSE "load")
  /\ UNCHANGED <<wg, naps, why, limited, seen, panels, published, problems>>

\* Mutant: the reading is never stored.
PublishNothing(w) ==
  /\ at[w] = "publish"
  /\ mu' = None
  /\ Goto(w, IF w \in Limiters THEN "exit" ELSE "fill")
  /\ UNCHANGED <<wg, naps, why, limited, seen, panels, published, problems>>

\* hostCPU = cpu, and the like; mu.Unlock().
Publish(w) ==
  /\ at[w] = "publish"
  /\ published' = [published EXCEPT ![w] =
                     IF limited[w] THEN "limited" ELSE "unlimited"]
  /\ mu' = None
  /\ Goto(w, IF w \in Limiters THEN "exit" ELSE "fill")
  /\ UNCHANGED <<wg, naps, why, limited, seen, panels, problems>>

\* d.CPU = buildCPUPanel(cpu), and the like: no lock, a field of its own.
Fill(w) ==
  /\ at[w] = "fill"
  /\ panels' = panels \cup {w}
  /\ Goto(w, "exit")
  /\ UNCHANGED <<wg, mu, naps, why, limited, seen, published, problems>>

\* fail(): append(d.Problems, ...) reads the slice, ...
Load(w) ==
  /\ at[w] = "load"
  /\ seen' = [seen EXCEPT ![w] = problems]
  /\ Goto(w, "store")
  /\ UNCHANGED <<wg, mu, naps, why, limited, panels, published, problems>>

\* ... and stores it one longer; the deferred Unlock.
Store(w) ==
  /\ at[w] = "store"
  /\ problems' = Append(seen[w], w)
  /\ seen' = [seen EXCEPT ![w] = <<>>]
  /\ mu' = None
  /\ Goto(w, "exit")
  /\ UNCHANGED <<wg, naps, why, limited, panels, published>>

\* The deferred wg.Done(): on every way out.
Exit(w) ==
  /\ at[w] = "exit"
  /\ wg' = wg - 1
  /\ Goto(w, "gone")
  /\ UNCHANGED <<mu, naps, why, limited, seen, panels, published, problems>>

\* Everything but the reads themselves is up to the scheduler and a timer.
Step(w) ==
  /\ \/ ReadOK(w) \/ ReadFails(w) \/ NapOver(w) \/ NapCancelled(w)
     \/ Lock(w) \/ Publish(w) \/ Fill(w) \/ Load(w) \/ Store(w) \/ Exit(w)
  /\ UNCHANGED <<mode, done, main, box>>

-----------------------------------------------------------------------------
(* collect() and its caller.                                               *)

\* Mutant: wg.Add is forgotten for one of the readers.
SpawnWithoutAdd ==
  /\ main = "spawn"
  /\ \E w \in Workers :
       /\ at[w] = "unstarted"
       /\ Goto(w, "read")
       /\ wg' = IF Running = {} THEN wg ELSE wg + 1
  /\ UNCHANGED <<mode, done, main, mu, naps, why, limited, seen, panels,
                 published, problems, box>>

\* run(): wg.Add(1) before the goroutine starts.  The source starts them in one
\* order; any order does.
Spawn ==
  /\ main = "spawn"
  /\ \E w \in Workers : at[w] = "unstarted" /\ Goto(w, "read")
  /\ wg' = wg + 1
  /\ UNCHANGED <<mode, done, main, mu, naps, why, limited, seen, panels,
                 published, problems, box>>

Spawned ==
  /\ main = "spawn"
  /\ \A w \in Workers : at[w] # "unstarted"
  /\ main' = "wait"
  /\ UNCHANGED <<mode, done, workerVars, box>>

\* Mutant: wg.Wait() is forgotten.
NoWait ==
  /\ main = "wait"
  /\ main' = "build"
  /\ UNCHANGED <<mode, done, workerVars, box>>

\* wg.Wait()
Wait ==
  /\ main = "wait" /\ wg = 0
  /\ main' = "build"
  /\ UNCHANGED <<mode, done, workerVars, box>>

\* The problems in the order of sort.Slice.
Sorted(s) ==
  {t \in [DOMAIN s -> Workers] :
     /\ \A w \in Workers : Occurs(w, t) <=> Occurs(w, s)
     /\ \A m, n \in DOMAIN t : m < n => Rank[t[m]] < Rank[t[n]]}

\* The container panel, when a container-aware reading has a limit; then the
\* problems are sorted and collect() returns.
Build ==
  /\ main = "build"
  /\ box' = (\E w \in Limiters : published[w] = "limited")
  /\ problems' \in Sorted(problems)
  /\ main' = IF mode = "serve" THEN "check" ELSE "write"
  /\ UNCHANGED <<mode, done, wg, mu, at, naps, why, limited, seen, panels, published>>

\* Mutant: the handler does not look at the context.
CheckNothing ==
  /\ main = "check"
  /\ main' = "write"
  /\ UNCHANGED <<mode, done, workerVars, box>>

\* The handler: nothing is written once the request's context is done.
CheckContext ==
  /\ main = "check"
  /\ main' = IF done THEN "dropped" ELSE "write"
  /\ UNCHANGED <<mode, done, workerVars, box>>

\* render or writeSnapshot, which may fail.
Write ==
  /\ main = "write"
  /\ main' \in {"written", "error"}
  /\ UNCHANGED <<mode, done, workerVars, box>>

Main == Spawn \/ Spawned \/ Wait \/ Build \/ CheckContext \/ Write

\* The client goes away, or -timeout passes.
Cancel ==
  /\ ~done /\ main \notin {"written", "dropped", "error"}
  /\ done' = TRUE
  /\ UNCHANGED <<mode, main, workerVars, box>>

Finished == main \in {"written", "dropped", "error"} /\ UNCHANGED vars

Next == Main \/ (\E w \in Workers : Step(w)) \/ Cancel \/ Finished

\* Every goroutine is scheduled, reads return and timers fire.  No one needs a
\* fairer mutex: each goroutine locks it once.
Fairness ==
  /\ WF_vars(Main)
  /\ \A w \in Workers : WF_vars(Step(w))

Spec == Init /\ [][Next]_vars /\ Fairness

-----------------------------------------------------------------------------
(* Properties.                                                             *)

\* Whether a reader's data reached the page: its panel, or for a container-
\* aware reader the reading the container panel is built from.
HasData(w) == IF w \in Limiters THEN published[w] # "zero" ELSE w \in panels

Collected == main \notin {"spawn", "wait"}

\* Once wg.Wait() has returned, every reader either gave its data or is named
\* by exactly one problem, however the goroutines interleaved (run, fail).
EveryReaderSettledOnce ==
  Collected =>
    /\ \A w \in Workers : HasData(w) <=> ~Occurs(w, problems)
    /\ \A m, n \in DOMAIN problems : problems[m] = problems[n] => m = n

\* No goroutine touches the page after wg.Wait(): the caller builds the
\* container panel from final readings and sorts and renders without a lock.
PageStillAfterWait ==
  [][Collected => /\ panels' = panels /\ published' = published
                  /\ main # "build" => problems' = problems]_vars

\* A page served over HTTP never shows a panel that is missing because the
\* request was given up: the context stays done, and the handler looks at it
\* after collect() (serveDashboard).
NoCancelledPanelServed ==
  mode = "serve" /\ main \in {"write", "written", "error"} =>
    \A w \in Workers : why[w] # "ctx"

\* The rendering ends, with every goroutine gone.
RenderingEnds ==
  <>(main \in {"written", "dropped", "error"} /\ \A w \in Workers : at[w] = "gone")

\* What this implements: see Collection.
Outcome(w) ==
  IF Occurs(w, problems) THEN "failed"
  ELSE IF ~HasData(w) THEN "pending"
  ELSE IF w \in Limiters /\ published[w] = "limited" THEN "limited"
  ELSE "filled"

PageOf == CASE main \in {"check", "write"}    -> "assembled"
            [] main = "written"               -> "delivered"
            [] main \in {"dropped", "error"}  -> "dropped"
            [] OTHER                          -> "collecting"

Promise == INSTANCE Collection WITH
  state <- [w \in Workers |-> Outcome(w)], page <- PageOf

\* collect() and its caller keep the promise of Collection: readers settle once
\* and for good, and only a page all of them have settled on is given away.
KeepsPromise == Promise!Spec
=============================================================================
