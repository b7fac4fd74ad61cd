------------------------------ MODULE TestRun ------------------------------
(***************************************************************************)
(* The body of run_test (runTestCore in src/handlers.ts): a stub server, a *)
(* sampling profiler and the `maestro test` subprocess, each of which may  *)
(* fail, under a signal that may abort it.  The sampling is that of        *)
(* src/profiling/lightweight-android-profiler.ts, which computes the CPU   *)
(* share of a process from two readings of it, while maestro relaunches    *)
(* the app; with it go the iOS sampler, which keeps no previous reading.   *)
(***************************************************************************)
EXTENDS Integers, Sequences, FiniteSets

CONSTANTS Collector,          (* collectSample() calls in progress at once *)
          MaxRelaunches, MaxSamples   (* bounds                            *)

VARIABLES
  step,               (* of runTestCore                                    *)
  stubServer, child,  (* "none", "up", "gone"                              *)
  told,               (* the subprocess is told to end: abort or time-out  *)
  answer,             (* "none", "passed", "failed", "error"               *)
  profiler,           (* isActive, timer; pid and snapshot: the processes  *)
                      (* of lastKnownPid and lastCpuSnapshot, 0 for null   *)
  collect,            (* of each collector: pc, the pid it reads, whether  *)
                      (* it has resolved it anew, whether it is awaited    *)
  samples,            (* of each sample: its process and that of the       *)
                      (* reading it was compared with                      *)
  appPid,             (* the app's process now                             *)
  beside              (* whether two collections were ever in progress     *)

runVars == <<step, stubServer, child, told, answer>>
profileVars == <<profiler, collect, samples, beside>>
testVars == <<runVars, profileVars, appPid>>

IdleCollector == [pc |-> "idle", pid |-> 0, again |-> FALSE, awaited |-> FALSE]
Off == [isActive |-> FALSE, timer |-> FALSE, pid |-> 0, snapshot |-> 0]

TestInit ==
  /\ step = "preflight" /\ stubServer = "none" /\ child = "none"
  /\ told = FALSE /\ answer = "none" /\ profiler = Off
  /\ collect = [c \in Collector |-> IdleCollector]
  /\ samples = <<>> /\ appPid = 1 /\ beside = FALSE

Finally(a) == step' = "finally" /\ answer' = a

-----------------------------------------------------------------------------

(* No booted device: nothing to release.  Otherwise the driver is clean.   *)
Preflight ==
  /\ step = "preflight"
  /\ \/ step' = "stubs" /\ UNCHANGED answer
     \/ step' = "over" /\ answer' = "error"
  /\ UNCHANGED <<stubServer, child, told, profileVars, appPid>>

(* loadStubs and start, if stubs are asked for; a bad directory or a port  *)
(* in use is an error.                                                     *)
StartStubs ==
  /\ step = "stubs"
  /\ \/ step' = "profile" /\ stubServer' \in {"none", "up"} /\ UNCHANGED answer
     \/ Finally("error") /\ UNCHANGED stubServer
  /\ UNCHANGED <<child, told, profileVars, appPid>>

(* Not asked for, or no bundle id to be had: the run goes on without.      *)
NoProfiler ==
  /\ step = "profile" /\ step' = "spawn"
  /\ UNCHANGED <<stubServer, child, told, answer, profileVars, appPid>>

(* App-launch: start() measures by itself, stop() returns what it has. *)
MeasureLaunch ==
  /\ step = "profile" /\ step' = "spawn"
  /\ profiler' = [Off EXCEPT !.isActive = TRUE]
  /\ UNCHANGED <<stubServer, child, told, answer, collect, samples, beside, appPid>>

Begin(c, pid, awaited) ==
  /\ collect[c] = IdleCollector
  /\ collect' = [collect EXCEPT ![c] =
       [pc |-> IF pid = 0 THEN "resolve" ELSE "read", pid |-> pid, again |-> pid = 0,
        awaited |-> awaited]]
  /\ beside' = (beside \/ \E d \in Collector : collect[d] # IdleCollector)

(* start(): the timer is set before the first sample, which is awaited.    *)
StartProfiler ==
  /\ step = "profile" /\ step' = "first sample"
  /\ \E pid \in {0, appPid}, c \in Collector :
       /\ profiler' = [Off EXCEPT !.isActive = TRUE, !.timer = TRUE, !.pid = pid]
       /\ Begin(c, pid, TRUE)
  /\ UNCHANGED <<stubServer, child, told, answer, samples, appPid>>

Awaited(from, to) ==
  /\ step = from /\ \A c \in Collector : ~collect[c].awaited
  /\ step' = to

FirstSampled ==
  /\ Awaited("first sample", "spawn")
  /\ UNCHANGED <<stubServer, child, told, answer, profileVars, appPid>>

(* spawnStream: a signal that is aborted already kills the child at once;  *)
(* if it cannot be spawned the run has failed.                             *)
Spawn ==
  /\ step = "spawn" /\ step' = "running"
  /\ child' \in {"up", "gone"}
  /\ UNCHANGED <<stubServer, told, answer, profileVars, appPid>>

(* Until the subprocess has ended: then nobody listens. *)
AbortSignal ==
  /\ step \in {"stubs", "profile", "first sample", "spawn", "running"}
  /\ ~told /\ told' = TRUE
  /\ UNCHANGED <<step, stubServer, child, answer, profileVars, appPid>>

TimeOut ==
  /\ step = "running" /\ child = "up" /\ ~told /\ told' = TRUE
  /\ UNCHANGED <<step, stubServer, child, answer, profileVars, appPid>>

ChildReturns_ByCode ==
  /\ step = "running" /\ step' = "measure" /\ child' = "gone"
  /\ answer' \in IF child = "gone" THEN {"failed"} ELSE {"passed", "failed"}
  /\ UNCHANGED <<stubServer, told, profileVars, appPid>>

(* It ends by itself, or by SIGTERM and SIGKILL; it may still do so with   *)
(* code 0, which counts only if it was not told to end.                    *)
ChildReturns ==
  /\ step = "running" /\ step' = "measure" /\ child' = "gone"
  /\ answer' \in IF child = "gone" \/ told THEN {"failed"} ELSE {"passed", "failed"}
  /\ UNCHANGED <<stubServer, told, profileVars, appPid>>

Relaunch ==
  /\ child = "up" /\ appPid <= MaxRelaunches /\ appPid' = appPid + 1
  /\ UNCHANGED <<runVars, profileVars>>

-----------------------------------------------------------------------------
(* The sampler. *)

Timer ==
  /\ profiler.timer /\ Len(samples) < MaxSamples
  /\ \E c \in Collector : Begin(c, profiler.pid, FALSE)
  /\ UNCHANGED <<runVars, profiler, samples, appPid>>

(* adb reads /proc/<pid>; it fails if the process is gone, or by itself.   *)
Read(c) ==
  /\ collect[c].pc = "read"
  /\ \/ collect[c].pid = appPid /\ collect' = [collect EXCEPT ![c].pc = "sampled"]
     \/ collect' = [collect EXCEPT ![c].pc = "unread"]
  /\ UNCHANGED <<runVars, profiler, samples, beside, appPid>>

(* The share since the last reading; none without one. *)
Sampled(c) ==
  /\ collect[c].pc = "sampled"
  /\ samples' = Append(samples, [pid |-> collect[c].pid, since |-> profiler.snapshot])
  /\ profiler' = [profiler EXCEPT !.snapshot = collect[c].pid]
  /\ collect' = [collect EXCEPT ![c] = IdleCollector]
  /\ UNCHANGED <<runVars, beside, appPid>>

Baseline_Kept == profiler
Baseline == [profiler EXCEPT !.snapshot = 0]

(* The process is taken to be gone: resolve it anew, once. *)
Unread(c) ==
  /\ collect[c].pc = "unread"
  /\ IF collect[c].again
     THEN collect' = [collect EXCEPT ![c] = IdleCollector] /\ UNCHANGED profiler
     ELSE /\ profiler' = Baseline
          /\ collect' = [collect EXCEPT ![c] = [@ EXCEPT !.pc = "resolve", !.again = TRUE]]
  /\ UNCHANGED <<runVars, samples, beside, appPid>>

(* resolvePid, and the continuation that sets lastKnownPid. *)
Resolve(c) ==
  /\ collect[c].pc = "resolve"
  /\ \E pid \in {0, appPid} :
       /\ profiler' = [profiler EXCEPT !.pid = pid]
       /\ collect' = [collect EXCEPT ![c] = IF pid = 0 THEN IdleCollector
                                            ELSE [@ EXCEPT !.pc = "read", !.pid = pid]]
  /\ UNCHANGED <<runVars, samples, beside, appPid>>

-----------------------------------------------------------------------------
(* The end. *)

(* stop(): no more timer, and a last sample that is awaited. *)
StopProfiler ==
  /\ step = "measure" /\ profiler.timer /\ step' = "last sample"
  /\ profiler' = [profiler EXCEPT !.timer = FALSE]
  /\ \E c \in Collector : Begin(c, profiler.pid, TRUE)
  /\ UNCHANGED <<stubServer, child, told, answer, samples, appPid>>

(* An inactive profiler collects nothing more; what is under way goes on.  *)
Stopped ==
  /\ Awaited("last sample", "finally")
  /\ profiler' = [profiler EXCEPT !.isActive = FALSE]
  /\ UNCHANGED <<stubServer, child, told, answer, collect, samples, beside, appPid>>

Unmeasured ==
  /\ step = "measure" /\ ~profiler.timer /\ step' = "finally"
  /\ profiler' = [profiler EXCEPT !.isActive = FALSE]
  /\ UNCHANGED <<stubServer, child, told, answer, collect, samples, beside, appPid>>

(* finally: the server, if there is one.  A profiler is no longer active:  *)
(* runTest turns every failure into a result.                              *)
StopStubs ==
  /\ step = "finally" /\ step' = "over"
  /\ stubServer' = IF stubServer = "up" THEN "gone" ELSE stubServer
  /\ UNCHANGED <<child, told, answer, profileVars, appPid>>

TestNext ==
  \/ Preflight \/ StartStubs \/ NoProfiler \/ MeasureLaunch \/ StartProfiler \/ FirstSampled
  \/ Spawn \/ AbortSignal \/ TimeOut \/ ChildReturns \/ Relaunch \/ Timer
  \/ \E c \in Collector : Read(c) \/ Sampled(c) \/ Unread(c) \/ Resolve(c)
  \/ StopProfiler \/ Stopped \/ Unmeasured \/ StopStubs

TestSpec == TestInit /\ [][TestNext]_testVars

-----------------------------------------------------------------------------
(* Properties. *)

(* However a run ends, and whenever it is aborted, it leaves no server on  *)
(* its port, no timer and no subprocess, and passed only if nobody told it *)
(* to end (runTestCore's finally, spawnStream).                            *)
RunReleases ==
  step = "over" =>
    /\ stubServer # "up" /\ child # "up" /\ ~profiler.timer /\ ~profiler.isActive
    /\ answer = "passed" => ~told

(* A sample's CPU share is computed from two readings of one process, over *)
(* any relaunches, as long as no collection outlives the timer's period;   *)
(* of two side by side the later may compare with the other's process.     *)
SamplesAreOfOneProcess ==
  ~beside => \A s \in {samples[k] : k \in DOMAIN samples} : s.since \in {0, s.pid}
=============================================================================
