------------------------- MODULE RunRegistryProofs -------------------------
(***************************************************************************)
(* For every number of requests, phases, gates and restarts: a run that    *)
(* only the default manager knows is executed by one request at a time,    *)
(* behind no open gate but one whose pause a restart kept from being       *)
(* saved, and is never behind its file; a stopped run is idle.  The        *)
(* invariant says what the lock protects: whoever is in the middle of a    *)
(* step holds the lock of its manager, whose run is running.               *)
(***************************************************************************)
EXTENDS RunRegistry, TLAPS

\* The states of a run's context and of its file.
Contexts ==
    [status : {"none", "running", "awaiting_approval", "completed", "escalated", "stopped"},
     done : 0 .. Length, passed : SUBSET Gated, gate : Gated \cup {0},
     profile : {"open", "restricted"}]
Files == [done : 0 .. Length, passed : SUBSET Gated, gate : Gated \cup {0}]
Labels == {"new", "call", "register", "drive", "step", "executing", "check",
           "answered"}
InStep == {"step", "executing", "check"}

Typed ==
    /\ home \in Homes
    /\ registered \in Managers \cup {Nobody}
    /\ built \in Managers
    /\ ctx \in [Managers -> Contexts]
    /\ lock \in [Managers -> Requests \cup {Nobody}]
    /\ disk \in Files
    /\ kind \in [Requests -> Kinds]
    /\ pc \in [Requests -> Labels]
    /\ at \in [Requests -> Managers \cup {Nobody}]
    /\ restarts \in 0 .. MaxRestarts
    /\ cut \subseteq Gated
    /\ \A q \in Requests : pc[q] \notin {"new", "answered"} => at[q] \in Managers

\* A step is taken under the lock of its manager, of a run that is running.
Locked ==
    /\ \A q \in Requests : pc[q] \in InStep =>
           lock[at[q]] = q /\ ctx[at[q]].status = "running"
    /\ \A q \in Requests : pc[q] = "executing" => ctx[at[q]].done < Length
    /\ \A m \in Managers : lock[m] # Nobody => at[lock[m]] = m /\ pc[lock[m]] \in InStep

\* Some request is between the two saves of a step.
Checking == \E q \in Requests : pc[q] = "check"

\* Gates before the last completed phase are passed or were cut off, and so is
\* the one after it, unless the run is paused there or about to be.
FileGated ==
    /\ \A g \in Gated : g < disk.done => g \in disk.passed \cup cut
    /\ disk.done \in Gated /\ disk.done \notin disk.passed =>
           disk.gate = disk.done \/ disk.done \in cut \/ Checking
    /\ disk.gate # 0 /\ disk.gate \notin disk.passed => disk.gate = disk.done

\* The default manager's context, once it is rehydrated, is what is on disk.
Current ==
    ctx[Default].status # "none" =>
        ctx[Default].done = disk.done /\ ctx[Default].passed = disk.passed

\* A run that may be driven has no pause on file, and between two of its
\* phases is not behind a gate.
RunningPassed ==
    ctx[Default].status = "running" =>
        /\ disk.gate # 0 => disk.gate \in disk.passed
        /\ ~Checking => \A g \in Gated : g =< disk.done => g \in disk.passed \cup cut

\* A paused run waits at a gate.
PausedAtGate ==
    \A m \in Managers : ctx[m].status = "awaiting_approval" => ctx[m].gate \in Gated

\* It is the gate after the last completed phase.
PausedThere == ctx[Default].status = "awaiting_approval" => ctx[Default].gate = disk.done

OnlyDefault ==
    /\ registered \in {Default, Nobody}
    /\ \A q \in Requests : at[q] \in {Default, Nobody}

HomeOK ==
    /\ OnlyDefault
    /\ FileGated
    /\ Current
    /\ RunningPassed
    /\ PausedThere

IInv ==
    /\ Typed
    /\ Locked
    /\ PausedAtGate
    /\ home => HomeOK

-----------------------------------------------------------------------------
\* Managers and Nobody are different things.
LEMMA ManagersFacts ==
    /\ Default \in Managers
    /\ 1 \in Managers
    /\ Nobody \notin Managers
    /\ Nobody \notin Requests
    /\ Default # Nobody
  BY RegistryAssumption DEF Managers, Default

\* A run just started: at no gate, executed by nobody.
LEMMA InitIInv == Init => IInv
  <1> SUFFICES ASSUME Init PROVE IInv
    OBVIOUS
  <1> DEFINE started == [NoContext EXCEPT !.status = "running", !.profile = "open"]
  <1>1. First \in Managers
    BY ManagersFacts DEF First
  <1>2. NoContext \in Contexts
    BY RegistryAssumption DEF NoContext, Contexts
  <1>3. started \in Contexts /\ started.status = "running"
        /\ started.done = 0 /\ started.passed = {}
    BY <1>2 DEF NoContext, Contexts
  <1> HIDE DEF started
  <1>4. Typed
    BY <1>1, <1>2, <1>3, ManagersFacts, RegistryAssumption
    DEF Init, Typed, Contexts, Files, Labels, started
  <1>5. Locked
    BY ManagersFacts DEF Init, Locked, InStep
  <1>6. ctx[Default].status # "none" =>
            ctx[Default].status = "running" /\ ctx[Default].done = 0 /\ ctx[Default].passed = {}
    BY <1>3, ManagersFacts DEF Init, NoContext, started
  <1>7. home => HomeOK
    BY <1>6, RegistryAssumption
    DEF Init, HomeOK, OnlyDefault, FileGated, Checking, Current, RunningPassed, PausedThere,
        First
  <1>8. PausedAtGate
    BY <1>3 DEF Init, PausedAtGate, NoContext, started
  <1> QED BY <1>4, <1>5, <1>7, <1>8 DEF IInv

\* Looking a manager up disturbs nothing but where the request goes.
LEMMA LookupIInv == \A q \in Requests : IInv /\ (Lookup(q) \/ LookupOrBuild(q)) => IInv'
  <1> SUFFICES ASSUME NEW q \in Requests, IInv, Lookup(q) \/ LookupOrBuild(q)
               PROVE  IInv'
    OBVIOUS
  <1>1. /\ pc[q] = "new" /\ pc' = [pc EXCEPT ![q] = "call"]
        /\ \E m \in Managers : /\ at' = [at EXCEPT ![q] = m]
                               /\ home => m = Default
        /\ built' \in Managers
        /\ UNCHANGED <<home, registered, ctx, lock, disk, kind, restarts, cut>>
    <2>1. CASE Lookup(q)
      BY <2>1, ManagersFacts DEF Lookup, Goto, IInv, Typed, HomeOK, OnlyDefault
    <2>2. CASE LookupOrBuild(q)
      <3>1. CASE registered = Nobody /\ ~home
        BY <2>2, <3>1, RegistryAssumption DEF LookupOrBuild, Goto, IInv, Typed, Managers
      <3>2. CASE ~(registered = Nobody /\ ~home)
        BY <2>2, <3>2, ManagersFacts
        DEF LookupOrBuild, Goto, IInv, Typed, HomeOK, OnlyDefault
      <3> QED BY <3>1, <3>2
    <2> QED BY <2>1, <2>2
  <1>2. Typed'
    BY <1>1 DEF IInv, Typed, Labels
  <1>3. Locked'
    BY <1>1 DEF IInv, Typed, Locked, InStep
  <1>4. Checking' <=> Checking
    BY <1>1 DEF IInv, Typed, Checking
  <1>5. home' => HomeOK'
    BY <1>1, <1>4
    DEF IInv, Typed, HomeOK, OnlyDefault, FileGated, Current, RunningPassed, PausedThere
  <1> QED BY <1>1, <1>2, <1>3, <1>5 DEF IInv, PausedAtGate

\* Answering 404 changes nothing but the request.
LEMMA UnknownIInv == \A q \in Requests : IInv /\ Unknown(q) => IInv'
  BY ManagersFacts
  DEF Unknown, Goto, IInv, Typed, Locked, PausedAtGate, HomeOK, FileGated, Checking,
      Current, RunningPassed, PausedThere, OnlyDefault, Labels, InStep

\* Registering a manager does not take its lock.
LEMMA RegisterIInv == \A q \in Requests : IInv /\ Register(q) => IInv'
  BY ManagersFacts
  DEF Register, Goto, IInv, Typed, Locked, PausedAtGate, HomeOK, FileGated, Checking,
      Current, RunningPassed, PausedThere, OnlyDefault, Labels, InStep

\* A restart leaves the file alone and every other thing at its start.  The
\* pause that a request was about to save is cut off.
LEMMA RestartIInv == IInv /\ Restart => IInv'
  <1> SUFFICES ASSUME IInv, Restart
               PROVE  IInv'
    OBVIOUS
  <1>1. \A q \in Requests : pc[q] = "check" => at[q] \in Managers /\ ctx[at[q]] \in Contexts
    BY DEF IInv, Typed
  <1>2. cut' \subseteq Gated /\ cut \subseteq cut'
    BY <1>1 DEF Restart, GateOpen, IInv, Typed
  <1>3. Typed'
    BY <1>2, ManagersFacts, RegistryAssumption
    DEF Restart, IInv, Typed, Labels, NoContext, Contexts, Managers
  <1>4. Locked' /\ PausedAtGate' /\ ~Checking'
    BY ManagersFacts
    DEF Restart, IInv, Typed, Locked, PausedAtGate, Checking, InStep, NoContext
  <1>5. ASSUME home
        PROVE  HomeOK'
    <2>1. Checking /\ disk.done \in Gated /\ disk.done \notin disk.passed => disk.done \in cut'
      <3> SUFFICES ASSUME NEW q \in Requests, pc[q] = "check",
                          disk.done \in Gated, disk.done \notin disk.passed
                   PROVE  disk.done \in cut'
        BY DEF Checking
      <3>1. at[q] = Default /\ ctx[Default].status = "running"
        BY <1>1, <1>5, ManagersFacts DEF IInv, Locked, HomeOK, OnlyDefault, InStep
      <3>2. ctx[Default].done = disk.done /\ ctx[Default].passed = disk.passed
        BY <1>5, <3>1 DEF IInv, HomeOK, Current
      <3> QED BY <3>1, <3>2 DEF Restart, GateOpen
    <2>2. FileGated'
      BY <1>2, <1>4, <1>5, <2>1 DEF Restart, IInv, HomeOK, FileGated
    <2> QED BY <1>5, <2>2, ManagersFacts
            DEF Restart, IInv, HomeOK, OnlyDefault, Current, RunningPassed, PausedThere,
                NoContext
  <1> QED BY <1>3, <1>4, <1>5 DEF IInv, Restart

\* A stop takes effect between steps: its manager's lock is free.
LEMMA StopIInv == \A q \in Requests : IInv /\ Stop(q) => IInv'
  <1> SUFFICES ASSUME NEW q \in Requests, IInv, Stop(q)
               PROVE  IInv'
    OBVIOUS
  <1>1. /\ at[q] \in Managers /\ ctx[at[q]] \in Contexts
        /\ lock[at[q]] = Nobody /\ ctx[at[q]].status # "none"
        /\ ctx' = [ctx EXCEPT ![at[q]].status = "stopped"]
        /\ pc' = [pc EXCEPT ![q] = "answered"]
        /\ UNCHANGED <<home, registered, built, lock, disk, kind, at, restarts, cut>>
    BY DEF Stop, Free, Goto, IInv, Typed
  <1>2. Typed'
    BY <1>1 DEF IInv, Typed, Contexts, Labels
  <1>3. \A r \in Requests : pc'[r] \in InStep => pc[r] = pc'[r] /\ at[r] # at[q]
    BY <1>1, ManagersFacts DEF IInv, Typed, Locked, InStep
  <1>4. Locked'
    BY <1>1, <1>3 DEF IInv, Typed, Locked, InStep
  <1>5. PausedAtGate'
    BY <1>1 DEF IInv, Typed, PausedAtGate
  <1>6. /\ ctx'[Default].done = ctx[Default].done
        /\ ctx'[Default].passed = ctx[Default].passed
        /\ ctx'[Default].gate = ctx[Default].gate
        /\ ctx'[Default].status \in {"stopped", ctx[Default].status}
        /\ ctx[Default].status = "none" => ctx'[Default].status = "none"
    BY <1>1, ManagersFacts DEF IInv, Typed, Contexts
  <1>7. Checking' <=> Checking
    BY <1>1 DEF IInv, Typed, Stop, Checking
  <1>8. home' => HomeOK'
    BY <1>1, <1>6, <1>7
    DEF IInv, HomeOK, OnlyDefault, FileGated, Current, RunningPassed, PausedThere
  <1> QED BY <1>2, <1>4, <1>5, <1>8 DEF IInv

\* A step begins with the lock held, and completes a run only when it ends.
LEMMA StepBeginsIInv == \A q \in Requests : IInv /\ StepBegins(q) => IInv'
  <1> SUFFICES ASSUME NEW q \in Requests, IInv, StepBegins(q)
               PROVE  IInv'
    OBVIOUS
  <1>1. at[q] \in Managers /\ lock[at[q]] = q /\ pc[q] = "step"
    BY DEF StepBegins, IInv, Typed, Locked, InStep
  <1>2. ctx[at[q]] \in Contexts
    BY <1>1 DEF IInv, Typed
  <1>3. CASE ctx[at[q]].done = Length
    <2>1. /\ ctx' = [ctx EXCEPT ![at[q]].status = "completed"]
          /\ lock' = [lock EXCEPT ![at[q]] = Nobody]
          /\ pc' = [pc EXCEPT ![q] = "answered"]
          /\ UNCHANGED <<home, registered, built, disk, kind, at, restarts, cut>>
      BY <1>3 DEF StepBegins, Release, Goto
    <2>2. Typed'
      BY <1>1, <1>2, <2>1 DEF IInv, Typed, Contexts, Labels
    <2>3. Locked'
      BY <1>1, <2>1, ManagersFacts DEF IInv, Typed, Locked, InStep
    <2>4. /\ ctx'[Default].done = ctx[Default].done
          /\ ctx'[Default].passed = ctx[Default].passed
          /\ ctx'[Default].status \in {"completed", ctx[Default].status}
          /\ ctx[Default].status = "none" => ctx'[Default].status = "none"
      BY <1>1, <1>2, <2>1, ManagersFacts DEF IInv, Typed, Locked, InStep, Contexts
    <2>5. Checking' <=> Checking
      BY <1>1, <2>1 DEF IInv, Typed, Checking
    <2>6. home' => HomeOK'
      BY <2>1, <2>4, <2>5
      DEF IInv, HomeOK, OnlyDefault, FileGated, Current, RunningPassed, PausedThere
    <2>7. PausedAtGate'
      BY <1>1, <1>2, <2>1 DEF IInv, Typed, PausedAtGate, Contexts
    <2> QED BY <2>2, <2>3, <2>6, <2>7 DEF IInv
  <1>4. CASE ctx[at[q]].done # Length
    <2>1. /\ pc' = [pc EXCEPT ![q] = "executing"]
          /\ UNCHANGED <<home, registered, built, ctx, lock, disk, kind, at, restarts, cut>>
      BY <1>4 DEF StepBegins, Goto
    <2>2. ctx[at[q]].done < Length
      BY <1>2, <1>4, RegistryAssumption DEF Contexts
    <2>3. Typed'
      BY <1>1, <2>1 DEF IInv, Typed, Labels
    <2>4. Locked'
      BY <1>1, <2>1, <2>2 DEF IInv, Typed, Locked, InStep
    <2>5. Checking' <=> Checking
      BY <1>1, <2>1 DEF IInv, Typed, Checking
    <2>6. home' => HomeOK'
      BY <2>1, <2>5 DEF IInv, HomeOK, OnlyDefault, FileGated, Current, RunningPassed, PausedThere
    <2> QED BY <2>1, <2>3, <2>4, <2>6 DEF IInv, PausedAtGate
  <1> QED BY <1>3, <1>4

\* An escalated run is no longer running, and its lock is released.
LEMMA PhaseEscalatesIInv == \A q \in Requests : IInv /\ PhaseEscalates(q) => IInv'
  <1> SUFFICES ASSUME NEW q \in Requests, IInv, PhaseEscalates(q)
               PROVE  IInv'
    OBVIOUS
  <1>1. /\ pc[q] = "executing" /\ at[q] \in Managers /\ lock[at[q]] = q
        /\ UNCHANGED <<home, registered, built, disk, kind, at, restarts, cut>>
    BY DEF PhaseEscalates, IInv, Typed, Locked, InStep
  <1>2. /\ ctx' = [ctx EXCEPT ![at[q]].status = "escalated"]
        /\ lock' = [lock EXCEPT ![at[q]] = Nobody]
        /\ pc' = [pc EXCEPT ![q] = "answered"]
    BY DEF PhaseEscalates, Release, Goto
  <1> DEFINE c == ctx[at[q]]
             after == [c EXCEPT !.status = "escalated"]
  <1>3. /\ \A m \in Managers \ {at[q]} : ctx'[m] = ctx[m]
        /\ ctx'[at[q]] \in Contexts /\ ctx'[at[q]].status = "escalated"
        /\ ctx'[at[q]].done = ctx[at[q]].done /\ ctx'[at[q]].passed = ctx[at[q]].passed
    <2>1. c \in Contexts /\ ctx \in [Managers -> Contexts]
      BY <1>1 DEF IInv, Typed
    <2>2. /\ after \in Contexts /\ after.status = "escalated"
          /\ after.done = c.done /\ after.passed = c.passed
      BY <2>1 DEF Contexts
    <2>3. ctx' = [ctx EXCEPT ![at[q]] = after]
      BY <1>2
    <2> HIDE DEF after
    <2> QED BY <1>1, <2>1, <2>2, <2>3
  <1>4. Typed'
    BY <1>1, <1>2, <1>3 DEF IInv, Typed, Labels
  <1>5. \A r \in Requests : pc'[r] \in InStep => pc[r] = pc'[r] /\ at[r] # at[q]
    BY <1>1, <1>2 DEF IInv, Typed, Locked, InStep
  <1>6. Locked'
    BY <1>1, <1>2, <1>3, <1>5, ManagersFacts DEF IInv, Typed, Locked, InStep
  <1>7. PausedAtGate'
    BY <1>1, <1>3 DEF IInv, PausedAtGate
  <1>8. ASSUME home
        PROVE  HomeOK'
    <2>1. at[q] = Default
      BY <1>1, <1>8, ManagersFacts DEF IInv, HomeOK, OnlyDefault
    <2>2. ctx[Default].status = "running"
      BY <1>1, <2>1 DEF IInv, Locked, InStep
    <2>3. Checking' <=> Checking
      BY <1>1, <1>2 DEF IInv, Typed, Checking
    <2> QED BY <1>1, <1>3, <1>8, <2>1, <2>2, <2>3
            DEF IInv, HomeOK, OnlyDefault, FileGated, Current, RunningPassed, PausedThere
  <1> QED BY <1>1, <1>4, <1>6, <1>7, <1>8 DEF IInv

\* The lock is taken when it is free and the run is running.
LEMMA EnterIInv == \A q \in Requests : IInv /\ Enter(q) => IInv'
  <1> SUFFICES ASSUME NEW q \in Requests, IInv, Enter(q)
               PROVE  IInv'
    OBVIOUS
  <1>1. /\ at[q] \in Managers /\ lock[at[q]] = Nobody /\ pc[q] \notin InStep
        /\ UNCHANGED <<home, registered, built, ctx, disk, kind, at, restarts, cut>>
    BY DEF Enter, Free, IInv, Typed, InStep
  <1>2. CASE ctx[at[q]].status = "running"
    <2>1. /\ lock' = [lock EXCEPT ![at[q]] = q]
          /\ pc' = [pc EXCEPT ![q] = "step"]
      BY <1>2 DEF Enter, Acquire, Goto
    <2>2. Typed'
      BY <1>1, <2>1 DEF IInv, Typed, Labels
    <2>3. Locked'
      BY <1>1, <1>2, <2>1, ManagersFacts DEF IInv, Typed, Locked, InStep
    <2>4. Checking' <=> Checking
      BY <1>1, <2>1 DEF IInv, Typed, InStep, Checking
    <2> QED BY <1>1, <2>2, <2>3, <2>4
            DEF IInv, PausedAtGate, HomeOK, OnlyDefault, FileGated, Current, RunningPassed,
                PausedThere
  <1>3. CASE ctx[at[q]].status # "running"
    <2>1. lock' = lock /\ pc' = [pc EXCEPT ![q] = "answered"]
      BY <1>3 DEF Enter, Goto
    <2>2. Typed'
      BY <1>1, <2>1 DEF IInv, Typed, Labels
    <2>3. Locked'
      BY <1>1, <2>1 DEF IInv, Typed, Locked, InStep
    <2>4. Checking' <=> Checking
      BY <1>1, <2>1 DEF IInv, Typed, InStep, Checking
    <2> QED BY <1>1, <2>2, <2>3, <2>4
            DEF IInv, PausedAtGate, HomeOK, OnlyDefault, FileGated, Current, RunningPassed,
                PausedThere
  <1> QED BY <1>2, <1>3

\* An approval passes the gate the run waits at, in memory and in the file.
LEMMA ApproveIInv == \A q \in Requests : IInv /\ Approve(q) => IInv'
  <1> SUFFICES ASSUME NEW q \in Requests, IInv, Approve(q)
               PROVE  IInv'
    OBVIOUS
  <1> DEFINE m == at[q]
             c == ctx[m]
             passed == c.passed \cup {c.gate}
  <1>1. /\ m \in Managers /\ c \in Contexts
        /\ lock[m] = Nobody /\ pc[q] = "call"
        /\ UNCHANGED <<home, registered, built, lock, kind, at, restarts, cut>>
    BY DEF Approve, Free, IInv, Typed
  <1>2. CASE c.status = "awaiting_approval"
    <2>1. /\ ctx' = [ctx EXCEPT
                     ![m] = [c EXCEPT !.passed = passed, !.gate = 0, !.status = "running"]]
          /\ disk' = [disk EXCEPT !.passed = passed, !.gate = 0]
          /\ pc' = [pc EXCEPT ![q] = "drive"]
      BY <1>2 DEF Approve, Goto
    <2>2. c.gate \in Gated
      BY <1>1, <1>2 DEF IInv, PausedAtGate
    <2> HIDE DEF passed
    <2>3. passed \in SUBSET Gated
      BY <1>1, <2>2 DEF passed, Contexts
    <2>4. [c EXCEPT !.passed = passed, !.gate = 0, !.status = "running"] \in Contexts
      BY <1>1, <2>3 DEF Contexts
    <2>5. disk' \in Files
      BY <2>1, <2>3 DEF IInv, Typed, Files
    <2>6. Typed'
      BY <1>1, <2>1, <2>4, <2>5 DEF IInv, Typed, Labels
    <2>7. \A r \in Requests : pc'[r] \in InStep => pc[r] = pc'[r] /\ at[r] # m
      BY <1>1, <2>1, ManagersFacts DEF IInv, Typed, Locked, InStep
    <2>8. Locked'
      BY <1>1, <2>1, <2>7 DEF IInv, Typed, Locked, InStep
    <2>9. PausedAtGate'
      BY <1>1, <2>1, <2>4 DEF IInv, Typed, PausedAtGate
    <2>10. ASSUME home
           PROVE  HomeOK'
      <3>1. m = Default
        BY <1>1, <2>10, ManagersFacts DEF IInv, HomeOK, OnlyDefault
      <3>2. c.done = disk.done /\ c.passed = disk.passed /\ c.gate = disk.done
        BY <1>2, <2>10, <3>1 DEF IInv, HomeOK, Current, PausedThere
      <3>3. /\ ctx'[Default].done = disk.done /\ ctx'[Default].passed = passed
            /\ ctx'[Default].status = "running"
        BY <1>1, <2>1, <3>1, <3>2, ManagersFacts DEF IInv, Typed, Contexts
      <3>4. disk'.done = disk.done /\ disk'.passed = passed /\ disk'.gate = 0
        BY <2>1 DEF IInv, Typed, Files
      <3>5. \A g \in Gated : g =< disk.done => g \in passed \cup cut
        <4> SUFFICES ASSUME NEW g \in Gated, g =< disk.done, g # disk.done
                     PROVE  g \in passed \cup cut
          BY <3>2 DEF passed
        <4>1. g < disk.done
          BY RegistryAssumption DEF IInv, Typed, Files
        <4> QED BY <2>10, <3>2, <4>1 DEF IInv, HomeOK, FileGated, passed
      <3>6. \A g \in Gated : g < disk.done => g =< disk.done
        BY RegistryAssumption DEF IInv, Typed, Files
      <3>7. disk.done =< disk.done
        BY RegistryAssumption DEF IInv, Typed, Files
      <3> QED BY <1>1, <2>10, <3>3, <3>4, <3>5, <3>6, <3>7
              DEF IInv, HomeOK, OnlyDefault, FileGated, Current, RunningPassed, PausedThere
    <2> QED BY <1>1, <2>6, <2>8, <2>9, <2>10 DEF IInv
  <1>3. CASE c.status # "awaiting_approval"
    <2>1. ctx' = ctx /\ disk' = disk /\ pc' = [pc EXCEPT ![q] = "answered"]
      BY <1>3 DEF Approve, Goto
    <2>2. Typed'
      BY <1>1, <2>1 DEF IInv, Typed, Labels
    <2>3. Locked'
      BY <1>1, <2>1 DEF IInv, Typed, Locked, InStep
    <2>4. Checking' <=> Checking
      BY <1>1, <2>1 DEF IInv, Typed, Checking
    <2> QED BY <1>1, <2>1, <2>2, <2>3, <2>4
            DEF IInv, PausedAtGate, HomeOK, OnlyDefault, FileGated, Current, RunningPassed,
                PausedThere
  <1> QED BY <1>2, <1>3

\* A resumed run waits at the gate it was paused at, or has passed its gates.
LEMMA ResumeRunIInv == \A q \in Requests : IInv /\ ResumeRun(q) => IInv'
  <1> SUFFICES ASSUME NEW q \in Requests, IInv, ResumeRun(q)
               PROVE  IInv'
    OBVIOUS
  <1> DEFINE m == at[q]
             c == ctx[m]
             pausedAt == disk.gate # 0 /\ disk.gate \notin disk.passed
             status == CASE pausedAt -> "awaiting_approval"
                         [] ~pausedAt /\ c.status = "none" -> "running"
                         [] OTHER -> c.status
             d == [Rehydrated(c) EXCEPT !.status = status,
                                        !.gate = IF pausedAt THEN disk.gate ELSE c.gate]
  <1>1. /\ m \in Managers /\ c \in Contexts /\ disk \in Files
        /\ lock[m] = Nobody /\ pc[q] = "call"
    BY DEF ResumeRun, Free, IInv, Typed
  <1>2. /\ ctx' = [ctx EXCEPT ![m] = d]
        /\ pc' = [pc EXCEPT ![q] = "register"]
        /\ UNCHANGED <<home, registered, built, lock, disk, kind, at, restarts, cut>>
    BY DEF ResumeRun, Goto
  <1>3. status \in {"none", "running", "awaiting_approval", "completed", "escalated", "stopped"}
    BY <1>1 DEF Contexts
  <1>4. /\ pausedAt => status = "awaiting_approval"
        /\ ~pausedAt /\ c.status = "none" => status = "running"
        /\ ~pausedAt /\ c.status # "none" => status = c.status
    OBVIOUS
  <1> HIDE DEF status
  <1>5. /\ d \in Contexts
        /\ d.done = disk.done /\ d.passed = disk.passed /\ d.status = status
        /\ d.gate = IF pausedAt THEN disk.gate ELSE c.gate
    BY <1>1, <1>3 DEF Contexts, Files, Rehydrated
  <1> HIDE DEF d
  <1>6. Typed'
    BY <1>1, <1>2, <1>5 DEF IInv, Typed, Labels
  <1>7. \A r \in Requests : pc'[r] \in InStep => pc[r] = pc'[r] /\ at[r] # m
    BY <1>1, <1>2, ManagersFacts DEF IInv, Typed, Locked, InStep
  <1>8. Locked'
    BY <1>1, <1>2, <1>7 DEF IInv, Typed, Locked, InStep
  <1>9. ASSUME home
        PROVE  HomeOK'
    <2>1. m = Default /\ ctx'[Default] = d
      BY <1>1, <1>2, <1>9, ManagersFacts DEF IInv, HomeOK, Typed, OnlyDefault
    <2>2. /\ \A g \in Gated : g < disk.done => g \in disk.passed \cup cut
          /\ disk.done \in Gated /\ disk.done \notin disk.passed =>
                 disk.gate = disk.done \/ disk.done \in cut \/ Checking
          /\ pausedAt => disk.gate = disk.done
      BY <1>9 DEF IInv, HomeOK, FileGated
    <2>3. status = "running" =>
            /\ ~pausedAt
            /\ ~Checking => \A g \in Gated : g =< disk.done => g \in disk.passed \cup cut
      <3>1. CASE c.status = "running"
        BY <1>4, <1>9, <2>1, <3>1 DEF IInv, HomeOK, RunningPassed
      <3>2. CASE c.status # "running"
        <4> SUFFICES ASSUME status = "running", ~pausedAt, ~Checking,
                            NEW g \in Gated, g =< disk.done, g \notin disk.passed \cup cut
                     PROVE  FALSE
          BY <1>4
        <4>1. g = disk.done
          BY <1>1, <2>2, RegistryAssumption DEF Files
        <4> QED BY <2>2, <4>1, RegistryAssumption
      <3> QED BY <3>1, <3>2
    <2>5. Checking' <=> Checking
      BY <1>1, <1>2 DEF IInv, Typed, Checking
    <2>4. status = "awaiting_approval" => d.gate = disk.done
      <3>1. CASE pausedAt
        BY <1>5, <2>2, <3>1
      <3>2. CASE ~pausedAt
        BY <1>4, <1>5, <1>9, <2>1, <3>2 DEF IInv, HomeOK, PausedThere
      <3> QED BY <3>1, <3>2
    <2> QED BY <1>2, <1>5, <1>9, <2>1, <2>3, <2>4, <2>5
            DEF IInv, HomeOK, OnlyDefault, FileGated, Current, RunningPassed, PausedThere
  <1>10. PausedAtGate'
    <2>1. status = "awaiting_approval" => d.gate \in Gated
      BY <1>1, <1>4, <1>5 DEF IInv, PausedAtGate, Files
    <2> QED BY <1>1, <1>2, <1>5, <2>1 DEF IInv, Typed, PausedAtGate
  <1> QED BY <1>2, <1>6, <1>8, <1>9, <1>10 DEF IInv

\* A completed phase is in the file; its gate is still to be checked.
LEMMA PhaseCompletesIInv == \A q \in Requests : IInv /\ PhaseCompletes(q) => IInv'
  <1> SUFFICES ASSUME NEW q \in Requests, IInv, PhaseCompletes(q)
               PROVE  IInv'
    OBVIOUS
  <1> DEFINE m == at[q]
             c == ctx[m]
             done == c.done + 1
  <1>1. m \in Managers /\ lock[m] = q /\ c.status = "running" /\ pc[q] = "executing"
    BY DEF PhaseCompletes, IInv, Typed, Locked, InStep
  <1>2. c \in Contexts /\ done \in 1 .. Length
    BY <1>1, RegistryAssumption DEF IInv, Typed, Locked, Contexts
  <1>3. /\ ctx' = [ctx EXCEPT ![m].done = done]
        /\ disk' = [disk EXCEPT !.done = IF done > disk.done THEN done ELSE disk.done]
        /\ pc' = [pc EXCEPT ![q] = "check"]
        /\ UNCHANGED <<home, registered, built, lock, kind, at, restarts, cut>>
    BY <1>1 DEF PhaseCompletes, Goto
  <1> HIDE DEF done
  <1>4. /\ ctx'[m] \in Contexts /\ ctx'[m].done = done
        /\ ctx'[m].status = "running" /\ ctx'[m].passed = c.passed
        /\ \A n \in Managers : n # m => ctx'[n] = ctx[n]
    <2>1. done \in 0 .. Length
      BY <1>2, RegistryAssumption
    <2> QED BY <1>1, <1>2, <1>3, <2>1 DEF IInv, Typed, Contexts
  <1>5. disk' \in Files
    <2>1. disk \in Files /\ done \in 0 .. Length
      BY <1>2, RegistryAssumption DEF IInv, Typed
    <2> QED BY <1>3, <2>1 DEF Files
  <1>6. Typed'
    BY <1>1, <1>3, <1>4, <1>5 DEF IInv, Typed, Labels
  <1>7. Locked'
    BY <1>1, <1>3, <1>4 DEF IInv, Typed, Locked, InStep
  <1>8. ASSUME home
        PROVE  HomeOK'
    <2>1. m = Default
      BY <1>1, <1>8, ManagersFacts DEF IInv, HomeOK, OnlyDefault
    <2>2. c.done = disk.done /\ c.passed = disk.passed
      BY <1>1, <1>8, <2>1 DEF IInv, HomeOK, Current
    <2>3. ~Checking
      BY <1>1, <1>8, <2>1, ManagersFacts
      DEF IInv, Typed, Locked, HomeOK, OnlyDefault, InStep, Checking
    <2>4. /\ \A g \in Gated : g =< disk.done => g \in disk.passed \cup cut
          /\ disk.gate # 0 => disk.gate \in disk.passed
      BY <1>1, <1>8, <2>1, <2>3 DEF IInv, HomeOK, RunningPassed
    <2>5. disk.done \in Nat /\ Gated \subseteq Nat /\ done = disk.done + 1
      BY <1>2, <2>2, RegistryAssumption DEF IInv, Typed, Files, done
    <2>6. disk'.done = done /\ disk'.passed = disk.passed /\ disk'.gate = disk.gate
      BY <1>3, <2>5 DEF IInv, Typed, Files
    <2>7. Checking'
      BY <1>1, <1>3 DEF IInv, Typed, Checking
    <2>8. FileGated'
      BY <1>3, <2>4, <2>5, <2>6, <2>7 DEF FileGated
    <2>9. RunningPassed' /\ PausedThere' /\ Current'
      BY <1>1, <1>4, <2>1, <2>2, <2>4, <2>6, <2>7 DEF RunningPassed, PausedThere, Current
    <2> QED BY <1>3, <1>8, <2>8, <2>9 DEF IInv, HomeOK, OnlyDefault
  <1>9. PausedAtGate'
    BY <1>1, <1>4 DEF IInv, PausedAtGate
  <1> QED BY <1>3, <1>6, <1>7, <1>8, <1>9 DEF IInv

\* An open gate after the completed phase pauses the run.
LEMMA GateCheckedIInv == \A q \in Requests : IInv /\ GateChecked(q) => IInv'
  <1> SUFFICES ASSUME NEW q \in Requests, IInv, GateChecked(q)
               PROVE  IInv'
    OBVIOUS
  <1> DEFINE m == at[q]
             c == ctx[m]
             ends == GateOpen(q) \/ kind[q] = "advance"
  <1>1. /\ m \in Managers /\ lock[m] = q /\ pc[q] = "check"
        /\ c \in Contexts /\ c.status = "running"
    BY DEF GateChecked, IInv, Typed, Locked, InStep
  <1>2. /\ lock' = IF ends THEN [lock EXCEPT ![m] = Nobody] ELSE lock
        /\ pc' = [pc EXCEPT ![q] = IF ends THEN "answered" ELSE "step"]
        /\ UNCHANGED <<home, registered, built, kind, at, restarts, cut>>
    BY DEF GateChecked, Release, Goto
  <1>3. GateOpen(q) <=> c.done \in Gated /\ c.done \notin c.passed
    BY DEF GateOpen
  <1>4. GateOpen(q) => ends
    OBVIOUS
  <1> HIDE DEF ends
  <1>5. ASSUME home
        PROVE  /\ m = Default /\ c.done = disk.done /\ c.passed = disk.passed
               /\ ~Checking'
    <2>1. m = Default
      BY <1>1, <1>5, ManagersFacts DEF IInv, HomeOK, OnlyDefault
    <2>2. c.done = disk.done /\ c.passed = disk.passed
      BY <1>1, <1>5, <2>1 DEF IInv, HomeOK, Current
    <2>3. \A r \in Requests : pc[r] = "check" => r = q
      BY <1>1, <1>5, <2>1, ManagersFacts
      DEF IInv, Typed, Locked, HomeOK, OnlyDefault, InStep
    <2> QED BY <1>2, <2>1, <2>2, <2>3 DEF IInv, Typed, Checking
  <1>6. CASE GateOpen(q)
    <2>1. /\ ctx' = [ctx EXCEPT ![m] = [c EXCEPT !.status = "awaiting_approval",
                                                 !.gate = c.done]]
          /\ disk' = [disk EXCEPT !.gate = c.done]
      BY <1>1, <1>6 DEF GateChecked, IInv, Typed
    <2>2. /\ ctx'[m] \in Contexts /\ ctx'[m].status = "awaiting_approval"
          /\ ctx'[m].gate = c.done /\ ctx'[m].done = c.done /\ ctx'[m].passed = c.passed
          /\ \A n \in Managers : n # m => ctx'[n] = ctx[n]
      BY <1>1, <1>3, <1>6, <2>1 DEF IInv, Typed, Contexts
    <2>3. /\ disk' \in Files /\ disk'.gate = c.done
          /\ disk'.done = disk.done /\ disk'.passed = disk.passed
      BY <1>3, <1>6, <2>1 DEF IInv, Typed, Files
    <2>4. Typed'
      BY <1>1, <1>2, <2>1, <2>2, <2>3, ManagersFacts DEF IInv, Typed, Labels
    <2>5. Locked'
      BY <1>1, <1>2, <1>4, <1>6, <2>2, ManagersFacts DEF IInv, Typed, Locked, InStep
    <2>6. PausedAtGate'
      BY <1>3, <1>6, <2>2 DEF IInv, PausedAtGate
    <2>7. ASSUME home
          PROVE  HomeOK'
      <3>1. FileGated'
        BY <1>2, <1>5, <2>3, <2>7 DEF IInv, HomeOK, FileGated
      <3>2. RunningPassed' /\ PausedThere' /\ Current'
        BY <1>5, <2>2, <2>3, <2>7 DEF RunningPassed, PausedThere, Current
      <3> QED BY <1>2, <2>7, <3>1, <3>2 DEF IInv, HomeOK, OnlyDefault
    <2> QED BY <1>2, <2>4, <2>5, <2>6, <2>7 DEF IInv
  <1>7. CASE ~GateOpen(q)
    <2>1. ctx' = ctx /\ disk' = disk
      BY <1>7 DEF GateChecked
    <2>2. Typed'
      BY <1>1, <1>2, <2>1, ManagersFacts DEF IInv, Typed, Labels
    <2>3. Locked'
      BY <1>1, <1>2, <2>1, ManagersFacts DEF IInv, Typed, Locked, InStep
    <2>4. ASSUME home
          PROVE  HomeOK'
      <3>1. disk.done \in Gated => disk.done \in disk.passed
        BY <1>3, <1>5, <1>7, <2>4
      <3>2. FileGated'
        BY <1>2, <2>1, <2>4, <3>1 DEF IInv, HomeOK, FileGated
      <3>3. RunningPassed'
        <4> SUFFICES ASSUME NEW g \in Gated, g =< disk.done
                     PROVE  g \in disk.passed \cup cut
          BY <1>2, <2>1, <2>4 DEF IInv, HomeOK, RunningPassed
        <4>1. g < disk.done \/ g = disk.done
          BY RegistryAssumption DEF IInv, Typed, Files
        <4> QED BY <2>4, <3>1, <4>1 DEF IInv, HomeOK, FileGated
      <3> QED BY <1>2, <2>1, <2>4, <3>2, <3>3
              DEF IInv, HomeOK, OnlyDefault, PausedThere, Current
    <2> QED BY <1>2, <2>1, <2>2, <2>3, <2>4 DEF IInv, PausedAtGate
  <1> QED BY <1>6, <1>7

\* Every step preserves the invariant.
LEMMA NextIInv == IInv /\ [Next]_vars => IInv'
  <1>1. IInv /\ UNCHANGED vars => IInv'
    BY DEF vars, IInv, Typed, Locked, PausedAtGate, HomeOK, FileGated, Checking, Current,
           RunningPassed, PausedThere, OnlyDefault
  <1> QED
    BY <1>1, LookupIInv, UnknownIInv, RegisterIInv, RestartIInv, StopIInv, StepBeginsIInv,
       PhaseEscalatesIInv, EnterIInv, ApproveIInv, ResumeRunIInv, PhaseCompletesIInv,
       GateCheckedIInv
    DEF Next, Handle

\* The invariant holds of every reachable state.
THEOREM Invariance == Spec => []IInv
  <1> QED BY InitIInv, NextIInv, PTL DEF Spec

-----------------------------------------------------------------------------
\* Every variable keeps its type, and only a request in the middle of a step
\* holds a lock.
THEOREM RegistryTyped == Spec => []TypeOK
  <1>1. IInv => TypeOK
    BY DEF IInv, Typed, Locked, TypeOK, Contexts, Files, Labels, InStep
  <1> QED BY <1>1, Invariance, PTL

\* However many requests drive a run at home, they take turns.
THEOREM TakeTurns == Spec => []HomeSingleExecutor
  <1>1. IInv => HomeSingleExecutor
    BY ManagersFacts
    DEF IInv, Typed, Locked, HomeOK, OnlyDefault, InStep, HomeSingleExecutor, SingleExecutor
  <1> QED BY <1>1, Invariance, PTL

\* The context of a run at home is never behind its file.
THEOREM NeverBehind == Spec => []HomeIsCurrent
  <1>1. IInv => HomeIsCurrent
    BY ManagersFacts DEF IInv, HomeOK, OnlyDefault, Current, HomeIsCurrent
  <1> QED BY <1>1, Invariance, PTL

\* No interleaving of requests and restarts takes a run at home past a gate,
\* but for a restart between the completion's save and the pause's.
THEOREM NobodyPasses == Spec => []HomeGatesHold
  <1>1. ASSUME IInv, home, NEW q \in Requests, pc[q] = "executing"
        PROVE  \A g \in Gated : g =< ctx[at[q]].done => g \in ctx[at[q]].passed \cup cut
    <2>1. at[q] = Default /\ lock[Default] = q /\ ctx[Default].status = "running"
      BY <1>1, ManagersFacts DEF IInv, Typed, Locked, HomeOK, OnlyDefault, InStep
    <2>2. ~Checking
      BY <1>1, <2>1, ManagersFacts
      DEF IInv, Typed, Locked, HomeOK, OnlyDefault, InStep, Checking
    <2> QED BY <1>1, <2>1, <2>2 DEF IInv, HomeOK, Current, RunningPassed
  <1>2. IInv => HomeGatesHold
    BY <1>1 DEF HomeGatesHold, GatesHold
  <1> QED BY <1>2, Invariance, PTL

\* In no manager is a phase executed of a run that is not running.
THEOREM StopStops == Spec => []StoppedIsIdle
  <1>1. IInv => StoppedIsIdle
    BY DEF IInv, Locked, InStep, StoppedIsIdle
  <1> QED BY <1>1, Invariance, PTL

=============================================================================
