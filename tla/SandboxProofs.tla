---------------------------- MODULE SandboxProofs ----------------------------
(***************************************************************************)
(* Theorems about Sandbox, for any number of sandboxes and requests, any   *)
(* test and any time to live of the proxy's entries.                       *)
(***************************************************************************)
EXTENDS Sandbox, TLAPS

Step == [keyword : Keyword, url : Urls \cup {NoUrl}]

Entry == [allow : SUBSET Patterns, age : 0 .. Ttl]

-----------------------------------------------------------------------------
(* The parts of the type invariant, by who writes them.  A goto is put before *)
(* the test only if there is a target to go to.                              *)

CallOK ==
    /\ call \in [Sandboxes -> {"idle", "podman", "kill", "remove", "read", "upload",
                               "clean", "returned", "raised"}]
    /\ file \in [Sandboxes -> BOOLEAN]
    /\ gone \in [Sandboxes -> 0 .. Ttl]
    /\ verdict \in [Sandboxes -> Status \cup {"none"}]

PodOK ==
    /\ request \in [Sandboxes -> Requests]
    /\ pod \in [Sandboxes -> {"none", "pending", "up", "gone"}]

ScriptOK ==
    /\ script \in [Sandboxes -> {"start", "target", "steps", "write", "writing", "exit"}]
    /\ at \in [Sandboxes -> Nat]
    /\ outcome \in [Sandboxes -> Status]
    /\ result \in [Sandboxes -> Status \cup {"none", "torn"}]
    /\ \A s \in Sandboxes : at[s] <= Len(Steps(s)) + 1
    /\ \A s \in Sandboxes : script[s] = "target" => request[s].target # NoUrl

ProxyOK ==
    /\ cache \in [Sandboxes -> Entry]
    /\ reached \in [Sandboxes -> SUBSET Urls]
    /\ refused \in [Sandboxes -> SUBSET Urls]

LEMMA TypeParts == CallOK /\ PodOK /\ ScriptOK /\ ProxyOK => SandboxTypeOK
  BY DEF SandboxTypeOK, CallOK, PodOK, ScriptOK, ProxyOK, Entry

-----------------------------------------------------------------------------
(* Requests                                                                  *)

LEMMA StepsTyped ==
    ASSUME PodOK, NEW s \in Sandboxes
    PROVE  /\ Steps(s) \in Seq(Step)
           /\ Len(Steps(s)) \in Nat
           /\ DOMAIN Steps(s) = 1 .. Len(Steps(s))
  <1>1. request[s] \in [steps : Seq(Step), target : Urls \cup {NoUrl},
                        allowed : SUBSET Patterns]
    BY SandboxAssumption DEF PodOK, Step
  <1>2. Steps(s) \in Seq(Step)
    BY <1>1 DEF Steps
  <1> QED
    BY <1>2

LEMMA AllowedTyped ==
    ASSUME PodOK, NEW s \in Sandboxes
    PROVE  request[s].allowed \in SUBSET Patterns
  BY SandboxAssumption DEF PodOK

LEMMA TargetTyped ==
    ASSUME PodOK, NEW s \in Sandboxes
    PROVE  request[s].target \in Urls \cup {NoUrl}
  BY SandboxAssumption DEF PodOK

LEMMA GotoTyped ==
    ASSUME PodOK, NEW s \in Sandboxes, NEW i \in DOMAIN Steps(s),
           Steps(s)[i].keyword = "goto"
    PROVE  Steps(s)[i].url \in Urls
  <1>1. i \in 1 .. Len(Steps(s)) /\ Steps(s) \in Seq(Step)
    BY StepsTyped
  <1>2. Steps(s)[i] \in Step
    BY <1>1
  <1>3. Steps(s)[i].url # NoUrl
    BY SandboxAssumption DEF PodOK, Steps
  <1> QED
    BY <1>2, <1>3 DEF Step

-----------------------------------------------------------------------------
(* The type invariant is inductive                                           *)

LEMMA InitTyped == Init => CallOK /\ PodOK /\ ScriptOK /\ ProxyOK
  <1> SUFFICES ASSUME Init PROVE CallOK /\ PodOK /\ ScriptOK /\ ProxyOK
    OBVIOUS
  <1>1. CallOK
    BY SandboxAssumption DEF Init, CallOK
  <1>2. PodOK
    BY DEF Init, PodOK
  <1>3. ASSUME NEW s \in Sandboxes PROVE at[s] <= Len(Steps(s)) + 1
    BY <1>2, StepsTyped DEF Init
  <1>4. ScriptOK
    BY <1>3 DEF Init, ScriptOK, Status
  <1>5. ProxyOK
    BY SandboxAssumption DEF Init, ProxyOK, Entry
  <1> QED
    BY <1>1, <1>2, <1>4, <1>5

\* What a step of run_sandbox leaves alone.
LEMMA RunSandboxFrame ==
    ASSUME NEW s \in Sandboxes, RunSandbox(s)
    PROVE  UNCHANGED <<request, scriptVars, proxyVars>>
  BY DEF RunSandbox, Prepare, Return, ClientTimeout, ForceKill, ReadResult, Upload, Clean,
         Raise

LEMMA RunSandboxTyped ==
    ASSUME CallOK, PodOK, ScriptOK, NEW s \in Sandboxes, RunSandbox(s)
    PROVE  CallOK' /\ PodOK'
  <1>1. CASE Prepare(s)
    BY <1>1 DEF Prepare, CallGoes, CallOK, PodOK
  <1>2. CASE Return(s)
    BY <1>2 DEF Return, CallGoes, CallOK, PodOK
  <1>3. CASE ClientTimeout(s)
    BY <1>3 DEF ClientTimeout, CallGoes, CallOK, PodOK
  <1>4. CASE ForceKill(s)
    BY <1>4 DEF ForceKill, CallGoes, CallOK, PodOK
  <1>5. CASE ReadResult(s)
    <2>1. Verdict(s) \subseteq Status
      BY DEF Verdict, ScriptOK, Status
    <2> QED
      BY <1>5, <2>1 DEF ReadResult, CallGoes, CallOK, PodOK
  <1>6. CASE Upload(s)
    BY <1>6 DEF Upload, CallGoes, CallOK, PodOK
  <1>7. CASE Clean(s)
    <2>1. 0 \in 0 .. Ttl
      BY SandboxAssumption
    <2>2. call' \in [Sandboxes -> {"idle", "podman", "kill", "remove", "read", "upload",
                                    "clean", "returned", "raised"}]
      BY <1>7 DEF Clean, CallGoes, CallOK
    <2>3. file' \in [Sandboxes -> BOOLEAN] /\ gone' \in [Sandboxes -> 0 .. Ttl]
      BY <1>7, <2>1 DEF Clean, CallOK
    <2> QED
      BY <1>7, <2>2, <2>3 DEF Clean, CallOK, PodOK
  <1>8. CASE Raise(s)
    BY <1>8 DEF Raise, CallOK, PodOK
  <1> QED
    BY <1>1, <1>2, <1>3, <1>4, <1>5, <1>6, <1>7, <1>8 DEF RunSandbox

LEMMA LoadTyped ==
    ASSUME PodOK, ProxyOK, NEW s \in Sandboxes
    PROVE  Load(s) \in Entry
  <1>1. request[s].allowed \in SUBSET Patterns /\ cache[s] \in Entry
    BY AllowedTyped DEF ProxyOK
  <1> QED
    BY <1>1, SandboxAssumption DEF Load, Entry

LEMMA RequestTyped ==
    ASSUME PodOK, ProxyOK, NEW s \in Sandboxes, NEW u \in Urls, Request(s, u)
    PROVE  ProxyOK'
  <1>1. cache' \in [Sandboxes -> Entry]
    BY LoadTyped DEF Request, ProxyOK
  <1>2. reached' \in [Sandboxes -> SUBSET Urls] /\ refused' \in [Sandboxes -> SUBSET Urls]
    BY DEF Request, ProxyOK
  <1> QED
    BY <1>1, <1>2 DEF ProxyOK

LEMMA EndsTyped ==
    ASSUME ScriptOK, NEW s \in Sandboxes, NEW status \in Status, Ends(s, status),
           UNCHANGED <<request, result>>
    PROVE  ScriptOK'
  BY DEF ScriptOK, Ends, Steps

LEMMA GoesOnTyped ==
    ASSUME PodOK, ScriptOK, NEW s \in Sandboxes, at[s] \in DOMAIN Steps(s), GoesOn(s),
           UNCHANGED <<request, result>>
    PROVE  ScriptOK'
  <1>1. at[s] \in 1 .. Len(Steps(s)) /\ Len(Steps(s)) \in Nat
    BY StepsTyped
  <1>2. \A x \in Sandboxes : Steps(x)' = Steps(x)
    BY DEF Steps
  <1>3. \A x \in Sandboxes : at'[x] <= Len(Steps(x)) + 1
    BY <1>1 DEF ScriptOK, GoesOn
  <1> QED
    BY <1>2, <1>3 DEF ScriptOK, GoesOn

\* The script's other moves: to its steps, to the target, into result.json.
LEMMA MoveTyped ==
    ASSUME ScriptOK, NEW s \in Sandboxes,
           NEW label \in {"target", "steps", "writing", "exit"},
           label = "target" => request[s].target # NoUrl,
           NEW content \in {result[s], "torn", outcome[s]},
           script' = [script EXCEPT ![s] = label],
           result' = [result EXCEPT ![s] = content],
           UNCHANGED <<request, at, outcome>>
    PROVE  ScriptOK'
  <1>1. content \in Status \cup {"none", "torn"}
    BY DEF ScriptOK
  <1>2. result' \in [Sandboxes -> Status \cup {"none", "torn"}]
    BY <1>1 DEF ScriptOK
  <1>3. script' \in [Sandboxes -> {"start", "target", "steps", "write", "writing", "exit"}]
    BY DEF ScriptOK
  <1>4. ASSUME NEW x \in Sandboxes, script'[x] = "target"
        PROVE  request[x].target # NoUrl
    BY <1>4 DEF ScriptOK
  <1> QED
    BY <1>2, <1>3, <1>4 DEF ScriptOK, Steps

LEMMA ScriptTyped ==
    ASSUME PodOK, ScriptOK, ProxyOK, NEW s \in Sandboxes, Script(s)
    PROVE  ScriptOK' /\ ProxyOK' /\ UNCHANGED <<request, callVars, pod>>
  <1>a. {"pass", "fail", "error", "timeout"} = Status
    BY DEF Status
  <1>b. result = [result EXCEPT ![s] = result[s]]
    BY DEF ScriptOK
  <1>c. ASSUME UNCHANGED <<request, result, at, outcome>>,
               NEW label \in {"target", "steps"},
               label = "target" => request[s].target # NoUrl,
               script' = [script EXCEPT ![s] = label]
        PROVE  ScriptOK'
    BY <1>b, <1>c, MoveTyped
  <1>d. ASSUME UNCHANGED proxyVars
        PROVE  ProxyOK'
    BY <1>d DEF ProxyOK, proxyVars
  <1>1. CASE Start(s)
    <2>1. UNCHANGED <<request, result, callVars, pod, proxyVars>>
      BY <1>1 DEF Start, ScriptOnly
    <2>2. ASSUME Ends(s, "error") PROVE ScriptOK'
      BY <1>a, <2>1, <2>2, EndsTyped
    <2>3. ASSUME ~Ends(s, "error") PROVE ScriptOK'
      <3>1. CASE request[s].target # NoUrl /\ ~HasGoto(s)
        BY <1>1, <1>c, <2>1, <2>3, <3>1 DEF Start
      <3>2. CASE ~(request[s].target # NoUrl /\ ~HasGoto(s))
        BY <1>1, <1>c, <2>1, <2>3, <3>2 DEF Start
      <3> QED
        BY <3>1, <3>2
    <2> QED
      BY <1>d, <2>1, <2>2, <2>3
  <1>2. CASE OpenTarget(s)
    <2>1. UNCHANGED <<request, result, callVars, pod>>
      BY <1>2 DEF OpenTarget, ScriptOnly
    <2>2. request[s].target \in Urls
      BY <1>2, TargetTyped DEF OpenTarget, At, ScriptOK
    <2>3. ProxyOK'
      BY <1>2, <2>2, RequestTyped DEF OpenTarget
    <2>4. CASE Ends(s, "error")
      BY <1>a, <2>1, <2>3, <2>4, EndsTyped
    <2>5. CASE ~Ends(s, "error")
      BY <1>2, <1>c, <2>1, <2>3, <2>5 DEF OpenTarget
    <2> QED
      BY <2>4, <2>5
  <1>3. CASE Goto(s)
    <2>1. UNCHANGED <<request, result, callVars, pod>>
      BY <1>3 DEF Goto, ScriptOnly
    <2>2. at[s] \in DOMAIN Steps(s) /\ Steps(s)[at[s]].keyword = "goto"
      BY <1>3 DEF Goto, AtStep
    <2>3. Steps(s)[at[s]].url \in Urls
      BY <2>2, GotoTyped
    <2>4. ProxyOK'
      BY <1>3, <2>3, RequestTyped DEF Goto
    <2>5. CASE Ends(s, "fail") \/ Ends(s, "error")
      BY <1>a, <2>1, <2>4, <2>5, EndsTyped
    <2>6. CASE GoesOn(s)
      BY <2>1, <2>2, <2>4, <2>6, GoesOnTyped
    <2> QED
      BY <1>3, <2>1, <2>5, <2>6 DEF Goto
  <1>4. CASE OtherStep(s)
    <2>1. UNCHANGED <<request, result, callVars, pod, proxyVars>>
      BY <1>4 DEF OtherStep, ScriptOnly
    <2>2. at[s] \in DOMAIN Steps(s)
      BY <1>4 DEF OtherStep, AtStep
    <2>3. CASE Ends(s, "fail") \/ Ends(s, "error")
      BY <1>a, <1>d, <2>1, <2>3, EndsTyped
    <2>4. CASE GoesOn(s)
      BY <1>d, <2>1, <2>2, <2>4, GoesOnTyped
    <2> QED
      BY <1>4, <2>1, <2>3, <2>4 DEF OtherStep
  <1>5. CASE Browse(s)
    <2>1. UNCHANGED <<request, result, callVars, pod, script, at, outcome>>
      BY <1>5 DEF Browse, ScriptOnly
    <2>2. ProxyOK'
      BY <1>5, RequestTyped DEF Browse
    <2> QED
      BY <2>1, <2>2 DEF ScriptOK, Steps
  <1>6. CASE Finish(s)
    <2>1. UNCHANGED <<request, result, callVars, pod, proxyVars>>
      BY <1>6 DEF Finish, ScriptOnly
    <2>2. Ends(s, "timeout") \/ Ends(s, "pass") \/ Ends(s, "error")
      BY <1>6 DEF Finish
    <2> QED
      BY <1>a, <1>d, <2>1, <2>2, EndsTyped
  <1>7. CASE WriteResult(s)
    <2>1. UNCHANGED <<request, callVars, pod, at, outcome, proxyVars>>
      BY <1>7 DEF WriteResult
    <2>2. \/ script' = [script EXCEPT ![s] = "writing"] /\ result' = [result EXCEPT ![s] = "torn"]
          \/ script' = [script EXCEPT ![s] = "exit"] /\ result' = [result EXCEPT ![s] = outcome[s]]
      BY <1>7 DEF WriteResult
    <2>3. ScriptOK'
      BY <2>1, <2>2, MoveTyped
    <2> QED
      BY <1>d, <2>1, <2>3
  <1> QED
    BY <1>1, <1>2, <1>3, <1>4, <1>5, <1>6, <1>7 DEF Script

LEMMA TickTyped ==
    ASSUME CallOK, ProxyOK, Tick
    PROVE  CallOK' /\ ProxyOK' /\ UNCHANGED <<request, pod, scriptVars>>
  <1>1. UNCHANGED <<call, file, verdict, refused, request, pod, scriptVars>>
    BY DEF Tick
  <1>2. gone' \in [Sandboxes -> 0 .. Ttl]
    BY SandboxAssumption DEF Tick, CallOK
  <1>3. ASSUME NEW s \in Sandboxes
        PROVE  (IF cache[s].age < Ttl THEN [cache[s] EXCEPT !.age = @ + 1] ELSE cache[s])
                  \in Entry
    BY SandboxAssumption DEF ProxyOK, Entry
  <1>4. cache' \in [Sandboxes -> Entry]
    BY <1>3 DEF Tick
  <1>5. reached' \in [Sandboxes -> SUBSET Urls]
    BY DEF Tick
  <1> QED
    BY <1>1, <1>2, <1>4, <1>5 DEF CallOK, ProxyOK

LEMMA StepTyped ==
    ASSUME CallOK, PodOK, ScriptOK, ProxyOK, [Next]_vars
    PROVE  CallOK' /\ PodOK' /\ ScriptOK' /\ ProxyOK'
  <1>1. ASSUME NEW s \in Sandboxes, RunSandbox(s)
        PROVE  CallOK' /\ PodOK' /\ ScriptOK' /\ ProxyOK'
    <2>1. UNCHANGED <<request, scriptVars, proxyVars>>
      BY <1>1, RunSandboxFrame
    <2> QED
      BY <1>1, <2>1, RunSandboxTyped DEF ScriptOK, ProxyOK, scriptVars, proxyVars, Steps
  <1>2. ASSUME NEW s \in Sandboxes, PodUp(s) \/ PodGone(s)
        PROVE  CallOK' /\ PodOK' /\ ScriptOK' /\ ProxyOK'
    <2>1. UNCHANGED <<request, callVars, scriptVars, proxyVars>>
      BY <1>2 DEF PodUp, PodGone
    <2>2. PodOK'
      BY <1>2, <2>1 DEF PodUp, PodGone, PodOK
    <2> QED
      BY <2>1, <2>2
         DEF CallOK, ScriptOK, ProxyOK, callVars, scriptVars, proxyVars, Steps
  <1>3. ASSUME NEW s \in Sandboxes, Script(s)
        PROVE  CallOK' /\ PodOK' /\ ScriptOK' /\ ProxyOK'
    BY <1>3, ScriptTyped DEF CallOK, PodOK, callVars
  <1>4. ASSUME Tick
        PROVE  CallOK' /\ PodOK' /\ ScriptOK' /\ ProxyOK'
    BY <1>4, TickTyped DEF PodOK, ScriptOK, scriptVars, Steps
  <1>5. ASSUME UNCHANGED vars
        PROVE  CallOK' /\ PodOK' /\ ScriptOK' /\ ProxyOK'
    BY <1>5 DEF vars, CallOK, PodOK, ScriptOK, ProxyOK, callVars, scriptVars, proxyVars,
                Steps
  <1> QED
    BY <1>1, <1>2, <1>3, <1>4, <1>5 DEF Next

LEMMA Typed == Spec => [](CallOK /\ PodOK /\ ScriptOK /\ ProxyOK)
  <1>1. Init => CallOK /\ PodOK /\ ScriptOK /\ ProxyOK
    BY InitTyped
  <1>2. CallOK /\ PodOK /\ ScriptOK /\ ProxyOK /\ [Next]_vars
        => (CallOK /\ PodOK /\ ScriptOK /\ ProxyOK)'
    BY StepTyped
  <1> QED
    BY <1>1, <1>2, PTL DEF Spec

\* Every step of run_sandbox, of the script and of the proxy keeps the types:
\* in particular no status but the four of a result is ever reported.
THEOREM TypeCorrect == Spec => []SandboxTypeOK
  BY Typed, TypeParts, PTL

-----------------------------------------------------------------------------
(* The allow-list decides.  An entry the proxy still uses is the list of its *)
(* run, and was loaded before the file was removed; a container whose        *)
(* allow-list was never written has not asked for anything.                  *)

FreshEntry(s) ==
    cache[s].age < Ttl =>
        /\ cache[s].allow = request[s].allowed
        /\ file[s] \/ gone[s] <= cache[s].age

NoPodYet(s) == call[s] = "idle" => pod[s] = "none" /\ refused[s] = {} /\ ~file[s]

Held(s) ==
    /\ FreshEntry(s)
    /\ NoPodYet(s)
    /\ reached[s] \subseteq Listed(s)
    /\ reached[s] # {} => file[s] \/ gone[s] < Ttl
    /\ file[s] => refused[s] \cap Listed(s) = {}

EgressInv == \A s \in Sandboxes : Held(s)

LEMMA InitHeld == Init => EgressInv
  <1> SUFFICES ASSUME Init, NEW s \in Sandboxes PROVE Held(s)
    BY DEF EgressInv
  <1>1. cache[s].age = Ttl /\ ~(Ttl < Ttl)
    BY SandboxAssumption DEF Init
  <1>2. FreshEntry(s)
    BY <1>1 DEF FreshEntry
  <1>3. /\ pod[s] = "none" /\ reached[s] = {} /\ refused[s] = {}
        /\ file[s] = FALSE
    BY DEF Init
  <1> QED
    BY <1>2, <1>3 DEF Held, NoPodYet

LEMMA HeldFrame ==
    ASSUME NEW s \in Sandboxes, Held(s),
           call'[s] = call[s], file'[s] = file[s], gone'[s] = gone[s], pod'[s] = pod[s],
           request'[s] = request[s], cache'[s] = cache[s], reached'[s] = reached[s],
           refused'[s] = refused[s]
    PROVE  Held(s)'
  BY DEF Held, FreshEntry, NoPodYet, Listed, Matches

LEMMA RunSandboxHeld ==
    ASSUME CallOK, PodOK, ProxyOK, EgressInv, NEW s \in Sandboxes, RunSandbox(s),
           NEW x \in Sandboxes
    PROVE  Held(x)'
  <1>1. UNCHANGED <<request, cache, reached, refused>>
    BY RunSandboxFrame DEF proxyVars
  <1>2. Listed(x)' = Listed(x)
    BY <1>1 DEF Listed, Matches
  <1>3. Held(x)
    BY DEF EgressInv
  <1>4. CASE x # s
    <2>1. /\ call'[x] = call[x] /\ file'[x] = file[x] /\ gone'[x] = gone[x]
          /\ pod'[x] = pod[x]
      BY <1>4 DEF RunSandbox, Prepare, Return, ClientTimeout, ForceKill, ReadResult, Upload,
                  Clean, Raise, CallGoes, CallOK, PodOK
    <2> QED
      BY <1>1, <1>3, <2>1, HeldFrame
  <1>5. CASE x = s
    <2>1. call'[s] # "idle"
      BY DEF RunSandbox, Prepare, Return, ClientTimeout, ForceKill, ReadResult, Upload,
             Clean, Raise, CallGoes, CallOK
    <2>2. CASE Prepare(s)
      <3>1. file'[s] /\ gone'[s] = gone[s] /\ refused[s] = {}
        BY <1>3, <1>5, <2>2 DEF Prepare, CallGoes, CallOK, Held, NoPodYet
      <3> QED
        BY <1>1, <1>2, <1>3, <1>5, <2>1, <3>1 DEF Held, FreshEntry, NoPodYet
    <2>3. CASE Clean(s) /\ file'[s] = FALSE /\ gone'[s] = 0
      <3>1. cache[s].age \in 0 .. Ttl /\ 0 < Ttl
        BY SandboxAssumption DEF ProxyOK, Entry
      <3> QED
        BY <1>1, <1>2, <1>3, <1>5, <2>1, <2>3, <3>1 DEF Held, FreshEntry, NoPodYet
    <2>4. CASE ~Prepare(s) /\ ~(Clean(s) /\ file'[s] = FALSE /\ gone'[s] = 0)
      <3>1. file'[s] = file[s] /\ gone'[s] = gone[s]
        BY <2>4 DEF RunSandbox, Return, ClientTimeout, ForceKill, ReadResult, Upload,
                    Clean, Raise, CallOK
      <3> QED
        BY <1>1, <1>2, <1>3, <1>5, <2>1, <3>1 DEF Held, FreshEntry, NoPodYet
    <2> QED
      BY <2>2, <2>3, <2>4
  <1> QED
    BY <1>4, <1>5

\* What a script asks, it asks from a container that is up, and of the proxy.
LEMMA ScriptAsks ==
    ASSUME PodOK, ScriptOK, NEW s \in Sandboxes, Script(s)
    PROVE  /\ pod[s] = "up"
           /\ UNCHANGED <<request, callVars, pod>>
           /\ UNCHANGED proxyVars \/ \E u \in Urls : Request(s, u)
  <1>1. CASE OpenTarget(s)
    <2>1. request[s].target \in Urls
      BY <1>1, TargetTyped DEF OpenTarget, At, ScriptOK
    <2> QED
      BY <1>1, <2>1 DEF OpenTarget, At, ScriptOnly
  <1>2. CASE Goto(s)
    <2>1. Steps(s)[at[s]].url \in Urls
      BY <1>2, GotoTyped DEF Goto, AtStep
    <2> QED
      BY <1>2, <2>1 DEF Goto, AtStep, At, ScriptOnly
  <1>3. CASE Browse(s)
    BY <1>3 DEF Browse, At, ScriptOnly
  <1>4. CASE Start(s) \/ OtherStep(s) \/ Finish(s)
    BY <1>4 DEF Start, OtherStep, Finish, AtStep, At, ScriptOnly
  <1>5. CASE WriteResult(s)
    BY <1>5 DEF WriteResult, At
  <1> QED
    BY <1>1, <1>2, <1>3, <1>4, <1>5 DEF Script

LEMMA LoadFresh ==
    ASSUME PodOK, ProxyOK, NEW s \in Sandboxes, FreshEntry(s)
    PROVE  /\ Load(s).age < Ttl => /\ Load(s).allow = request[s].allowed
                                   /\ file[s] \/ gone[s] <= Load(s).age
           /\ file[s] => Load(s).age < Ttl
  BY SandboxAssumption DEF FreshEntry, Load

LEMMA RequestHeld ==
    ASSUME CallOK, PodOK, ProxyOK, EgressInv, NEW s \in Sandboxes, NEW u \in Urls,
           Request(s, u), pod[s] = "up", UNCHANGED <<request, callVars, pod>>,
           NEW x \in Sandboxes
    PROVE  Held(x)'
  <1>1. UNCHANGED <<request, call, file, gone, pod>>
    BY DEF callVars
  <1>2. Held(x) /\ Held(s)
    BY DEF EgressInv
  <1>3. CASE x # s
    <2>1. cache'[x] = cache[x] /\ reached'[x] = reached[x] /\ refused'[x] = refused[x]
      BY <1>3 DEF Request, ProxyOK
    <2> QED
      BY <1>1, <1>2, <2>1, HeldFrame
  <1>4. CASE x = s
    <2>1. cache'[s] = Load(s)
      BY DEF Request, ProxyOK
    <2>2. FreshEntry(s)
      BY <1>2 DEF Held
    <2>3. /\ Load(s).age < Ttl => /\ Load(s).allow = request[s].allowed
                                  /\ file[s] \/ gone[s] <= Load(s).age
          /\ file[s] => Load(s).age < Ttl
      BY <2>2, LoadFresh
    <2>4. FreshEntry(s)'
      BY <1>1, <2>1, <2>3 DEF FreshEntry
    <2>5. NoPodYet(s)'
      BY <1>1, <1>2 DEF NoPodYet, Held
    <2>6. Listed(s)' = Listed(s)
      BY <1>1 DEF Listed, Matches
    <2>7. CASE LetsThrough(s, u)
      <3>1. u \in Listed(s) /\ (file[s] \/ gone[s] < Ttl)
        <4>1. gone[s] \in Nat /\ Load(s).age \in Nat /\ Ttl \in Nat
          BY LoadTyped, SandboxAssumption DEF CallOK, Entry
        <4> QED
          BY <2>3, <2>7, <4>1 DEF LetsThrough, Listed
      <3>2. reached'[s] = reached[s] \cup {u} /\ refused'[s] = refused[s]
        BY <2>7 DEF Request, ProxyOK
      <3> QED
        BY <1>1, <1>2, <1>4, <2>4, <2>5, <2>6, <3>1, <3>2 DEF Held
    <2>8. CASE ~LetsThrough(s, u)
      <3>1. file[s] => u \notin Listed(s)
        BY <2>3, <2>8 DEF LetsThrough, Listed
      <3>2. reached'[s] = reached[s] /\ refused'[s] = refused[s] \cup {u}
        BY <2>8 DEF Request, ProxyOK
      <3> QED
        BY <1>1, <1>2, <1>4, <2>4, <2>5, <2>6, <3>1, <3>2 DEF Held
    <2> QED
      BY <2>7, <2>8
  <1> QED
    BY <1>3, <1>4

LEMMA TickHeld ==
    ASSUME CallOK, ProxyOK, EgressInv, Tick, NEW s \in Sandboxes
    PROVE  Held(s)'
  <1>1. UNCHANGED <<request, call, file, pod, refused>>
    BY DEF Tick
  <1>2. Held(s)
    BY DEF EgressInv
  <1>3. Listed(s)' = Listed(s)
    BY <1>1 DEF Listed, Matches
  <1>4. gone'[s] = IF gone[s] < Ttl THEN gone[s] + 1 ELSE Ttl
    BY DEF Tick
  <1>5. cache'[s] = IF cache[s].age < Ttl THEN [cache[s] EXCEPT !.age = @ + 1] ELSE cache[s]
    BY DEF Tick
  <1>6. gone[s] \in Nat /\ cache[s] \in Entry /\ cache[s].age \in Nat /\ Ttl \in Nat
    BY SandboxAssumption DEF CallOK, ProxyOK, Entry
  <1>7. FreshEntry(s)'
    <2> SUFFICES ASSUME cache'[s].age < Ttl
                 PROVE  cache'[s].allow = request[s].allowed /\ (file[s] \/ gone'[s] <= cache'[s].age)
      BY <1>1 DEF FreshEntry
    <2>1. cache[s].age < Ttl
      BY <1>5
    <2>2. cache'[s].allow = cache[s].allow /\ cache'[s].age = cache[s].age + 1
      BY <1>5, <1>6, <2>1 DEF Entry
    <2> QED
      BY <1>2, <1>4, <1>6, <2>1, <2>2 DEF Held, FreshEntry
  <1>8. NoPodYet(s)'
    BY <1>1, <1>2 DEF Held, NoPodYet
  <1>9. reached'[s] = {}
    BY DEF Tick
  <1> QED
    BY <1>1, <1>2, <1>3, <1>7, <1>8, <1>9 DEF Held

LEMMA StepHeld ==
    ASSUME CallOK, PodOK, ScriptOK, ProxyOK, EgressInv, [Next]_vars
    PROVE  EgressInv'
  <1>1. ASSUME NEW s \in Sandboxes, RunSandbox(s)
        PROVE  EgressInv'
    BY <1>1, RunSandboxHeld DEF EgressInv
  <1>2. ASSUME NEW s \in Sandboxes, PodUp(s) \/ PodGone(s), NEW x \in Sandboxes
        PROVE  Held(x)'
    <2>1. UNCHANGED <<request, call, file, gone, cache, reached, refused>>
      BY <1>2 DEF PodUp, PodGone, callVars, proxyVars
    <2>2. Held(x) /\ Held(s)
      BY DEF EgressInv
    <2>3. CASE x # s
      <3>1. pod'[x] = pod[x]
        BY <1>2, <2>3 DEF PodUp, PodGone, PodOK
      <3> QED
        BY <2>1, <2>2, <3>1, HeldFrame
    <2>4. CASE x = s
      <3>1. call[s] # "idle"
        BY <1>2, <2>2 DEF Held, NoPodYet, PodUp, PodGone
      <3> QED
        BY <2>1, <2>2, <2>4, <3>1 DEF Held, FreshEntry, NoPodYet, Listed, Matches
    <2> QED
      BY <2>3, <2>4
  <1>3. ASSUME NEW s \in Sandboxes, Script(s), NEW x \in Sandboxes
        PROVE  Held(x)'
    <2>1. /\ pod[s] = "up"
          /\ UNCHANGED <<request, callVars, pod>>
          /\ UNCHANGED proxyVars \/ \E u \in Urls : Request(s, u)
      BY <1>3, ScriptAsks
    <2>2. CASE UNCHANGED proxyVars
      BY <2>1, <2>2, HeldFrame DEF EgressInv, callVars, proxyVars
    <2>3. CASE \E u \in Urls : Request(s, u)
      BY <2>1, <2>3, RequestHeld
    <2> QED
      BY <2>1, <2>2, <2>3
  <1>4. ASSUME Tick
        PROVE  EgressInv'
    BY <1>4, TickHeld DEF EgressInv
  <1>5. ASSUME UNCHANGED vars, NEW x \in Sandboxes
        PROVE  Held(x)'
    BY <1>5, HeldFrame DEF EgressInv, vars, callVars, proxyVars
  <1> QED
    BY <1>1, <1>2, <1>3, <1>4, <1>5 DEF Next, EgressInv

\* However long a container outlives its run, and whenever the file of its
\* allow-list is removed, what it reaches is what its run was allowed, and
\* nothing once the file has been gone for the life of an entry.
THEOREM EgressHolds == Spec => []EgressByList
  <1>1. Init => EgressInv
    BY InitHeld
  <1>2. /\ CallOK /\ PodOK /\ ScriptOK /\ ProxyOK
        /\ EgressInv
        /\ [Next]_vars
        => EgressInv'
    BY StepHeld
  <1>3. EgressInv => EgressByList
    BY DEF EgressInv, Held, EgressByList
  <1> QED
    BY <1>1, <1>2, <1>3, Typed, PTL DEF Spec

-----------------------------------------------------------------------------
(* A pass is earned.  The pages behind the step a script is at were let      *)
(* through, and a status in result.json is the one the script ended with.    *)

Gated(s) ==
    \A i \in DOMAIN Steps(s) :
        i < at[s] /\ Steps(s)[i].keyword = "goto" => Steps(s)[i].url \in Listed(s)

Ran(s) == at[s] = Len(Steps(s)) + 1 /\ Supported(s)

Earned(s) ==
    /\ at[s] > 0
    /\ script[s] \in {"target", "steps"} => Supported(s)
    /\ Gated(s)
    /\ script[s] \in {"write", "writing", "exit"} /\ outcome[s] = "pass" => Ran(s)
    /\ result[s] \in Status => script[s] = "exit" /\ result[s] = outcome[s]
    /\ verdict[s] = "pass" => result[s] = "pass"

PassInv == \A s \in Sandboxes : Earned(s)

LEMMA EarnedEnough == PodOK /\ PassInv => PassEarned
  <1> SUFFICES ASSUME PodOK, PassInv, NEW s \in Sandboxes, verdict[s] = "pass"
               PROVE  /\ Ran(s)
                      /\ \A i \in DOMAIN Steps(s) :
                            Steps(s)[i].keyword = "goto" => Steps(s)[i].url \in Listed(s)
    BY DEF PassEarned, Ran
  <1>1. Earned(s)
    BY DEF PassInv
  <1>2. result[s] = "pass" /\ "pass" \in Status
    BY <1>1 DEF Earned, Status
  <1>3. Ran(s)
    BY <1>1, <1>2 DEF Earned
  <1>4. \A i \in DOMAIN Steps(s) : i < at[s]
    BY <1>3, StepsTyped DEF Ran
  <1> QED
    BY <1>1, <1>3, <1>4 DEF Earned, Gated

LEMMA InitEarned == Init => PassInv
  <1> SUFFICES ASSUME Init, NEW s \in Sandboxes PROVE Earned(s)
    BY DEF PassInv
  <1>1. /\ script[s] = "start" /\ at[s] = 1 /\ result[s] = "none" /\ verdict[s] = "none"
    BY DEF Init
  <1>2. DOMAIN Steps(s) = 1 .. Len(Steps(s))
    BY InitTyped, StepsTyped
  <1>3. Gated(s)
    BY <1>1, <1>2 DEF Gated
  <1> QED
    BY <1>1, <1>3 DEF Earned, Status

LEMMA EarnedFrame ==
    ASSUME NEW s \in Sandboxes, Earned(s),
           request'[s] = request[s], script'[s] = script[s], at'[s] = at[s],
           outcome'[s] = outcome[s], result'[s] = result[s], verdict'[s] = verdict[s]
    PROVE  Earned(s)'
  BY DEF Earned, Gated, Ran, Supported, Steps, Listed, Matches

\* run_sandbox reads a pass only where the script wrote one.
LEMMA RunSandboxEarned ==
    ASSUME CallOK, PodOK, ScriptOK, PassInv, NEW s \in Sandboxes, RunSandbox(s),
           NEW x \in Sandboxes
    PROVE  Earned(x)'
  <1>1. UNCHANGED <<request, script, at, outcome, result>>
    BY RunSandboxFrame DEF scriptVars
  <1>2. Earned(x)
    BY DEF PassInv
  <1>3. CASE verdict'[x] = verdict[x]
    BY <1>1, <1>2, <1>3, EarnedFrame
  <1>4. CASE verdict'[x] # verdict[x]
    <2>1. verdict'[x] \in Verdict(x)
      BY <1>4 DEF RunSandbox, Prepare, Return, ClientTimeout, ForceKill, ReadResult, Upload,
                  Clean, Raise, CallOK
    <2>2. verdict'[x] = "pass" => result[x] = "pass"
      BY <2>1 DEF Verdict
    <2> QED
      BY <1>1, <1>2, <2>2
         DEF Earned, Gated, Ran, Supported, Steps, Listed, Matches
  <1> QED
    BY <1>3, <1>4

\* The three moves of a script that is running.  None of them is made once there
\* is a status in result.json.
LEMMA EndsEarned ==
    ASSUME ScriptOK, NEW s \in Sandboxes, Earned(s), NEW status \in Status,
           Ends(s, status), script[s] \in {"start", "target", "steps"},
           status = "pass" => Ran(s),
           UNCHANGED <<request, result, verdict>>
    PROVE  Earned(s)'
  <1>1. script'[s] = "write" /\ outcome'[s] = status /\ at' = at
    BY DEF Ends, ScriptOK
  <1>2. result[s] \notin Status
    BY DEF Earned
  <1>3. Gated(s)' /\ (Ran(s) => Ran(s)')
    BY <1>1 DEF Earned, Gated, Ran, Supported, Steps, Listed, Matches
  <1> QED
    BY <1>1, <1>2, <1>3 DEF Earned

LEMMA GoesOnEarned ==
    ASSUME PodOK, ScriptOK, NEW s \in Sandboxes, Earned(s), GoesOn(s), script[s] = "steps",
           at[s] \in DOMAIN Steps(s),
           Steps(s)[at[s]].keyword = "goto" => Steps(s)[at[s]].url \in Listed(s),
           UNCHANGED <<request, result, verdict>>
    PROVE  Earned(s)'
  <1>1. script'[s] = "steps" /\ at'[s] = at[s] + 1 /\ at[s] \in Nat
    BY DEF GoesOn, ScriptOK
  <1>2. result[s] \notin Status
    BY DEF Earned
  <1>3. DOMAIN Steps(s) = 1 .. Len(Steps(s)) /\ Len(Steps(s)) \in Nat
    BY StepsTyped
  <1>4. Steps(s)' = Steps(s) /\ Listed(s)' = Listed(s)
    BY DEF Steps, Listed, Matches
  <1>5. \A i \in DOMAIN Steps(s) : i < at[s] + 1 => i < at[s] \/ i = at[s]
    BY <1>1, <1>3
  <1>6. Gated(s)'
    BY <1>1, <1>4, <1>5 DEF Earned, Gated
  <1> QED
    BY <1>1, <1>2, <1>4, <1>6 DEF Earned, Supported

LEMMA MoveEarned ==
    ASSUME ScriptOK, NEW s \in Sandboxes, Earned(s), NEW label \in {"target", "steps"},
           script[s] \in {"start", "target", "steps"}, Supported(s),
           script' = [script EXCEPT ![s] = label],
           UNCHANGED <<request, at, outcome, result, verdict>>
    PROVE  Earned(s)'
  <1>1. script'[s] = label
    BY DEF ScriptOK
  <1>2. result[s] \notin Status
    BY DEF Earned
  <1> QED
    BY <1>1, <1>2 DEF Earned, Gated, Supported, Steps, Listed, Matches

\* What a script does to its own sandbox.
LEMMA ScriptEarned ==
    ASSUME PodOK, ScriptOK, ProxyOK, EgressInv, PassInv, NEW s \in Sandboxes, Script(s)
    PROVE  Earned(s)'
  <1>a. Earned(s) /\ {"pass", "fail", "error", "timeout"} = Status
    BY DEF PassInv, Status
  <1>b. UNCHANGED <<request, verdict>>
    BY ScriptAsks DEF callVars
  <1>1. CASE Start(s)
    <2>1. script[s] = "start" /\ UNCHANGED result
      BY <1>1 DEF Start, At, ScriptOnly
    <2>2. CASE Ends(s, "error")
      BY <1>a, <1>b, <2>1, <2>2, EndsEarned
    <2>3. CASE ~Ends(s, "error")
      <3>1. PICK label \in {"target", "steps"} : script' = [script EXCEPT ![s] = label]
        BY <1>1, <2>3 DEF Start
      <3> QED
        BY <1>1, <1>a, <1>b, <2>1, <2>3, <3>1, MoveEarned DEF Start
    <2> QED
      BY <2>2, <2>3
  <1>2. CASE OpenTarget(s)
    <2>1. script[s] = "target" /\ UNCHANGED result
      BY <1>2 DEF OpenTarget, At, ScriptOnly
    <2>2. Supported(s)
      BY <1>a, <2>1 DEF Earned
    <2>3. CASE Ends(s, "error")
      BY <1>a, <1>b, <2>1, <2>3, EndsEarned
    <2>4. CASE ~Ends(s, "error")
      BY <1>2, <1>a, <1>b, <2>1, <2>2, <2>4, MoveEarned DEF OpenTarget
    <2> QED
      BY <2>3, <2>4
  <1>3. CASE Goto(s)
    <2>1. /\ script[s] = "steps" /\ UNCHANGED result
          /\ at[s] \in DOMAIN Steps(s) /\ Steps(s)[at[s]].keyword = "goto"
      BY <1>3 DEF Goto, AtStep, At, ScriptOnly
    <2>2. CASE Ends(s, "fail") \/ Ends(s, "error")
      BY <1>a, <1>b, <2>1, <2>2, EndsEarned
    <2>3. CASE LetsThrough(s, Steps(s)[at[s]].url) /\ GoesOn(s)
      <3>1. FreshEntry(s)
        BY DEF EgressInv, Held
      <3>2. Steps(s)[at[s]].url \in Urls
        BY <2>1, GotoTyped
      <3>3. Steps(s)[at[s]].url \in Listed(s)
        BY <2>3, <3>1, <3>2, LoadFresh DEF LetsThrough, Listed
      <3> QED
        BY <1>a, <1>b, <2>1, <2>3, <3>3, GoesOnEarned
    <2> QED
      BY <1>3, <2>2, <2>3 DEF Goto
  <1>4. CASE OtherStep(s)
    <2>1. /\ script[s] = "steps" /\ UNCHANGED result
          /\ at[s] \in DOMAIN Steps(s) /\ Steps(s)[at[s]].keyword # "goto"
      BY <1>4 DEF OtherStep, AtStep, At, ScriptOnly
    <2>2. CASE Ends(s, "fail") \/ Ends(s, "error")
      BY <1>a, <1>b, <2>1, <2>2, EndsEarned
    <2>3. CASE GoesOn(s)
      BY <1>a, <1>b, <2>1, <2>3, GoesOnEarned
    <2> QED
      BY <1>4, <2>2, <2>3 DEF OtherStep
  <1>5. CASE Browse(s)
    BY <1>5, <1>a, <1>b, EarnedFrame DEF Browse, ScriptOnly
  <1>6. CASE Finish(s)
    <2>1. script[s] = "steps" /\ UNCHANGED result
      BY <1>6 DEF Finish, At, ScriptOnly
    <2>2. CASE Ends(s, "timeout") \/ Ends(s, "error")
      BY <1>a, <1>b, <2>1, <2>2, EndsEarned
    <2>3. CASE at[s] \notin DOMAIN Steps(s) /\ Ends(s, "pass")
      <3>1. at[s] \in Nat /\ at[s] <= Len(Steps(s)) + 1
        BY DEF ScriptOK
      <3>2. at[s] = Len(Steps(s)) + 1
        BY <1>a, <2>3, <3>1, StepsTyped DEF Earned
      <3>3. Ran(s)
        BY <1>a, <2>1, <3>2 DEF Earned, Ran
      <3> QED
        BY <1>a, <1>b, <2>1, <2>3, <3>3, EndsEarned
    <2> QED
      BY <1>6, <2>2, <2>3 DEF Finish
  <1>7. CASE WriteResult(s)
    <2>1. UNCHANGED <<at, outcome>>
      BY <1>7 DEF WriteResult
    <2>2. Gated(s)' /\ (Ran(s) => Ran(s)')
      BY <1>a, <1>b, <2>1 DEF Earned, Gated, Ran, Supported, Steps, Listed, Matches
    <2>3. script[s] \in {"write", "writing"} /\ script'[s] \in {"writing", "exit"}
      BY <1>7 DEF WriteResult, At, ScriptOK
    <2>4. \/ script'[s] = "writing" /\ result'[s] = "torn"
          \/ script'[s] = "exit" /\ result'[s] = outcome[s]
      BY <1>7 DEF WriteResult, ScriptOK
    <2>5. verdict[s] # "pass"
      BY <1>a, <2>3 DEF Earned
    <2> QED
      BY <1>a, <1>b, <2>1, <2>2, <2>3, <2>4, <2>5 DEF Earned, Status
  <1> QED
    BY <1>1, <1>2, <1>3, <1>4, <1>5, <1>6, <1>7 DEF Script

\* A script touches no other sandbox.
LEMMA ScriptFrame ==
    ASSUME ScriptOK, NEW s \in Sandboxes, Script(s), NEW x \in Sandboxes, x # s
    PROVE  /\ script'[x] = script[x] /\ at'[x] = at[x]
           /\ outcome'[x] = outcome[x] /\ result'[x] = result[x]
  <1>1. CASE Start(s) \/ OpenTarget(s) \/ Browse(s)
    BY <1>1 DEF Start, OpenTarget, Browse, Ends, ScriptOnly, ScriptOK
  <1>2. CASE Goto(s) \/ OtherStep(s) \/ Finish(s)
    BY <1>2 DEF Goto, OtherStep, Finish, Ends, GoesOn, ScriptOnly, ScriptOK
  <1>3. CASE WriteResult(s)
    BY <1>3 DEF WriteResult, ScriptOK
  <1> QED
    BY <1>1, <1>2, <1>3 DEF Script

LEMMA StepEarned ==
    ASSUME CallOK, PodOK, ScriptOK, ProxyOK, EgressInv, PassInv, [Next]_vars
    PROVE  PassInv'
  <1>1. ASSUME NEW s \in Sandboxes, RunSandbox(s)
        PROVE  PassInv'
    BY <1>1, RunSandboxEarned DEF PassInv
  <1>2. ASSUME NEW s \in Sandboxes, Script(s), NEW x \in Sandboxes
        PROVE  Earned(x)'
    <2>1. UNCHANGED <<request, verdict>>
      BY <1>2, ScriptAsks DEF callVars
    <2>2. CASE x = s
      BY <1>2, <2>2, ScriptEarned
    <2>3. CASE x # s
      BY <1>2, <2>1, <2>3, ScriptFrame, EarnedFrame DEF PassInv
    <2> QED
      BY <2>2, <2>3
  <1>3. ASSUME UNCHANGED <<request, scriptVars, verdict>>, NEW x \in Sandboxes
        PROVE  Earned(x)'
    BY <1>3, EarnedFrame DEF PassInv, scriptVars
  <1>4. ASSUME NEW s \in Sandboxes, PodUp(s) \/ PodGone(s)
        PROVE  UNCHANGED <<request, scriptVars, verdict>>
    BY <1>4 DEF PodUp, PodGone, callVars
  <1>5. Tick \/ UNCHANGED vars => UNCHANGED <<request, scriptVars, verdict>>
    BY DEF Tick, vars, callVars
  <1> QED
    BY <1>1, <1>2, <1>3, <1>4, <1>5 DEF Next, PassInv

\* Whatever is killed, cut short or read too early, a run that is reported as
\* passed ran every step, and no page it went to was the proxy's refusal.
THEOREM PassIsEarned == Spec => []PassEarned
  <1>1. Init => EgressInv /\ PassInv
    BY InitHeld, InitEarned
  <1>2. /\ CallOK /\ PodOK /\ ScriptOK /\ ProxyOK
        /\ EgressInv /\ PassInv
        /\ [Next]_vars
        => EgressInv' /\ PassInv'
    BY StepHeld, StepEarned
  <1>3. PodOK /\ PassInv => PassEarned
    BY EarnedEnough
  <1> QED
    BY <1>1, <1>2, <1>3, Typed, PTL DEF Spec

=============================================================================
