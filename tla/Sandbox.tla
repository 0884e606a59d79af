------------------------------- MODULE Sandbox -------------------------------
(***************************************************************************)
(* What Runner's task "box" and its container do: run_sandbox              *)
(* (services/runner/src/sandbox_executor.py), the script that runs in the  *)
(* container (script_generator.py) and the add-on of the proxy that        *)
(* decides on each of its requests (services/proxy/src/addon.py).          *)
(*                                                                         *)
(*   runner     call       --- allow-list file ---->  cache       proxy    *)
(*              verdict    <-- result.json ---\         |                  *)
(*                                             \        v                  *)
(*   container  pod, script, at, outcome -------- requests                 *)
(*                                                                         *)
(* The three share no lock and no clock.  A container outlives the call    *)
(* that started it when podman kill fails, when it comes up after the      *)
(* kill, and when the runner stops; then only the proxy holds it.          *)
(***************************************************************************)
EXTENDS Integers, Sequences

CONSTANTS
    Sandboxes,   \* one per run: sandbox_id is the beginning of the run's id
    Urls,        \* addresses for which the browser asks the proxy
    Patterns,
    Fnmatch,     \* the pairs <<url, pattern>> that match
    NoUrl,       \* a run without target_url
    Requests,    \* what POST /runs may ask: steps, target_url, allowed_urls
    Ttl          \* CACHE_TTL_SECONDS, in steps of the clock

Keyword == {"goto", "act", "expect", "unsupported"}

ASSUME SandboxAssumption ==
    /\ Fnmatch \subseteq Urls \X Patterns
    /\ NoUrl \notin Urls
    /\ Requests \subseteq
          [steps : Seq([keyword : Keyword, url : Urls \cup {NoUrl}]),
           target : Urls \cup {NoUrl}, allowed : SUBSET Patterns]
    /\ \A q \in Requests : \A i \in DOMAIN q.steps :
          q.steps[i].keyword = "goto" => q.steps[i].url # NoUrl
    /\ Ttl \in Nat \ {0}

VARIABLES
    request,     \* the request of each sandbox
    call,        \* where run_sandbox is; "raised" also when its process stopped
    file,        \* is the allow-list file there?
    gone,        \* clock steps since it was removed, up to Ttl
    verdict,     \* the status run_sandbox returns
    pod,         \* the container: "none", "pending", "up" or "gone"
    script,      \* where its script is
    at,          \* the test step it is at
    outcome,     \* the script's variable status
    result,      \* result.json: "none", "torn" while it is written, or a status
    cache,       \* the proxy's entry and its age; one of age Ttl is no longer used
    reached,     \* urls the proxy has let through since the last clock step
    refused      \* urls it has refused

callVars   == <<call, file, gone, verdict>>
scriptVars == <<script, at, outcome, result>>
proxyVars  == <<cache, reached, refused>>
vars       == <<request, callVars, pod, scriptVars, proxyVars>>

Init ==
    /\ request \in [Sandboxes -> Requests]
    /\ call = [s \in Sandboxes |-> "idle"]
    /\ file = [s \in Sandboxes |-> FALSE]
    /\ gone = [s \in Sandboxes |-> Ttl]
    /\ verdict = [s \in Sandboxes |-> "none"]
    /\ pod = [s \in Sandboxes |-> "none"]
    /\ script = [s \in Sandboxes |-> "start"]
    /\ at = [s \in Sandboxes |-> 1]
    /\ outcome = [s \in Sandboxes |-> "pass"]
    /\ result = [s \in Sandboxes |-> "none"]
    /\ cache = [s \in Sandboxes |-> [allow |-> {}, age |-> Ttl]]
    /\ reached = [s \in Sandboxes |-> {}]
    /\ refused = [s \in Sandboxes |-> {}]

Steps(s) == request[s].steps

-----------------------------------------------------------------------------
(* run_sandbox                                                               *)

CallGoes(s, from, to) == call[s] = from /\ call' = [call EXCEPT ![s] = to]

\* Work directory, script and allow-list are on disk before podman run is sent.
Prepare(s) ==
    /\ CallGoes(s, "idle", "podman")
    /\ file' = [file EXCEPT ![s] = TRUE]
    /\ pod' = [pod EXCEPT ![s] = "pending"]
    /\ UNCHANGED <<request, gone, verdict, scriptVars, proxyVars>>

Return(s) ==
    /\ pod[s] = "gone"
    /\ CallGoes(s, "podman", "read")
    /\ UNCHANGED <<request, file, gone, verdict, pod, scriptVars, proxyVars>>

\* The podman client ran into the overall timeout; the container lives on.
ClientTimeout(s) ==
    /\ pod[s] # "gone"
    /\ CallGoes(s, "podman", "kill")
    /\ UNCHANGED <<request, file, gone, verdict, pod, scriptVars, proxyVars>>

\* podman kill and podman rm -f, which may fail, or come before the container.
ForceKill(s) ==
    /\ CallGoes(s, "kill", "remove") \/ CallGoes(s, "remove", "read")
    /\ pod' \in {pod, [pod EXCEPT ![s] = IF @ = "up" THEN "gone" ELSE @]}
    /\ UNCHANGED <<request, file, gone, verdict, scriptVars, proxyVars>>

\* Faulty variant for a mutation run: what cannot be parsed is passed on.
VerdictRaw(s) == IF result[s] = "none" THEN {"error", "fail"} ELSE {result[s]}

\* The status in result.json, if that is there and can be read.  Without the
\* file it is "fail" if podman run exited with 0, an exit code this model does
\* not have, and "error" otherwise.
Verdict(s) ==
    CASE result[s] = "none" -> {"error", "fail"}
      [] result[s] = "torn" -> {"error"}
      [] OTHER -> {result[s]}

ReadResult(s) ==
    /\ CallGoes(s, "read", "upload")
    /\ \E v \in Verdict(s) : verdict' = [verdict EXCEPT ![s] = v]
    /\ UNCHANGED <<request, file, gone, pod, scriptVars, proxyVars>>

Upload(s) ==
    /\ CallGoes(s, "upload", "clean")
    /\ UNCHANGED <<request, file, gone, verdict, pod, scriptVars, proxyVars>>

\* The unlink may fail, and that goes unnoticed.
Clean(s) ==
    /\ CallGoes(s, "clean", "returned")
    /\ \/ /\ file' = [file EXCEPT ![s] = FALSE]
          /\ gone' = [gone EXCEPT ![s] = 0]
       \/ UNCHANGED <<file, gone>>
    /\ UNCHANGED <<request, verdict, pod, scriptVars, proxyVars>>

\* A step raises, the hung-container guard cancels the task, or the process
\* stops: nothing is cleaned up.
Raise(s) ==
    /\ call[s] \in {"podman", "kill", "remove", "read", "upload"}
    /\ call' = [call EXCEPT ![s] = "raised"]
    /\ UNCHANGED <<request, file, gone, verdict, pod, scriptVars, proxyVars>>

-----------------------------------------------------------------------------
(* The container                                                             *)

PodUp(s) ==
    /\ pod[s] = "pending"
    /\ pod' = [pod EXCEPT ![s] = "up"]
    /\ UNCHANGED <<request, callVars, scriptVars, proxyVars>>

\* It never comes up, or ends: its script has, or it is killed by anyone.
PodGone(s) ==
    /\ pod[s] \in {"pending", "up"}
    /\ pod' = [pod EXCEPT ![s] = "gone"]
    /\ UNCHANGED <<request, callVars, scriptVars, proxyVars>>

-----------------------------------------------------------------------------
(* The proxy: _load, _matches and request                                    *)

\* Faulty variant: every use of an entry makes it young again.
LoadSliding(s) ==
    IF cache[s].age < Ttl THEN [cache[s] EXCEPT !.age = 0]
    ELSE IF file[s] THEN [allow |-> request[s].allowed, age |-> 0]
    ELSE cache[s]

\* The entry to decide by: the young one, or what the file says, which is then
\* kept; or, without a file, none, and that is not kept.
Load(s) ==
    IF cache[s].age < Ttl THEN cache[s]
    ELSE IF file[s] THEN [allow |-> request[s].allowed, age |-> 0]
    ELSE cache[s]

\* The second try with a slash after both changes nothing.
Matches(u, patterns) == \E p \in patterns : <<u, p>> \in Fnmatch

LetsThrough(s, u) == Load(s).age < Ttl /\ Matches(u, Load(s).allow)

\* The sandbox asks for u; the header with its id is on every request.
Request(s, u) ==
    /\ cache' = [cache EXCEPT ![s] = Load(s)]
    /\ \/ /\ LetsThrough(s, u)
          /\ reached' = [reached EXCEPT ![s] = @ \cup {u}]
          /\ UNCHANGED refused
       \/ /\ ~LetsThrough(s, u)
          /\ refused' = [refused EXCEPT ![s] = @ \cup {u}]
          /\ UNCHANGED reached

Tick ==
    /\ gone' = [s \in Sandboxes |-> IF gone[s] < Ttl THEN gone[s] + 1 ELSE Ttl]
    /\ cache' = [s \in Sandboxes |->
                    IF cache[s].age < Ttl THEN [cache[s] EXCEPT !.age = @ + 1]
                    ELSE cache[s]]
    /\ reached' = [s \in Sandboxes |-> {}]
    /\ UNCHANGED <<request, call, file, verdict, pod, scriptVars, refused>>

-----------------------------------------------------------------------------
(* The script                                                                *)

At(s, label) == pod[s] = "up" /\ script[s] = label

\* The script leaves the try block with this status.
Ends(s, status) ==
    /\ script' = [script EXCEPT ![s] = "write"]
    /\ outcome' = [outcome EXCEPT ![s] = status]
    /\ UNCHANGED at

GoesOn(s) ==
    /\ script' = [script EXCEPT ![s] = "steps"]
    /\ at' = [at EXCEPT ![s] = @ + 1]
    /\ UNCHANGED outcome

ScriptOnly == UNCHANGED <<request, callVars, pod, result>>

Supported(s) == \A i \in DOMAIN Steps(s) : Steps(s)[i].keyword # "unsupported"

HasGoto(s) == \E i \in DOMAIN Steps(s) : Steps(s)[i].keyword = "goto"

\* Unsupported keywords end it at once; the browser may not start.
Start(s) ==
    /\ At(s, "start")
    /\ \/ Ends(s, "error")
       \/ /\ Supported(s)
          /\ script' = [script EXCEPT ![s] = IF request[s].target # NoUrl /\ ~HasGoto(s)
                                             THEN "target" ELSE "steps"]
          /\ UNCHANGED <<at, outcome>>
    /\ ScriptOnly
    /\ UNCHANGED proxyVars

\* The goto put before a test without one: whatever the answer, the test goes on.
OpenTarget(s) ==
    /\ At(s, "target")
    /\ Request(s, request[s].target)
    /\ \/ Ends(s, "error")
       \/ script' = [script EXCEPT ![s] = "steps"] /\ UNCHANGED <<at, outcome>>
    /\ ScriptOnly

AtStep(s, keyword) ==
    /\ At(s, "steps")
    /\ at[s] \in DOMAIN Steps(s)
    /\ Steps(s)[at[s]].keyword = keyword

\* Faulty variant: the answer's status is not looked at.
GotoAnything(s) ==
    /\ AtStep(s, "goto")
    /\ Request(s, Steps(s)[at[s]].url)
    /\ Ends(s, "error") \/ GoesOn(s)
    /\ ScriptOnly

\* 403 is the proxy's answer, another status of 400 or more the server's.
Goto(s) ==
    LET u == Steps(s)[at[s]].url IN
    /\ AtStep(s, "goto")
    /\ Request(s, u)
    /\ \/ Ends(s, "fail")
       \/ Ends(s, "error")
       \/ LetsThrough(s, u) /\ GoesOn(s)
    /\ ScriptOnly

\* The other keywords; an expectation also fails, any of them raises.
OtherStep(s) ==
    /\ \/ AtStep(s, "act") /\ (Ends(s, "error") \/ GoesOn(s))
       \/ AtStep(s, "expect") /\ (Ends(s, "fail") \/ Ends(s, "error") \/ GoesOn(s))
    /\ ScriptOnly
    /\ UNCHANGED proxyVars

\* What the page loads by itself.
Browse(s) ==
    /\ At(s, "steps")
    /\ \E u \in Urls : Request(s, u)
    /\ ScriptOnly
    /\ UNCHANGED <<script, at, outcome>>

\* wait_for fires, or the last screenshot is taken or raises.
Finish(s) ==
    /\ At(s, "steps")
    /\ \/ Ends(s, "timeout")
       \/ at[s] \notin DOMAIN Steps(s) /\ (Ends(s, "pass") \/ Ends(s, "error"))
    /\ ScriptOnly
    /\ UNCHANGED proxyVars

\* result.json is opened, and then written.
WriteResult(s) ==
    /\ \/ /\ At(s, "write")
          /\ script' = [script EXCEPT ![s] = "writing"]
          /\ result' = [result EXCEPT ![s] = "torn"]
       \/ /\ At(s, "writing")
          /\ script' = [script EXCEPT ![s] = "exit"]
          /\ result' = [result EXCEPT ![s] = outcome[s]]
    /\ UNCHANGED <<request, callVars, pod, at, outcome, proxyVars>>

-----------------------------------------------------------------------------

RunSandbox(s) ==
    \/ Prepare(s) \/ Return(s) \/ ClientTimeout(s) \/ ForceKill(s) \/ ReadResult(s)
    \/ Upload(s) \/ Clean(s) \/ Raise(s)

Script(s) ==
    \/ Start(s) \/ OpenTarget(s) \/ Goto(s) \/ OtherStep(s) \/ Browse(s) \/ Finish(s)
    \/ WriteResult(s)

Next ==
    \/ \E s \in Sandboxes : RunSandbox(s) \/ PodUp(s) \/ PodGone(s) \/ Script(s)
    \/ Tick

Spec == Init /\ [][Next]_vars

-----------------------------------------------------------------------------
(* Properties                                                                *)

Status == {"pass", "fail", "error", "timeout"}

SandboxTypeOK ==
    /\ request \in [Sandboxes -> Requests]
    /\ call \in [Sandboxes -> {"idle", "podman", "kill", "remove", "read", "upload",
                               "clean", "returned", "raised"}]
    /\ file \in [Sandboxes -> BOOLEAN]
    /\ gone \in [Sandboxes -> 0 .. Ttl]
    /\ verdict \in [Sandboxes -> Status \cup {"none"}]
    /\ pod \in [Sandboxes -> {"none", "pending", "up", "gone"}]
    /\ script \in [Sandboxes -> {"start", "target", "steps", "write", "writing", "exit"}]
    /\ at \in [Sandboxes -> Nat]
    /\ outcome \in [Sandboxes -> Status]
    /\ result \in [Sandboxes -> Status \cup {"none", "torn"}]
    /\ cache \in [Sandboxes -> [allow : SUBSET Patterns, age : 0 .. Ttl]]
    /\ reached \in [Sandboxes -> SUBSET Urls]
    /\ refused \in [Sandboxes -> SUBSET Urls]
    /\ \A s \in Sandboxes : at[s] <= Len(Steps(s)) + 1

Listed(s) == {u \in Urls : Matches(u, request[s].allowed)}

\* The allow-list of its run decides what a container reaches, however long it
\* outlives the run: nothing else ever, nothing at all once the file has been
\* gone for the time the proxy keeps an entry, and, as long as the file is
\* there, everything on the list.
EgressByList ==
    \A s \in Sandboxes :
        /\ reached[s] \subseteq Listed(s)
        /\ reached[s] # {} => file[s] \/ gone[s] < Ttl
        /\ file[s] => refused[s] \cap Listed(s) = {}

\* A run is reported as passed only if its script ran every step to the end,
\* each of them supported, and each page a step went to was on the allow-list:
\* not when the container was killed, when its result was cut short or read
\* while it was written, or when the proxy answered in the place of the page.
PassEarned ==
    \A s \in Sandboxes :
        verdict[s] = "pass" =>
            /\ at[s] = Len(Steps(s)) + 1
            /\ Supported(s)
            /\ \A i \in DOMAIN Steps(s) :
                  Steps(s)[i].keyword = "goto" => Steps(s)[i].url \in Listed(s)

=============================================================================
