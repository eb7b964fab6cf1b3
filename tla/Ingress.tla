------------------------------ MODULE Ingress ------------------------------
(***************************************************************************)
(* The HTTP edge (src/ingress/app.py) before the request service: how the  *)
(* server comes up, the shutdown middleware, the checks of a request body, *)
(* the handler of each request until its response has ended, the status    *)
(* each client is given, and the readiness probe.                          *)
(*                                                                         *)
(* RequestService stands for the processor: Pipeline implements it, so     *)
(* what is shown here holds for the pipeline behind it.                    *)
(***************************************************************************)
EXTENDS RequestService, EnvFile, Integers

CONSTANTS Argvs  \* bound: the command lines a start may have

\* A body may be no JSON at all, an array (or another value that is no object),
\* or an object.
Forms == {"garbled", "array", "object"}

ASSUME IngressAssumption == Argvs \subseteq Seq(Arguments) /\ None \notin Forms

VARIABLES
  server,  \* down, built (create_app has returned), up, or failed
  launch,  \* what the start reads: command line, variables, files
  envFile, \* the file the configuration was read from, until the server is up
  stage,   \* how far the handler of each request is
  form,    \* what form its body turned out to have, None until it is read
  status,  \* the HTTP status its client has seen, 0 before
  probe    \* the last answer of /ready

edgeVars == <<server, launch, envFile, stage, form, status, probe>>
vars == <<edgeVars, serviceVars>>

\* A command line, SMART_PROVIDER_ENV_FILE, the variable of one setting, and
\* what each file holds for it.
Launches == [argv : Argvs, variable : {None, Blank} \cup Paths,
             environment : {None} \cup Values,
             content : [Paths \cup {DefaultFile} -> Contents]]

Files(l) == {p \in Paths : l.content[p] # "absent"}

Init ==
  /\ ServiceInit
  /\ server = "down"
  /\ launch \in Launches
  /\ envFile = None
  /\ stage = [r \in Requests |-> "none"]
  /\ form = [r \in Requests |-> None]
  /\ status = [r \in Requests |-> 0]
  /\ probe = "none"
-----------------------------------------------------------------------------
(* Coming up. *)

\* create_app: a missing explicit file or an unsound value ends the process.
Build ==
  LET file == ResolveEnvFile(launch.argv, launch.variable, Files(launch))
  IN  /\ server = "down"
      /\ IF file # NotFound /\ InForce(launch.environment, launch.content[file]) = "sound"
         THEN server' = "built" ELSE server' = "failed"
      /\ envFile' = file
      /\ launch' = None
      /\ UNCHANGED <<stage, form, status, probe, serviceVars>>

\* The lifespan starts the worker.  The settings in force are the constants of
\* the modules from here on.
Start ==
  /\ server = "built"
  /\ server' = "up" /\ envFile' = None
  /\ UNCHANGED <<launch, stage, form, status, probe, serviceVars>>
-----------------------------------------------------------------------------
(* The status of a response. *)

\* Defect: a Timeout is one more connection error.
StatusByFamily(e) ==
  CASE e = "BadRequestError" -> 400
    [] e = "NotFoundError"   -> 404
    [] e = "RateLimitError"  -> 429
    [] e \in {"Timeout", "APIConnectionError", "APIError"} -> 502
    [] e = "ServiceUnavailableError" -> 503
    [] OTHER -> 500

\* _status_code_for_litellm_exception, and 500 for what has no handler.
StatusOf(e) ==
  CASE e = "BadRequestError" -> 400
    [] e = "NotFoundError"   -> 404
    [] e = "RateLimitError"  -> 429
    [] e = "Timeout"         -> 504
    [] e \in {"APIConnectionError", "APIError"} -> 502
    [] e = "ServiceUnavailableError" -> 503
    [] OTHER -> 500

Ends(r, code) ==
  /\ stage' = [stage EXCEPT ![r] = "ended"]
  /\ status' = [status EXCEPT ![r] = code]
-----------------------------------------------------------------------------
(* The door. *)

ShuttingDown == phase # "serving"

\* The middleware looks at the flag before the body is read.
Arrive(r) ==
  /\ server = "up" /\ stage[r] = "none"
  /\ IF ShuttingDown THEN Ends(r, 503)
     ELSE stage' = [stage EXCEPT ![r] = "body"] /\ UNCHANGED status
  /\ UNCHANGED <<server, launch, envFile, form, probe, serviceVars>>

\* What the checks tell apart in a body: does it parse and to an object, is
\* there a model name that litellm can route, are there messages, and are the
\* remaining declared fields well-formed.
Bodies == [form : Forms,
           model : {"missing", "unknown", "known"},
           messages : {"missing", "empty", "some"},
           fields : {"bad", "good"}]

\* SmartProviderCompletionRequest(**raw_body) raises ValidationError.
Invalid(b) == b.model = "missing" \/ b.messages = "missing" \/ b.fields = "bad"

\* The checks of chat_completions in their order; the first that fails decides.
Verdict(b) ==
  CASE b.form # "object"      -> StatusOf("Other")
    [] Invalid(b)             -> StatusOf("BadRequestError")
    [] b.messages = "empty"   -> StatusOf("BadRequestError")
    [] b.model = "unknown"    -> StatusOf("NotFoundError")
    [] OTHER                  -> 200

TurnAway(r) ==
  /\ stage[r] = "body"
  /\ \E b \in Bodies : /\ Verdict(b) # 200 /\ Ends(r, Verdict(b))
                        /\ form' = [form EXCEPT ![r] = b.form]
  /\ UNCHANGED <<server, launch, envFile, probe, serviceVars>>

\* The body is in and sound: submit() or submit_stream(), which look at the flag
\* again.  The headers of a stream are sent at once.
Enter(r) ==
  /\ stage[r] = "body"
  /\ \/ /\ Admit(r)
        /\ stage' = [stage EXCEPT ![r] = "open"]
        /\ status' = [status EXCEPT ![r] = IF r \in Streams THEN 200 ELSE 0]
     \/ /\ Refuse(r)
        /\ Ends(r, StatusOf("ServiceUnavailableError"))
  /\ form' = [form EXCEPT ![r] = "object"]
  /\ UNCHANGED <<server, launch, envFile, probe>>
-----------------------------------------------------------------------------
(* The handler of a request that was admitted. *)

\* The Future is done before wait_for gives up.
Respond(r) ==
  /\ r \in Plain /\ stage[r] = "open" /\ answer[r] \in Outcomes
  /\ Ends(r, IF answer[r] = "ok" THEN 200 ELSE StatusOf(answer[r]))
  /\ UNCHANGED <<server, launch, envFile, form, probe, serviceVars>>

\* Defect: the deadline is only kept while the worker runs.
TimeoutWhileServing(r) ==
  /\ r \in Plain /\ stage[r] = "open" /\ ~ ShuttingDown
  /\ Abandon(r)
  /\ Ends(r, StatusOf("Timeout"))
  /\ UNCHANGED <<server, launch, envFile, form, probe>>

\* wait_for gives up after max_wait_time_ms.  Since Python 3.12 it does so also
\* when the Future was done in the same iteration of the loop.
Timeout(r) ==
  /\ r \in Plain /\ stage[r] = "open"
  /\ \/ Abandon(r)
     \/ answer[r] \in Outcomes /\ UNCHANGED serviceVars
  /\ Ends(r, StatusOf("Timeout"))
  /\ UNCHANGED <<server, launch, envFile, form, probe>>

\* The generator of a stream meets the end: an error is an event of the stream,
\* and the status stays what it was.
EndStream(r) ==
  /\ r \in Streams /\ stage[r] = "open"
  /\ Hear(r)
  /\ Ends(r, status[r])
  /\ UNCHANGED <<server, launch, envFile, form, probe>>

Disconnect(r) ==
  /\ r \in Streams /\ stage[r] = "open"
  /\ Abandon(r)
  /\ Ends(r, status[r])
  /\ UNCHANGED <<server, launch, envFile, form, probe>>
-----------------------------------------------------------------------------
(* The worker, the lifespan and the probe. *)

Serve == /\ server = "up"
         /\ Take \/ Send \/ (\E o \in Outcomes : Finish(o))
         /\ UNCHANGED edgeVars

Lifespan == /\ server = "up"
            /\ CloseDoor \/ Halt
            /\ UNCHANGED edgeVars

\* /ready: a worker that does not run is never seen, because the flag is set
\* before the worker is stopped.
Ready ==
  /\ server = "up"
  /\ probe' = IF ShuttingDown THEN "shutting_down" ELSE "ready"
  /\ UNCHANGED <<server, launch, envFile, stage, form, status, serviceVars>>

\* A process that failed to start is gone.
Exited == server = "failed" /\ UNCHANGED vars

Next ==
  \/ Build \/ Start \/ Serve \/ Lifespan \/ Ready \/ Exited
  \/ \E r \in Requests : \/ Arrive(r) \/ TurnAway(r) \/ Enter(r) \/ Respond(r)
                         \/ Timeout(r) \/ EndStream(r) \/ Disconnect(r)

Spec == Init /\ [][Next]_vars

(* The event loop runs what is ready: a done Future wakes its handler, a timer
   fires, a closed handle wakes its generator; and the worker comes back to its
   line, which is what ServiceServes shows of Pipeline.  Nobody need call, send
   a body, or probe, and the server need not stop. *)
Fairness ==
  /\ \A r \in Requests : WF_vars(Respond(r) \/ Timeout(r)) /\ WF_vars(EndStream(r))
  /\ WF_vars(Serve)

FairSpec == Spec /\ Fairness
-----------------------------------------------------------------------------
(* Properties. *)

TypeOK ==
  /\ server \in {"down", "built", "up", "failed"}
  /\ server = "down" => launch \in Launches
  /\ envFile \in Paths \cup {DefaultFile, NotFound, None}
  /\ stage \in [Requests -> {"none", "body", "open", "ended"}]
  /\ form \in [Requests -> Forms \cup {None}]
  /\ status \in [Requests -> {0, 200, 400, 404, 429, 500, 502, 503, 504}]
  /\ probe \in {"none", "ready", "shutting_down"}
  /\ phase \in {"serving", "draining", "stopped"}
  /\ waiting \in Seq(Requests) /\ Len(waiting) <= Capacity
  /\ inHand \in Requests \cup {None} /\ sent \in BOOLEAN
  /\ answer \in [Requests -> {"none", "refused", "pending", "gone"} \cup Outcomes]
  /\ heard \subseteq Streams

InLine(r) == \E i \in DOMAIN waiting : waiting[i] = r

\* A handler that waits is owed an answer by somebody: its request is in the
\* line or in the worker's hand, unless the worker was stopped; and a request
\* that was turned away before the line (app.py:233-259, 292) is in neither.
HandlersAreOwed ==
  \A r \in Requests :
    /\ stage[r] = "open" /\ answer[r] = "pending"
         => InLine(r) \/ inHand = r \/ phase = "stopped"
    /\ InLine(r) \/ inHand = r => answer[r] \notin {"none", "refused"}
    /\ stage[r] \in {"none", "body"} => answer[r] = "none"

\* The status a client has seen agrees with what became of its request,
\* whatever happened since: 503 if it came too late or was refused
\* (docs/ingress.md:10), 400 or 404 if its body was an object that the checks
\* reject, 200 for an upstream answer alone, 504 when its time was up (openspec
\* request-pipeline:53), 429 only when the upstream said so; a stream that was
\* admitted stays 200 (app.py:172-183, 233-259, 284-322).  What a body that is no
\* JSON, or no object, should be answered with is not said here: the code's 500 is
\* not what the documents want.
StatusTellsTheTruth ==
  \A r \in Requests : stage[r] = "ended" =>
    /\ answer[r] = "refused" => status[r] = 503
    /\ answer[r] = "none" /\ form[r] = None => status[r] = 503
    /\ answer[r] = "none" /\ form[r] = "object" => status[r] \in {400, 404}
    /\ r \in Streams /\ answer[r] \notin {"none", "refused"} => status[r] = 200
    /\ r \in Plain =>
         /\ status[r] = 200 => answer[r] = "ok"
         /\ status[r] = 429 => answer[r] = "RateLimitError"
         /\ answer[r] \in {"gone", "Timeout"} => status[r] = 504
         /\ answer[r] = "ok" => status[r] \in {200, 504}

\* Once a probe was told that the server is shutting down, no request enters,
\* not even one whose body was being read then (app.py:149-162, 210-214, 233).
UnreadyMeansClosed ==
  [][probe = "shutting_down" =>
       \A r \in Requests : answer[r] = "none" => answer'[r] \in {"none", "refused"}]_vars

\* A start reads the env file that the documents promise, and comes up unless
\* that file is explicit and missing or the value that wins is unsound
\* (docs/configuration.md:9, 16-31, 55-68).
BootHonoursTheRequest ==
  [][server = "down" =>
       /\ Honours(launch.argv, launch.variable, Files(launch), envFile')
       /\ server' = "built" <=>
            /\ envFile' # NotFound
            /\ \/ launch.environment = "sound"
               \/ launch.environment = None /\ launch.content[envFile'] # "unsound"]_vars

\* The handler of every admitted request comes to its end, also when the
\* worker is stopped under it; only the reader of a stream may then be left
\* waiting (app.py:291-303, 351; processor.py:190-197).
EveryHandlerReturns ==
  \A r \in Requests :
    stage[r] = "open" ~> stage[r] = "ended" \/ (r \in Streams /\ phase = "stopped")
=============================================================================
