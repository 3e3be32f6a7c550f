---------------------------- MODULE ProviderRouter ----------------------------
(***************************************************************************)
(* One request to a language model: the router (generation/router.go) asks *)
(* the eligible providers one after the other, and each is asked through   *)
(* the OpenAI-compatible adapter (openaicompat/adapter.go), which repeats  *)
(* its call without a field that the provider does not know.  The caller   *)
(* is a job of ProblemPipeline; its client may leave at any time.          *)
(***************************************************************************)
EXTENDS Naturals, Sequences, FiniteSets, SequencesExt

CONSTANTS
    Order,      \* the configured providers, in priority order
    Streamers,  \* those that can stream
    None        \* no provider

Providers == Range(Order)

\* NewRouter refuses an empty list and a provider named twice.
ASSUME RouterAssumption ==
    /\ Order # <<>>
    /\ IsInjective(Order)
    /\ Streamers \subseteq Providers
    /\ None \notin Providers

VARIABLES
    call,  \* the request in flight
    gone   \* whether the client has left: its context is cancelled

routerVars == <<call, gone>>

-----------------------------------------------------------------------------

\* The preferred provider is asked first; an empty set of allowed ones allows all.
Policy == [preferred : Providers \union {None}, allowed : SUBSET Providers]

AnyProvider == [preferred |-> None, allowed |-> {}]

Earlier(p, q) == \E i, j \in DOMAIN Order : i < j /\ Order[i] = p /\ Order[j] = q

Routes == UNION {[1..n -> Providers] : n \in 0..Len(Order)}

IsRoute(route, policy) ==
    /\ IsInjective(route)
    /\ Range(route) = {p \in Providers : policy.allowed = {} \/ p \in policy.allowed}
    /\ \A i, j \in DOMAIN route : i < j =>
         /\ route[j] # policy.preferred
         /\ route[i] = policy.preferred \/ Earlier(route[i], route[j])

(***************************************************************************)
(* at is the position in route of the provider that is asked.  body is     *)
(* what the adapter has dropped from its request so far.  spoke are the    *)
(* providers that answered this request with content.                      *)
(***************************************************************************)
Bodies == {"whole", "no format", "new limit"}

Call ==
    [pc : {"idle", "route", "send", "stream", "done"}, stream : BOOLEAN,
     route : Seq(Providers), at : Nat \ {0}, body : Bodies,
     spoke : SUBSET Providers, result : {"none", "object", "invalid", "error"}]

Idle ==
    [pc |-> "idle", stream |-> FALSE, route |-> <<>>, at |-> 1, body |-> "whole",
     spoke |-> {}, result |-> "none"]

RouterTypeOK ==
    /\ call \in Call
    /\ call.at <= Len(call.route) + 1
    /\ gone \in BOOLEAN

RouterInit == call = Idle /\ gone = FALSE

\* The request that a caller makes, to the providers that its policy admits.
Asked(policy, stream) ==
    \E route \in Routes :
        /\ IsRoute(route, policy)
        /\ call' = [Idle EXCEPT !.pc = "route", !.stream = stream, !.route = route]

Asking == call.route[call.at]

Return(result) == call' = [call EXCEPT !.pc = "done", !.result = result]

-----------------------------------------------------------------------------

(***************************************************************************)
(* Router.Generate and Router.Stream take up the next provider.  Only      *)
(* Generate looks at the context first; only Stream passes over a provider *)
(* that cannot do it.                                                      *)
(***************************************************************************)
GiveUp ==
    /\ call.pc = "route"
    /\ \/ call.at > Len(call.route)
       \/ gone /\ ~call.stream
    /\ Return("error")
    /\ UNCHANGED gone

PassOver ==
    /\ call.pc = "route"
    /\ call.stream
    /\ call.at <= Len(call.route)
    /\ Asking \notin Streamers
    /\ call' = [call EXCEPT !.at = @ + 1]
    /\ UNCHANGED gone

Take ==
    /\ call.pc = "route"
    /\ call.at <= Len(call.route)
    /\ IF call.stream
       THEN Asking \in Streamers /\ call' = [call EXCEPT !.pc = "stream"]
       ELSE ~gone /\ call' = [call EXCEPT !.pc = "send", !.body = "whole"]
    /\ UNCHANGED gone

Fallback == call' = [call EXCEPT !.pc = "route", !.at = @ + 1]

-----------------------------------------------------------------------------

(***************************************************************************)
(* Adapter.Generate.  The message has a JSON value in it, fenced or not:   *)
(* extractJSON finds it.                                                   *)
(***************************************************************************)
Content(result) ==
    /\ call.pc = "send"
    /\ call' = [call EXCEPT !.pc = "done", !.spoke = @ \union {Asking}, !.result = result]
    /\ UNCHANGED gone

AnswersObject == Content("object")

\* Slip: an invalid output is a failure like any other.
SlipAnswersProse ==
    /\ call.pc = "send"
    /\ call' = [call EXCEPT !.pc = "route", !.at = @ + 1, !.spoke = @ \union {Asking}]
    /\ UNCHANGED gone

\* An InvalidOutputError: the message is empty or not JSON.
AnswersProse == Content("invalid")

(***************************************************************************)
(* A 400 that names response_format is answered by the same request        *)
(* without it, and then one that names max_tokens by the request with      *)
(* max_completion_tokens; the two are tried in this order only.            *)
(***************************************************************************)
RejectsFormat ==
    /\ call.pc = "send"
    /\ IF call.body = "whole"
       THEN call' = [call EXCEPT !.body = "no format"]
       ELSE Fallback
    /\ UNCHANGED gone

\* Slip: the limit is swapped for as long as the provider rejects it.
SlipRejectsLimit ==
    /\ call.pc = "send"
    /\ call' = [call EXCEPT !.body = IF @ = "new limit" THEN "whole" ELSE "new limit"]
    /\ UNCHANGED gone

RejectsLimit ==
    /\ call.pc = "send"
    /\ IF call.body # "new limit"
       THEN call' = [call EXCEPT !.body = "new limit"]
       ELSE Fallback
    /\ UNCHANGED gone

\* No connection, another status, no JSON in the response, or no choices in it.
SendFails ==
    /\ call.pc = "send"
    /\ Fallback
    /\ UNCHANGED gone

-----------------------------------------------------------------------------

\* Adapter.Stream passes every delta on, as long as the client takes it.
Emits ==
    /\ call.pc = "stream"
    /\ ~gone
    /\ call' = [call EXCEPT !.spoke = @ \union {Asking}]
    /\ UNCHANGED gone

\* The end of the body is the end of the answer, with or without [DONE].
StreamEnds ==
    /\ call.pc = "stream"
    /\ Return("object")
    /\ UNCHANGED gone

\* A failure before, while or after text was passed on.
StreamFails ==
    /\ call.pc = "stream"
    /\ IF Asking \in call.spoke \/ gone THEN Return("error") ELSE Fallback
    /\ UNCHANGED gone

-----------------------------------------------------------------------------

RouterStep ==
    \/ GiveUp \/ PassOver \/ Take
    \/ AnswersObject \/ AnswersProse \/ RejectsFormat \/ RejectsLimit \/ SendFails
    \/ Emits \/ StreamEnds \/ StreamFails

\* The browser closes the request.
ClientLeaves ==
    /\ ~gone
    /\ gone' = TRUE
    /\ UNCHANGED call

(***************************************************************************)
(* A learner never gets two answers to one request: at most one provider   *)
(* has answered it with content, in a stream or in a structured answer, so *)
(* that no text is repeated by the next provider and no credit is spent on *)
(* a second opinion (router.go:92-102, 121-122, 154-156).                  *)
(***************************************************************************)
OneVoice == Cardinality(call.spoke) <= 1
=============================================================================
