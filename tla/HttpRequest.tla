----------------------------- MODULE HttpRequest -----------------------------
(***************************************************************************)
(* util.httpRequest of src/lib/util/util.js, as iControlRequest calls it:  *)
(* a request that is sent again after a network error, when the server is  *)
(* busy (503) and when it redirects.                                       *)
(*                                                                         *)
(* What is asked, and what the server does and replies, is up to the       *)
(* module that extends this one.                                           *)
(***************************************************************************)
EXTENDS Naturals

CONSTANTS Options,      \* of iControlRequest, with the defaults of httpRequest
          MaxDetours    \* bound on the redirects and 503s of a run

ASSUME HttpAssumption ==
    /\ Options.maxRedirects \in Nat
    /\ Options.retryNetError \in Nat
    /\ Options.retry503 \in BOOLEAN
    /\ MaxDetours \in Nat

VARIABLES http,     \* the request
          detours   \* redirects and 503s of all requests

httpVars == <<http, detours>>

Phases == {"idle",
           "send",      \* about to be sent
           "sent",      \* on its way
           "served",    \* handled by the server
           "resolved", "rejected"}

Hosts == {"first", "other"}
None  == [is |-> "none"]

Idle == [phase     |-> "idle",
         what      |-> "none",     \* the request, for the server
         method    |-> "GET",
         redirects |-> 0,          \* maxRedirects
         netErrors |-> 0,          \* retryNetError
         followed  |-> 0,          \* redirects and 503s of this request
         host      |-> "first",
         tokens    |-> TRUE,       \* whether it has the tokens
         result    |-> None]       \* the reply or the error

HttpInit == http = Idle /\ detours = 0

(* Less than one redirect becomes two, in the first attempt of a request   *)
(* with retry503 and in every later one of any request, which finds that   *)
(* retry503 is a number.                                                   *)
Allowed(redirects) == IF redirects < 1 THEN 2 ELSE redirects
AllowedFirst == IF Options.retry503 THEN Allowed(Options.maxRedirects) ELSE Options.maxRedirects

(* A new request; every option has its default now.                        *)
Request(what, method) ==
    http' = [Idle EXCEPT !.phase = "send", !.what = what, !.method = method,
                         !.redirects = AllowedFirst,
                         !.netErrors = Options.retryNetError]

Send ==
    /\ http.phase = "send"
    /\ http' = [http EXCEPT !.phase = "sent"]
    /\ UNCHANGED detours

(* The server handles the request.                                         *)
Serve(reply) ==
    /\ http.phase = "sent"
    /\ http' = [http EXCEPT !.phase = "served", !.result = reply]
    /\ UNCHANGED detours

(* The reply: a body, or an error if the status is one.                    *)
Deliver ==
    /\ http.phase = "served"
    /\ http' = [http EXCEPT !.phase = IF http.result.is = "error" THEN "rejected" ELSE "resolved"]
    /\ UNCHANGED detours

(* Mutant of NetworkError: the attempts are not counted. *)
NetworkErrorForEver ==
    /\ http.phase \in {"sent", "served"}
    /\ http' = [http EXCEPT !.phase = "send", !.result = None]
    /\ UNCHANGED detours

(* An error of the connection or a timeout, before or after the server has *)
(* handled the request, which is sent once more.                           *)
NetworkError ==
    /\ http.phase \in {"sent", "served"}
    /\ http' = IF http.netErrors > 0
               THEN [http EXCEPT !.phase = "send", !.result = None,
                                 !.netErrors = @ - 1, !.redirects = Allowed(@)]
               ELSE [http EXCEPT !.phase = "rejected",
                                 !.result = [is |-> "error", of |-> "network"]]
    /\ UNCHANGED detours

(* Mutant of Follow: every host gets the tokens. *)
FollowWithTokens(host, method) ==
    [http EXCEPT !.phase = "send", !.redirects = Allowed(@ - 1), !.method = method,
                 !.followed = @ + 1, !.host = host]

(* The request at the new location, without tokens if the host is another. *)
Follow(host, method) ==
    [http EXCEPT !.phase = "send", !.redirects = Allowed(@ - 1), !.method = method,
                 !.followed = @ + 1, !.host = host,
                 !.tokens = @ /\ host = http.host]

Detour == detours < MaxDetours /\ detours' = detours + 1

(* A redirect; 303 makes a GET of the request.                             *)
Redirected ==
    /\ http.phase = "sent"
    /\ IF http.redirects < 1
       THEN /\ http' = [http EXCEPT !.phase = "rejected",
                                    !.result = [is |-> "error", of |-> "redirect"]]
            /\ UNCHANGED detours
       ELSE /\ Detour
            /\ \E host \in Hosts, method \in {http.method, "GET"} : http' = Follow(host, method)

(* 503: the same URL once more, after a pause.                             *)
Busy ==
    /\ http.phase = "sent"
    /\ Options.retry503
    /\ Detour
    /\ http' = Follow(http.host, http.method)

-----------------------------------------------------------------------------
(* The tokens are sent only to the first host.                             *)
TokensStayWithHost == http.tokens => http.host = "first"

=============================================================================
