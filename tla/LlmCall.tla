------------------------------- MODULE LlmCall -------------------------------
(***************************************************************************)
(* One call of a language model (infrastructure/llm): the configuration is *)
(* resolved, the context cut and masked, the request posted and, while the *)
(* failure looks transient, posted again after a pause; the answer is      *)
(* parsed.  run_rca and run_ask are alike in this.                         *)
(***************************************************************************)
EXTENDS Naturals, FiniteSets

CONSTANTS
    Retries,          \* HttpTransport.retries
    Anomalies,        \* how many anomalies a caller may pass: a set of numbers
    MaxAnomalyLines   \* MAX_ANOMALY_LINES

VARIABLES
    config,    \* the settings found in options and environment
    anomalies,
    pc,        \* resolve, context, post, pause, parse or done
    attempt,   \* counts from 0
    served,    \* history: a request has reached the provider
    codes,     \* history: failures met
    slept,     \* history: seconds of pauses
    sent,      \* anomalies_sent
    outcome    \* none, report, nothing, LLMError or other (a bare exception)

vars == <<config, anomalies, pc, attempt, served, codes, slept, sent, outcome>>

Settings == [provider : {"none", "other", "openai", "groq", "azure"}, key : BOOLEAN,
             model : BOOLEAN, endpoint : BOOLEAN, deployment : BOOLEAN]
Retryable == {429, 500, 502, 503, 504}
Status == Retryable \cup {400, 401, 403, 404}

Init ==
    /\ config \in Settings /\ anomalies \in Anomalies
    /\ pc = "resolve" /\ attempt = 0 /\ served = FALSE /\ codes = {} /\ slept = 0
    /\ sent = 0 /\ outcome = "none"

Done(result) == pc' = "done" /\ outcome' = result
Goto(label) == pc' = label /\ UNCHANGED outcome

\* Mutant of Configured: a missing deployment is found out by the provider.
ConfiguredLoosely(c) == c.provider \in {"openai", "groq", "azure"} /\ c.key
\* LLMConfig.from_env: azure takes the model's name for a missing deployment.
Configured(c) ==
    /\ c.provider \in {"openai", "groq", "azure"} /\ c.key
    /\ c.provider = "azure" => c.endpoint /\ (c.deployment \/ c.model)

Resolve ==
    /\ pc = "resolve"
    /\ IF Configured(config) THEN Goto("context") ELSE Done("LLMError")
    /\ UNCHANGED <<config, anomalies, attempt, served, codes, slept, sent>>

\* build_rca_context; without anomalies nothing is asked.
Context ==
    /\ pc = "context"
    /\ IF anomalies = 0 THEN Done("nothing") /\ UNCHANGED sent
       ELSE /\ Goto("post")
            /\ sent' = IF anomalies < MaxAnomalyLines THEN anomalies ELSE MaxAnomalyLines
    /\ UNCHANGED <<config, anomalies, attempt, served, codes, slept>>

\* The provider answers; its answer need not be JSON.
Answered ==
    /\ pc = "post" /\ served' = TRUE
    /\ Goto("parse") \/ Done("other")
    /\ UNCHANGED <<config, anomalies, attempt, codes, slept, sent>>

\* Mutants of Again: one retry too many; every status is tried again.
AgainOnceMore(code) == code \in Retryable /\ attempt <= Retries
AgainAlways(code) == attempt < Retries
Again(code) == code \in Retryable /\ attempt < Retries

\* HTTPError, with the provider's explanation of it.
HttpError ==
    /\ pc = "post" /\ served' = TRUE
    /\ \E code \in Status :
          /\ codes' = codes \cup {code}
          /\ IF Again(code) THEN Goto("pause") ELSE Done("LLMError")
    /\ UNCHANGED <<config, anomalies, attempt, slept, sent>>

\* URLError, or OSError: no connection, or a timeout while the provider works
\* on the request or sends its answer.
NetworkError ==
    /\ pc = "post" /\ served' \in {served, TRUE}
    /\ IF attempt < Retries THEN Goto("pause") ELSE Done("LLMError")
    /\ UNCHANGED <<config, anomalies, attempt, codes, slept, sent>>

\* 2 to the power of k
Backoff[k \in Nat] == IF k = 0 THEN 1 ELSE 2 * Backoff[k - 1]

\* Mutant of Pause: the loop does not count.
PauseUncounted ==
    /\ pc = "pause" /\ Goto("post")
    /\ UNCHANGED <<config, anomalies, attempt, served, codes, slept, sent>>
Pause ==
    /\ pc = "pause"
    /\ slept' = slept + Backoff[attempt] /\ attempt' = attempt + 1
    /\ Goto("post")
    /\ UNCHANGED <<config, anomalies, served, codes, sent>>

\* parse_response: KeyError when the answer has no choices.
Parse ==
    /\ pc = "parse"
    /\ Done("report") \/ Done("other")
    /\ UNCHANGED <<config, anomalies, attempt, served, codes, slept, sent>>

Next == Resolve \/ Context \/ Answered \/ HttpError \/ NetworkError \/ Pause \/ Parse

\* A call is sequential code; the request has a timeout.
Fairness == WF_vars(Next)
Spec == Init /\ [][Next]_vars /\ Fairness
----------------------------------------------------------------------------
TypeOK ==
    /\ config \in Settings /\ attempt \in 0 .. Retries
    /\ served \in BOOLEAN /\ sent <= anomalies
    /\ outcome \in {"none", "report", "nothing", "LLMError", "other"}

\* A caller's error (400, 401, 403, 404) is never tried again: it ends the call
\* at once, with the pauses 1, 2, 4, ... of the transient ones before it only,
\* whose sum is one second less than the next pause.
TransientOnly ==
    /\ codes \ Retryable # {} => pc = "done" /\ outcome = "LLMError"
    /\ slept = Backoff[attempt] - 1

\* Nothing leaves the machine unless the settings are complete and there is an
\* anomaly to ask about, and never more than MAX_ANOMALY_LINES of them.
NothingSentInVain ==
    /\ served => /\ anomalies > 0 /\ config.key
                 /\ config.provider = "azure"
                      => config.endpoint /\ (config.deployment \/ config.model)
    /\ sent <= MaxAnomalyLines

\* Every call ends with a report or an error.
CallEnds == <>(outcome # "none")
============================================================================
