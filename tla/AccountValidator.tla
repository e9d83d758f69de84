-------------------------- MODULE AccountValidator --------------------------
(***************************************************************************)
(* The search for the servers that accept an account                        *)
(* (core/provider/MCAccountValidator.cpp): the provider is found by the     *)
(* address or by the mail exchanger of its domain, then the servers of each *)
(* service are tried one after the other.                                   *)
(*                                                                         *)
(* Everything here runs on the main thread but the resolver and the         *)
(* operation that tries a server: their queues post the result, and drop    *)
(* that of an operation that was cancelled.  The number of a server is its  *)
(* place in the array of its service, from 1; 0 stands for NULL.            *)
(***************************************************************************)
EXTENDS Integers, Sequences, SequencesExt

CONSTANT Counts         \* how many servers may be given for a service

IMAP == 0
POP == 1
SMTP == 2
Services == {IMAP, POP, SMTP}
Answers == {"None", "Authentication", "Connection", "Certificate"}
Addresses == {"missing", "without domain", "of a provider", "unknown"}

VARIABLES
    account,        \* the address, what is enabled, and the servers that are known
    started, cancelled,
    timer,          \* resolveMXTimeout is scheduled
    resolver,       \* the operation of mResolveMX
    services,       \* mImapServices, mPopServices, mSmtpServices: how many
    mError, mServer,            \* of each service
    mCurrentServiceTested, mCurrentServiceIndex,
    operation,      \* the one that tries a server
    answers,        \* of the servers of each service, in the order they were tried
    completions     \* calls of the validator's callback

search == <<services, mError, mServer, mCurrentServiceTested, mCurrentServiceIndex, operation,
            completions>>
vars == <<account, started, cancelled, timer, resolver, search, answers>>

Idle == [state |-> "none", cancelled |-> FALSE, error |-> "None"]

Init ==
    /\ account \in [address : Addresses, enabled : SUBSET Services, password : BOOLEAN,
                    given : [Services -> Counts], provided : Counts]
    /\ started = FALSE /\ cancelled = FALSE
    /\ timer = FALSE
    /\ resolver = [state |-> "none", cancelled |-> FALSE, found |-> FALSE]
    /\ services = account.given
    /\ mError = [s \in Services |-> "None"] /\ mServer = [s \in Services |-> 0]
    /\ mCurrentServiceTested = IMAP /\ mCurrentServiceIndex = 0
    /\ operation = Idle
    /\ answers = [s \in Services |-> <<>>]
    /\ completions = 0

-----------------------------------------------------------------------------
(* checkNextHost *)

Complete ==
    /\ completions' = completions + 1
    /\ operation' = [operation EXCEPT !.state = "none"]

(* Server i of service s, or the first of the next service that is enabled  *)
(* and has servers.  When those of a service are used up the search ends,   *)
(* without the services after it.                                           *)
CheckNextHost(count, s, i) ==
    LET open == {t \in Services : t >= s /\ t \in account.enabled /\ count[t] > 0}
        t == CHOOSE u \in open : \A v \in open : u <= v
        index == IF t = s THEN i ELSE 0
    IN  IF open = {} THEN
            /\ mCurrentServiceTested' = SMTP + 1 /\ mCurrentServiceIndex' = 0
            /\ Complete
            /\ UNCHANGED mServer
        ELSE
            /\ mCurrentServiceTested' = t /\ mCurrentServiceIndex' = index
            /\ IF index < count[t]
               THEN /\ operation' = [Idle EXCEPT !.state = "running"]
                    /\ mServer' = [mServer EXCEPT ![t] = index + 1]
                    /\ UNCHANGED completions
               ELSE Complete /\ mServer' = [mServer EXCEPT ![t] = 0]

(* Servers that were given are kept, those of the provider fill the rest.   *)
SetupServices(provider) ==
    [s \in Services |-> IF services[s] = 0 /\ provider THEN account.provided ELSE services[s]]

StartCheckingHosts(provider) ==
    LET count == SetupServices(provider)
    IN  /\ services' = count
        /\ IF account.password THEN
              /\ mError' = [s \in Services |->
                               IF s \in account.enabled /\ count[s] = 0 THEN "NoValidServerFound"
                               ELSE mError[s]]
              /\ CheckNextHost(count, mCurrentServiceTested, mCurrentServiceIndex)
           ELSE
              /\ Complete
              /\ UNCHANGED <<mError, mServer, mCurrentServiceTested, mCurrentServiceIndex>>

-----------------------------------------------------------------------------
(* start and the resolver *)

(* An account with neither an address nor a user name is left alone.        *)
Start ==
    /\ ~ started /\ ~ cancelled
    /\ started' = TRUE
    /\ \/ account.address = "missing" /\ UNCHANGED <<timer, resolver, search>>
       \/ account.address = "of a provider" /\ StartCheckingHosts(TRUE) /\ UNCHANGED <<timer, resolver>>
       \/ /\ account.address = "without domain"
          /\ mError' = [s \in Services |-> "NoValidServerFound"]
          /\ Complete
          /\ UNCHANGED <<timer, resolver, services, mServer, mCurrentServiceTested, mCurrentServiceIndex>>
       \/ /\ account.address = "unknown"
          /\ timer' = TRUE
          /\ resolver' = [resolver EXCEPT !.state = "running"]
          /\ UNCHANGED search
    /\ UNCHANGED <<account, cancelled, answers>>

(* The thread of mQueue; res_search takes its time.                         *)
ResolverEnds ==
    /\ resolver.state = "running"
    /\ \E found \in BOOLEAN :
          resolver' = [resolver EXCEPT !.state = IF resolver.cancelled THEN "none" ELSE "posted",
                                       !.found = found]
    /\ UNCHANGED <<account, started, cancelled, timer, search, answers>>

(* callbackOnMainThread, which drops what was cancelled.                    *)
ResolveMXDone ==
    /\ resolver.state = "posted"
    /\ resolver' = [resolver EXCEPT !.state = "none"]
    /\ IF resolver.cancelled THEN UNCHANGED <<timer, search>>
                             ELSE timer' = FALSE /\ StartCheckingHosts(resolver.found)
    /\ UNCHANGED <<account, started, cancelled, answers>>

\* Mutant: the resolver is not cancelled.
ResolveMXTimeoutKeepsResolver ==
    /\ timer /\ timer' = FALSE
    /\ StartCheckingHosts(FALSE)
    /\ UNCHANGED <<account, started, cancelled, resolver, answers>>

ResolveMXTimeout ==
    /\ timer /\ timer' = FALSE
    /\ resolver' = [resolver EXCEPT !.cancelled = TRUE]
    /\ StartCheckingHosts(FALSE)
    /\ UNCHANGED <<account, started, cancelled, answers>>

-----------------------------------------------------------------------------
(* The operation that tries a server *)

OperationEnds ==
    /\ operation.state = "running"
    /\ \E e \in Answers :
          operation' = [operation EXCEPT !.state = IF operation.cancelled THEN "none" ELSE "posted",
                                         !.error = e]
    /\ UNCHANGED <<account, started, cancelled, timer, resolver, services, mError, mServer,
                   mCurrentServiceTested, mCurrentServiceIndex, answers, completions>>

(* That the credentials were refused is not covered up by a later server    *)
(* that cannot be reached.                                                  *)
ErrorAfter(before, error) ==
    IF before = "Authentication" /\ error = "Connection" THEN before ELSE error

CheckNextHostDone ==
    LET s == mCurrentServiceTested
        error == ErrorAfter(mError[s], operation.error)
    IN  /\ operation.state = "posted" /\ ~ operation.cancelled
        /\ mError' = [mError EXCEPT ![s] = error]
        /\ answers' = [answers EXCEPT ![s] = Append(@, operation.error)]
        /\ IF error = "None" THEN CheckNextHost(services, s + 1, 0)
                             ELSE CheckNextHost(services, s, mCurrentServiceIndex + 1)
        /\ UNCHANGED <<account, started, cancelled, timer, resolver, services>>

DropCancelled ==
    /\ operation.state = "posted" /\ operation.cancelled
    /\ operation' = Idle
    /\ UNCHANGED <<account, started, cancelled, timer, resolver, services, mError, mServer,
                   mCurrentServiceTested, mCurrentServiceIndex, answers, completions>>

Cancel ==
    /\ started /\ ~ cancelled
    /\ cancelled' = TRUE
    /\ timer' = FALSE
    /\ operation' = [operation EXCEPT !.cancelled = @ \/ operation.state # "none"]
    /\ resolver' = [resolver EXCEPT !.cancelled = @ \/ resolver.state # "none"]
    /\ UNCHANGED <<account, started, services, mError, mServer, mCurrentServiceTested,
                   mCurrentServiceIndex, answers, completions>>

Next ==
    \/ Start \/ Cancel
    \/ ResolverEnds \/ ResolveMXDone \/ ResolveMXTimeout
    \/ OperationEnds \/ CheckNextHostDone \/ DropCancelled

Spec == Init /\ [][Next]_vars

-----------------------------------------------------------------------------
(* Properties *)

(* The callback is called once, although the resolver may answer while its  *)
(* timeout runs, or after it (resolveMXTimeout cancels it and resolveMXDone *)
(* cancels the timer).                                                      *)
CompletedOnce == completions <= 1

(* Until the callback there is one thing at work: the resolver with its     *)
(* timer, or the operation that tries a server, never both.                 *)
OneSearch ==
    /\ timer => completions = 0 /\ operation.state = "none" /\ resolver.state # "none"
    /\ operation.state # "none" => completions = 0

(* A server that is reported when the callback is called accepted the       *)
(* account, and every server before it was tried and refused it             *)
(* (checkNextHost, checkNextHostDone).                                      *)
ReportedServerIsFirstThatWorks ==
    completions > 0 =>
        \A s \in Services :
            mServer[s] # 0 =>
                /\ Len(answers[s]) = mServer[s]
                /\ \A k \in 1..Len(answers[s]) : answers[s][k] = "None" <=> k = mServer[s]

(* A service whose servers refused the credentials or could not be reached  *)
(* is reported as one with wrong credentials (checkNextHostDone).           *)
RefusalReported ==
    \A s \in Services :
        LET got == {answers[s][k] : k \in 1..Len(answers[s])}
        IN  got \subseteq {"Authentication", "Connection"} /\ "Authentication" \in got =>
                mError[s] = "Authentication"

(* One search, with one end, that reports what the servers answered.  It    *)
(* does not say that every service is tried: after one of which no server   *)
(* works the search ends, against the comment at lines 274-280 (see         *)
(* MCValidatorServices).                                                    *)
SearchCorrect == CompletedOnce /\ OneSearch /\ ReportedServerIsFirstThatWorks /\ RefusalReported
=============================================================================
