------------------------ MODULE MCValidatorServices ------------------------
(***************************************************************************)
(* The validator of accounts against what the comment before               *)
(* checkNextHost() says of it (MCAccountValidator.cpp 274-280): when the    *)
(* servers of a service were all tried, "checkNextHost() is then called for *)
(* the next service".  The code calls the callback of the validator         *)
(* instead (305, 333, 365), so that the services that follow are not tried. *)
(***************************************************************************)
EXTENDS AccountValidator

(* Each service is tested one after the other: once the servers of a        *)
(* service were tried, and the search has ended, those of every service     *)
(* after it that is enabled and has servers were tried too, whether one of  *)
(* the first service worked or none did (checkNextHost).                    *)
NextServiceIsTried ==
    completions > 0 =>
        \A s, t \in Services :
            answers[s] # <<>> /\ s < t /\ t \in account.enabled /\ services[t] > 0
                => answers[t] # <<>>
=============================================================================
