------------------------------- MODULE Checker -------------------------------
(***************************************************************************)
(* One check of a host (Check in sslcheck/checker.go): up to Attempts      *)
(* connections with a deadline each and growing delays between them, each  *)
(* to the next of the addresses the name resolves to at that moment, until *)
(* one of them shows a certificate.  Meanwhile names and hosts change, the *)
(* network is slow, and the caller gives up.                             *)
(***************************************************************************)
EXTENDS Integers, SequencesExt

CONSTANTS
    Address, V4,   \* addresses; those of IPv4
    Answers,        \* records a resolver may answer with: sequences, duplicates included
    NoTarget, NotAnIP, NoAddress,
    Attempts, Timeout, BaseDelay   \* the settings of New, in ticks

ASSUME CheckerAssumption ==
    /\ V4 \subseteq Address /\ {NoTarget, NotAnIP, NoAddress} \cap Address = {} /\ NoTarget # NotAnIP
    /\ Answers \subseteq Seq(Address) \ {<<>>}
    /\ Attempts \in Nat \ {0} /\ Timeout \in Nat \ {0} /\ BaseDelay \in Nat

VARIABLES
    host, records,  \* what each address does, what the name resolves to
    givenUp,      \* the caller's context is done
    elapsed,        \* ticks since the check began
    pc, target,     \* where the check is; the address the domain asks for
    attempt, at,    \* the attempt under way, from 0, and its address
    left,           \* ticks left to its deadline, or to the end of the delay
    result, last,   \* what is returned; the last attempt that failed
    steady, shown, extra  \* history: the world kept still; a certificate was shown;
                          \* attempts begun after the cancellation

worldVars == <<host, records, givenUp>>
checkerVars == <<worldVars, elapsed, pc, target, attempt, at, left, result, last, steady, shown, extra>>

-----------------------------------------------------------------------------
Failed(address) == [status |-> "error", cert |-> FALSE, address |-> address, retryable |-> TRUE]
Refused == [Failed(NoAddress) EXCEPT !.retryable = FALSE]

\* One loop of resolveAddresses: the records of one version, each address once.
Pass(list, answer, v4) ==
    LET upTo[n \in 0..Len(answer)] ==
            IF n = 0 THEN list
            ELSE LET before == upTo[n - 1]
                 IN  IF (answer[n] \in V4) = v4 /\ answer[n] \notin ToSet(before)
                     THEN Append(before, answer[n])
                     ELSE before
    IN  upTo[Len(answer)]

\* resolveAddresses: the records without duplicates, IPv4 first.
Addresses(answer) == Pass(Pass(<<>>, answer, TRUE), answer, FALSE)

\* Mutant: every attempt takes the first address.
FirstOf(list, n) == list[1]

NextOf(list, n) == list[(n % Len(list)) + 1]

\* 1 << k
Shifted[k \in 0..Attempts] == IF k = 0 THEN 1 ELSE 2 * Shifted[k - 1]

\* Mutant: the delay grows with the power of the attempt, not of the one before.
LateDelay(retry) == BaseDelay * Shifted[retry]

RetryDelay(retry) == BaseDelay * Shifted[retry - 1]

-----------------------------------------------------------------------------
CheckerInit ==
    /\ host \in [Address -> {"down", "expired", "valid"}]
    /\ records \in Answers /\ givenUp = FALSE
    /\ target \in {NoTarget, NotAnIP} \cup Address
    /\ pc = "start" /\ attempt = 0 /\ at = NoAddress /\ left = 0 /\ elapsed = 0
    /\ last = Failed(NoAddress) /\ result = Failed(NoAddress)
    /\ steady = TRUE /\ shown = FALSE /\ extra = 0

-----------------------------------------------------------------------------
(* The world *)

Running == pc \notin {"start", "done"}

HostChanges ==
    /\ Running
    /\ \E a \in Address, does \in {"down", "expired", "valid"} : host' = [host EXCEPT ![a] = does]
    /\ host' # host /\ steady' = FALSE
    /\ UNCHANGED <<records, givenUp, elapsed, pc, target, attempt, at, left, result, last, shown, extra>>

NameChanges ==
    /\ Running /\ records' \in Answers \ {records} /\ steady' = FALSE
    /\ UNCHANGED <<host, givenUp, elapsed, pc, target, attempt, at, left, result, last, shown, extra>>

Cancel ==
    /\ pc # "done" /\ ~givenUp /\ givenUp' = TRUE
    /\ UNCHANGED <<host, records, elapsed, pc, target, attempt, at, left, result, last, steady, shown, extra>>

\* A context that is done ends what waits for it; until then time passes up to the deadline.
Tick ==
    /\ Running /\ left > 0 /\ ~givenUp
    /\ left' = left - 1 /\ elapsed' = elapsed + 1
    /\ UNCHANGED <<worldVars, pc, target, attempt, at, result, last, steady, shown, extra>>

-----------------------------------------------------------------------------
(* The check *)

Return(r) == pc' = "done" /\ result' = r

\* An attempt begins: its deadline runs from here.
Begin(n) ==
    /\ pc' = "resolving" /\ attempt' = n /\ left' = Timeout /\ at' = NoAddress
    /\ extra' = extra + IF givenUp THEN 1 ELSE 0

Check ==
    /\ pc = "start"
    /\ IF target = NotAnIP
       THEN Return(Refused) /\ UNCHANGED <<attempt, at, left, extra>>
       ELSE Begin(0) /\ UNCHANGED result
    /\ UNCHANGED <<worldVars, elapsed, target, last, steady, shown>>

Resolve ==
    /\ pc = "resolving" /\ pc' = "dialing"
    /\ at' = IF target = NoTarget THEN NextOf(Addresses(records), attempt) ELSE target
    /\ UNCHANGED <<worldVars, elapsed, target, attempt, left, result, last, steady, shown, extra>>

\* Mutant: one attempt too many.
AttemptFailsOnce ==
    /\ last' = Failed(at)
    /\ IF attempt < Attempts
       THEN pc' = "waiting" /\ left' = RetryDelay(attempt + 1) /\ UNCHANGED result
       ELSE Return(Failed(at)) /\ UNCHANGED left
    /\ UNCHANGED <<worldVars, elapsed, target, attempt, at, shown, extra>>

\* A retryable failure: the next attempt after a delay, or the end.
AttemptFails ==
    /\ last' = Failed(at)
    /\ IF attempt + 1 < Attempts
       THEN pc' = "waiting" /\ left' = RetryDelay(attempt + 1) /\ UNCHANGED result
       ELSE Return(Failed(at)) /\ UNCHANGED left
    /\ UNCHANGED <<worldVars, elapsed, target, attempt, at, shown, extra>>

\* The address does not answer.
Unreachable == pc = "dialing" /\ host[at] = "down" /\ AttemptFails /\ UNCHANGED steady

\* Mutant: an attempt has no deadline of its own.
InterruptedByCaller == pc \in {"resolving", "dialing"} /\ givenUp /\ AttemptFails /\ steady' = FALSE

\* The name or the connection fails for another reason, or too late.
Interrupted == pc \in {"resolving", "dialing"} /\ AttemptFails /\ steady' = FALSE

\* Mutant: a certificate that does not verify is a reason to try again.
HandshakeRetried ==
    /\ pc = "dialing" /\ host[at] # "down" /\ left > 0
    /\ shown' = TRUE
    /\ IF host[at] = "valid"
       THEN Return([status |-> "healthy", cert |-> TRUE, address |-> at, retryable |-> FALSE]) /\ UNCHANGED <<last, left>>
       ELSE /\ last' = Failed(at)
            /\ IF attempt + 1 < Attempts
               THEN pc' = "waiting" /\ left' = RetryDelay(attempt + 1) /\ UNCHANGED result
               ELSE Return(Failed(at)) /\ UNCHANGED left
    /\ UNCHANGED <<worldVars, elapsed, target, attempt, at, steady, extra>>

\* The handshake always finishes; the certificate is verified after it and kept either way.
Handshake ==
    /\ pc = "dialing" /\ host[at] # "down" /\ left > 0
    /\ shown' = TRUE
    /\ Return([status |-> IF host[at] = "valid" THEN "healthy" ELSE "error",
               cert |-> TRUE, address |-> at, retryable |-> FALSE])
    /\ UNCHANGED <<worldVars, elapsed, target, attempt, at, left, last, steady, extra>>

\* Mutant: the delay is slept, whatever the context.
WaitSlept ==
    /\ pc = "waiting" /\ (left = 0 \/ givenUp)
    /\ Begin(attempt + 1)
    /\ UNCHANGED <<worldVars, elapsed, target, result, last, steady, shown>>

\* waitForRetry: the timer; where both are ready, select takes either.
WaitOver ==
    /\ pc = "waiting" /\ left = 0 /\ (RetryDelay(attempt + 1) = 0 => ~givenUp)
    /\ Begin(attempt + 1)
    /\ UNCHANGED <<worldVars, elapsed, target, result, last, steady, shown>>

WaitCancelled ==
    /\ pc = "waiting" /\ givenUp
    /\ Return(last)
    /\ UNCHANGED <<worldVars, elapsed, target, attempt, at, left, last, steady, shown, extra>>

Go == Check \/ Resolve \/ Unreachable \/ Interrupted \/ Handshake \/ WaitOver \/ WaitCancelled
CheckerNext == HostChanges \/ NameChanges \/ Cancel \/ Tick \/ Go

CheckerSpec == CheckerInit /\ [][CheckerNext]_checkerVars /\ WF_checkerVars(Tick \/ Go)

-----------------------------------------------------------------------------
(* What a check says of a host is what the host showed it.  A certificate  *)
(* that any attempt was shown is in the result: no later failure costs the *)
(* details of one that has expired.  And while names and hosts keep still, *)
(* a host is reported unreachable only after each of its addresses, if the *)
(* attempts suffice for them, has refused: one that serves is enough.      *)
SaysWhatWasShown ==
    pc = "done" =>
        /\ result.cert = shown
        /\ steady /\ ~givenUp /\ target = NoTarget /\ ~result.cert =>
               \A a \in ToSet(records) : Cardinality(ToSet(records)) <= Attempts => host[a] = "down"

(* A worker is back in bounded time, whatever the network does: a check    *)
(* takes no longer than its attempts and the delays between them, and      *)
(* after the caller has given up at most one attempt still begins, the     *)
(* first, or the one whose delay ended at that moment.                     *)
BackInTime ==
    /\ elapsed <= Attempts * Timeout + BaseDelay * (Shifted[Attempts - 1] - 1)
    /\ extra <= 1

(* Every check that is begun returns, given up or not. *)
CheckEnds == <>(pc = "done")
=============================================================================
