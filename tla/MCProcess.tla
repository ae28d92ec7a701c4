------------------------------ MODULE MCProcess ------------------------------
(***************************************************************************)
(* Three parts of the server's process for TLC, one in each behaviour: the *)
(* accounts and the start that provides them, one check of a host, and the *)
(* life of the process up to its end.  They share no state.  Here are the  *)
(* constants that a .cfg file cannot write, and the parts' initial states  *)
(* and steps side by side.                                                 *)
(***************************************************************************)
EXTENDS Accounts, Checker, AppRun

CONSTANTS admin, ann, a, b, six

VARIABLE part

\* Settings that change from start to start.
Settings(who, email, allow) == [name |-> who, email |-> email, allow |-> allow]
ChangingSettings ==
    {Settings(admin, Mail, TRUE), Settings(ann, NoMail, TRUE), Settings(ann, Mail, FALSE)}

\* One address twice; the IPv6 address first; the order turned by the name server.
SomeAnswers == {<<a, a, b>>, <<six, a, b>>, <<b, six, a>>}

-----------------------------------------------------------------------------
\* The parts that are not looked at are in one of their initial states.
ProcessInit ==
    /\ part \in {"accounts", "checker", "app"}
    /\ AccountsInit /\ (part # "accounts" => registration /\ conf = Settings(admin, Mail, TRUE))
    /\ CheckerInit  /\ (part # "checker" => host = [h \in Address |-> "down"] /\ records = <<a, a, b>> /\ target = NoTarget)
    /\ AppInit

InAccounts(A) == part = "accounts" /\ A /\ UNCHANGED <<checkerVars, appVars, part>>
InChecker(A)  == part = "checker" /\ A /\ UNCHANGED <<accountsVars, appVars, part>>
InApp(A)      == part = "app" /\ A /\ UNCHANGED <<accountsVars, checkerVars, part>>

ProcessNext == InAccounts(AccountsNext) \/ InChecker(CheckerNext) \/ InApp(AppNext)

processVars == <<accountsVars, checkerVars, appVars, part>>

\* The fairness of the part looked at; the others take no step.
ProcessFairness ==
    /\ WF_accountsVars(part = "accounts" /\ Start)
    /\ WF_accountsVars(part = "accounts" /\ Boot)
    /\ WF_checkerVars(part = "checker" /\ (Tick \/ Go))
    /\ WF_appVars(part = "app" /\ Run)
    /\ WF_appVars(part = "app" /\ (Report \/ Close \/ ListenEnds))
    /\ \A c \in Conn : WF_appVars(part = "app" /\ AnswerDue(c))

ProcessSpec == ProcessInit /\ [][ProcessNext]_processVars /\ ProcessFairness

-----------------------------------------------------------------------------
(* No part of the process hangs: every start comes up unless another user  *)
(* stands in its way, every check returns, and a signal or a failure ends  *)
(* the process.                                                            *)
NothingHangs ==
    /\ part = "accounts" => ComesUp
    /\ part = "checker" => CheckEnds
    /\ ShutsDown
=============================================================================
