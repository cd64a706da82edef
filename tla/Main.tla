-------------------------------- MODULE Main --------------------------------
(***************************************************************************)
(* main.py: the command line names one command and the process runs that   *)
(* and nothing else; no name runs nothing.  Three commands are modelled    *)
(* here, each in a module of its own: the backtest, the first paper order  *)
(* and the server up to its endpoints.  (The endpoints are ProposalApi,    *)
(* the server's sync worker and the command alpaca-sync are BrokerSync.)   *)
(* Of the first paper order there may be several processes.                *)
(***************************************************************************)
EXTENDS Backtest, FirstOrder, RateLimiter

VARIABLE command   \* arguments.command

mainVars == <<command, vars, firstOrderVars, limiterVars>>

\* The choices of the command line, and no command.  Those without a disjunct in
\* MainNext take no step of these modules.
Commands == {"demo", "backtest", "risk-demo", "broker-demo", "alpaca-check",
             "alpaca-first-order", "serve", "alpaca-sync", "none"}

MainTypeOK ==
  /\ command \in Commands
  /\ TypeOK
  /\ FirstOrderTypeOK
  /\ LimiterTypeOK

\* What is not run keeps one initial state of its own.
MainInit ==
  /\ command \in Commands
  /\ Init /\ (command # "backtest" => strategy = "any")
  /\ FirstOrderInit
  /\ command # "alpaca-first-order" =>
       account = [cash |-> CHOOSE cash \in Balances : TRUE, shares |-> 0]
  /\ LimiterInit

MainNext ==
  /\ \/ command = "backtest" /\ Next /\ UNCHANGED <<firstOrderVars, limiterVars>>
     \/ command = "alpaca-first-order" /\ FirstOrderNext /\ UNCHANGED <<vars, limiterVars>>
     \/ command = "serve" /\ LimiterNext /\ UNCHANGED <<vars, firstOrderVars>>
  /\ UNCHANGED command

MainSpec == MainInit /\ [][MainNext]_mainVars
=============================================================================
