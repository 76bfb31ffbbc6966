------------------------------ MODULE ToolServers ------------------------------
(***************************************************************************)
(* MCP servers and the tools they bring: the manager of the connections      *)
(* (pkg/mcp/manager.go), its initialisation by the agent loop                *)
(* (pkg/agent/loop_mcp.go), AgentLoop.Close, the registry with its hidden    *)
(* tools (pkg/tools/registry.go) and the search that promotes them           *)
(* (search_tool.go).                                                         *)
(*                                                                          *)
(* Every server brings one hidden tool, and is its name here.  Turns of the  *)
(* agent share its registry; a sub-turn has a clone, but the search tool in  *)
(* it still promotes in the registry of the agent.                           *)
(***************************************************************************)
EXTENDS Naturals, FiniteSets

CONSTANTS
    Servers,       \* configured servers
    ToolTurns,     \* turns that run at the same time
    ClonedTurns,   \* those that are sub-turns
    ToolTTL,       \* rounds a tool stays unlocked
    MaxRounds      \* bound: rounds of one turn

ASSUME ToolServersAssumption ==
    /\ IsFiniteSet(Servers) /\ Servers # {} /\ ClonedTurns \subseteq ToolTurns
    /\ ToolTTL \in Nat \ {0} /\ MaxRounds \in Nat \ {0}

VARIABLES
    mcpInit,     \* initOnce: "fresh", "connecting", "registering", "done" or "failed"
    session,     \* server -> "none", "connecting", "open", "refused" or "closed"
    servers,     \* those in the manager's map
    managerSet,  \* mcpRuntime.manager
    mcpClosed,   \* the manager's closed flag
    mcpClosing,  \* AgentLoop.Close: "no", "waiting", "locking?", "locking" or "done"
    closedEarly, \* history: Close found no manager
    known,       \* registry -> its hidden tools
    ttl,         \* registry -> tool -> rounds it is visible
    toolTurn,    \* turn -> where it is
    rounds,      \* turn -> rounds it has made
    wanted,      \* turn -> the tool it calls
    raced        \* history: past the second check, not yet counted, when Wait returned

toolVars == <<mcpInit, session, servers, managerSet, mcpClosed, mcpClosing, closedEarly, known,
              ttl, toolTurn, rounds, wanted, raced>>

AgentTools == "agent"
Registries == {AgentTools} \cup ClonedTurns
RegistryOf(t) == IF t \in ClonedTurns THEN t ELSE AgentTools

\* Tools that a request offers and that Get finds.
Unlocked(reg) == {s \in known[reg] : ttl[reg][s] > 0}

ToolServersInit ==
    /\ mcpInit = "fresh" /\ session = [s \in Servers |-> "none"] /\ servers = {}
    /\ managerSet = FALSE /\ mcpClosed = FALSE /\ mcpClosing = "no" /\ closedEarly = FALSE
    /\ known = [reg \in Registries |-> {}]
    /\ ttl = [reg \in Registries |-> [s \in Servers |-> 0]]
    /\ toolTurn = [t \in ToolTurns |-> "new"] /\ rounds = [t \in ToolTurns |-> 0]
    /\ wanted = [t \in ToolTurns |-> CHOOSE s \in Servers : TRUE]
    /\ raced = {}

-------------------------------------------------------------------------------
(* Initialisation: once, by Run or the first direct message *)

InitFrame == UNCHANGED <<mcpClosing, closedEarly, ttl, toolTurn, rounds, wanted, raced>>

EnsureMCP ==
    /\ mcpInit = "fresh" /\ mcpInit' = "connecting"
    /\ session' = [s \in Servers |-> "connecting"]
    /\ InitFrame /\ UNCHANGED <<servers, managerSet, mcpClosed, known>>

\* ConnectServer, one goroutine for each server.
ConnectServer(s) ==
    /\ session[s] = "connecting"
    /\ \/ session' = [session EXCEPT ![s] = "open"] /\ servers' = servers \cup {s}
       \/ session' = [session EXCEPT ![s] = "refused"] /\ UNCHANGED servers
    /\ InitFrame /\ UNCHANGED <<mcpInit, managerSet, mcpClosed, known>>

\* When none has connected the manager is closed and forgotten.
Connected ==
    /\ mcpInit = "connecting" /\ \A s \in Servers : session[s] # "connecting"
    /\ mcpInit' = IF servers = {} THEN "done" ELSE "registering"
    /\ mcpClosed' = (servers = {})
    /\ InitFrame /\ UNCHANGED <<session, servers, managerSet, known>>

\* The tools are registered, hidden; then the manager is set, or, when
\* discovery has no search method, closed (its tools stay registered).
RegisterTools ==
    /\ mcpInit = "registering"
    /\ known' = [known EXCEPT ![AgentTools] = servers]
    /\ \/ /\ mcpInit' = "done" /\ managerSet' = TRUE
          /\ UNCHANGED <<session, servers, mcpClosed>>
       \/ /\ mcpInit' = "failed" /\ mcpClosed' = TRUE /\ servers' = {}
          /\ session' = [s \in Servers |-> IF s \in servers THEN "closed" ELSE session[s]]
          /\ UNCHANGED managerSet
    /\ InitFrame

-------------------------------------------------------------------------------
(* Turns *)

TurnFrame == UNCHANGED <<mcpInit, session, servers, managerSet, mcpClosed, mcpClosing,
                         closedEarly, raced>>
Goto(t, where) == toolTurn' = [toolTurn EXCEPT ![t] = where]

\* A turn begins; a sub-turn gets a clone of its agent's tools.
BeginToolTurn(t) ==
    /\ toolTurn[t] = "new" /\ mcpInit = "done"
    /\ Goto(t, "model")
    /\ IF t \in ClonedTurns
         THEN /\ known' = [known EXCEPT ![t] = known[AgentTools]]
              /\ ttl' = [ttl EXCEPT ![t] = ttl[AgentTools]]
         ELSE UNCHANGED <<known, ttl>>
    /\ TurnFrame /\ UNCHANGED <<rounds, wanted>>

\* PromoteTools sets the time of hidden tools that were found.
PromoteTools(found) ==
    ttl' = [ttl EXCEPT ![AgentTools] =
               [s \in Servers |-> IF s \in found THEN ToolTTL ELSE @[s]]]

\* The model searches for tools ...
SearchTools(t) ==
    /\ toolTurn[t] = "model" /\ Goto(t, "after")
    /\ \E found \in SUBSET known[AgentTools] : PromoteTools(found)
    /\ TurnFrame /\ UNCHANGED <<rounds, wanted, known>>

\* ... or calls one it was offered.
PickTool(t) ==
    /\ toolTurn[t] = "model" /\ Goto(t, "get")
    /\ \E s \in Unlocked(RegistryOf(t)) : wanted' = [wanted EXCEPT ![t] = s]
    /\ TurnFrame /\ UNCHANGED <<rounds, known, ttl>>

\* ExecuteWithContext: a tool whose time has run out is not found.
GetTool(t) ==
    /\ toolTurn[t] = "get"
    /\ Goto(t, IF wanted[t] \in Unlocked(RegistryOf(t)) THEN "check" ELSE "after")
    /\ TurnFrame /\ UNCHANGED <<rounds, wanted, known, ttl>>

\* CallTool: the first look at closed ...
FirstCheck(t) ==
    /\ toolTurn[t] = "check"
    /\ Goto(t, IF mcpClosed THEN "after" ELSE "lock")
    /\ TurnFrame /\ UNCHANGED <<rounds, wanted, known, ttl>>

\* ... the second one, with the read lock held; faulty variant: none ...
Unchecked(t) == TRUE
StillOpen(t) == ~mcpClosed
SecondCheck(t) ==
    /\ toolTurn[t] = "lock" /\ mcpClosing # "locking"
    /\ Goto(t, IF StillOpen(t) /\ wanted[t] \in servers THEN "count" ELSE "after")
    /\ TurnFrame /\ UNCHANGED <<rounds, wanted, known, ttl>>

\* ... and the call is counted and the lock released.
CountCall(t) ==
    /\ toolTurn[t] = "count" /\ Goto(t, "calling")
    /\ TurnFrame /\ UNCHANGED <<rounds, wanted, known, ttl>>

\* The server answers, or the call fails; it is no longer counted.
CallReturns(t) ==
    /\ toolTurn[t] = "calling" /\ Goto(t, "after")
    /\ TurnFrame /\ UNCHANGED <<rounds, wanted, known, ttl>>

\* TickTTL, and the next request; or the turn ends.
TickTTL(t) ==
    LET reg == RegistryOf(t) IN
    /\ toolTurn[t] = "after"
    /\ ttl' = [ttl EXCEPT ![reg] =
                  [s \in Servers |-> IF s \in Unlocked(reg) THEN @[s] - 1 ELSE @[s]]]
    /\ rounds' = [rounds EXCEPT ![t] = @ + 1]
    /\ Goto(t, IF rounds'[t] < MaxRounds THEN "model" ELSE "ended")
    /\ TurnFrame /\ UNCHANGED <<wanted, known>>

-------------------------------------------------------------------------------
(* AgentLoop.Close *)

CloseFrame == UNCHANGED <<mcpInit, known, ttl, toolTurn, rounds, wanted>>
Holding == {t \in ToolTurns : toolTurn[t] = "count"}
InFlight == {t \in ToolTurns : toolTurn[t] = "calling"}

\* takeManager, and closed is set.
TakeManager ==
    /\ mcpClosing = "no" /\ managerSet' = FALSE
    /\ IF managerSet
         THEN mcpClosing' = "waiting" /\ mcpClosed' = TRUE /\ UNCHANGED closedEarly
         ELSE mcpClosing' = "done" /\ closedEarly' = TRUE /\ UNCHANGED mcpClosed
    /\ CloseFrame /\ UNCHANGED <<session, servers, raced>>

\* wg.Wait returns, the lock not yet taken ...
WaitForCalls ==
    /\ mcpClosing = "waiting" /\ InFlight = {}
    /\ mcpClosing' = "locking?" /\ raced' = Holding
    /\ CloseFrame /\ UNCHANGED <<session, servers, managerSet, mcpClosed, closedEarly>>

\* ... it is asked for, which keeps new readers out ...
AskForLock ==
    /\ mcpClosing = "locking?" /\ mcpClosing' = "locking"
    /\ CloseFrame /\ UNCHANGED <<session, servers, managerSet, mcpClosed, closedEarly, raced>>

\* ... and the sessions are closed.
CloseSessions ==
    /\ mcpClosing = "locking" /\ Holding = {}
    /\ mcpClosing' = "done" /\ servers' = {}
    /\ session' = [s \in Servers |-> IF s \in servers THEN "closed" ELSE session[s]]
    /\ CloseFrame /\ UNCHANGED <<managerSet, mcpClosed, closedEarly, raced>>

-------------------------------------------------------------------------------
ToolServersNext ==
    \/ EnsureMCP \/ Connected \/ RegisterTools
    \/ \E s \in Servers : ConnectServer(s)
    \/ \E t \in ToolTurns :
          \/ BeginToolTurn(t) \/ SearchTools(t) \/ PickTool(t) \/ GetTool(t) \/ FirstCheck(t)
          \/ SecondCheck(t) \/ CountCall(t) \/ CallReturns(t) \/ TickTTL(t)
    \/ TakeManager \/ WaitForCalls \/ AskForLock \/ CloseSessions

ToolServersSpec == ToolServersInit /\ [][ToolServersNext]_toolVars

-------------------------------------------------------------------------------
(* Properties *)

ToolServersTypeOK ==
    /\ mcpInit \in {"fresh", "connecting", "registering", "done", "failed"}
    /\ session \in [Servers -> {"none", "connecting", "open", "refused", "closed"}]
    /\ servers \subseteq Servers /\ {managerSet, mcpClosed, closedEarly} \subseteq BOOLEAN
    /\ mcpClosing \in {"no", "waiting", "locking?", "locking", "done"}
    /\ known \in [Registries -> SUBSET Servers]
    /\ ttl \in [Registries -> [Servers -> 0..ToolTTL]]
    /\ toolTurn \in [ToolTurns -> {"new", "model", "get", "check", "lock", "count", "calling",
                                   "after", "ended"}]
    /\ rounds \in [ToolTurns -> 0..MaxRounds] /\ wanted \in [ToolTurns -> Servers]
    /\ raced \subseteq ToolTurns

\* Close takes no session away from a call that runs, but for calls that were
\* past their second look at closed and not yet counted when Wait returned; and
\* it leaves no session open, unless it came before the initialisation had ended
\* ("Wait for all in-flight CallTool calls to finish before closing sessions").
SessionsOutliveCalls ==
    /\ \A t \in InFlight : session[wanted[t]] = "closed" => t \in raced
    /\ mcpClosing = "done" /\ ~closedEarly => \A s \in Servers : session[s] # "open"
===============================================================================
