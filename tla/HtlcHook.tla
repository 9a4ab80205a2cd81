------------------------------ MODULE HtlcHook ------------------------------
(***************************************************************************)
(* Start-up of the plugin and the buffer of CLNPlugin.  lightningd replays *)
(* HTLCs as soon as the plugin thread answers; CLNPlugin keeps them until  *)
(* CLNLightning.run sets the hook, which is after configuration, storage   *)
(* and the checks of bitcoind.  The plugin thread, which takes one HTLC    *)
(* after the other, and the asyncio loop interleave at every access to the *)
(* ready event and the list.                                               *)
(***************************************************************************)
EXTENDS Naturals, Sequences, FiniteSets

CONSTANTS
    Htlcs,     \* HTLCs lightningd offers, replayed or new
    Nodes      \* states bitcoind may be in when the plugin starts

VARIABLES
    startup,   \* the next step of CLNSwapProvider.initialize, "running" or "failed"
    node,      \* bitcoind: [chain, txindex, wallet]
    ready,     \* the event __hook_ready
    buffer,    \* __buffered_htlcs
    next,      \* position of __replay_buffered_htlcs in the list, 0 outside it
    arrived,   \* HTLCs lightningd has called the hook with
    arriving,  \* the HTLC in __htlc_hook_handler, past its test of the event
    handed     \* HTLCs given to plugin_htlc_accepted_hook

startVars == <<startup, node>>
hookVars == <<ready, buffer, next, arrived, arriving, handed>>

Chains == {"short", "headers", "stale", "synced"}
Wallets == {"none", "stored", "loaded", "broken", "foreign"}

ASSUME HtlcsAssumption == IsFiniteSet(Htlcs)

ASSUME NodesAssumption ==
    Nodes \subseteq [chain : Chains, txindex : BOOLEAN, wallet : Wallets]

Steps == {"plugin", "config", "storage", "connect", "wallet", "sync", "hook", "manager"}

Nothing == [htlc |-> "none", list |-> "none"]

HookTypeOK ==
    /\ startup \in Steps \cup {"running", "failed"}
    /\ node \in [chain : Chains, txindex : BOOLEAN, wallet : Wallets]
    /\ ready \in BOOLEAN /\ arrived \subseteq Htlcs
    /\ buffer \in Seq(Htlcs) /\ handed \subseteq Htlcs
    /\ next \in 0..(Cardinality(Htlcs) + 1)
    /\ arriving \in {Nothing} \cup [htlc : Htlcs, list : {"unread", "current", "replaced"}]

HookInit ==
    /\ startup = "plugin"
    /\ node \in Nodes
    /\ ready = FALSE
    /\ buffer = <<>>
    /\ next = 0
    /\ arrived = {}
    /\ arriving = Nothing
    /\ handed = {}

-----------------------------------------------------------------------------
(* The plugin thread *)

\* Bound: none arrives once the swap manager runs; it would go to the hook.
Arrives(h) ==
    /\ startup \notin {"plugin", "running"} /\ arriving = Nothing
    /\ h \in Htlcs \ arrived
    /\ arrived' = arrived \cup {h}

\* The hook is ready: the HTLC goes straight to it.
HandlerCalls(h) ==
    /\ Arrives(h) /\ ready
    /\ handed' = handed \cup {h}
    /\ UNCHANGED <<startVars, ready, buffer, next, arriving>>

HandlerTests(h) ==
    /\ Arrives(h) /\ ~ready
    /\ arriving' = [htlc |-> h, list |-> "unread"]
    /\ UNCHANGED <<startVars, ready, buffer, next, handed>>

\* Reading the attribute and appending to the list it holds are two steps.
HandlerReads ==
    /\ arriving.list = "unread"
    /\ arriving' = [arriving EXCEPT !.list = "current"]
    /\ UNCHANGED <<startVars, ready, buffer, next, arrived, handed>>

HandlerAppends ==
    /\ arriving.list \in {"current", "replaced"}
    /\ buffer' = IF arriving.list = "current" THEN Append(buffer, arriving.htlc) ELSE buffer
    /\ arriving' = Nothing
    /\ UNCHANGED <<startVars, ready, next, arrived, handed>>

-----------------------------------------------------------------------------
(* The asyncio loop: set_htlc_hook *)

SetReady ==
    /\ startup = "hook" /\ ~ready
    /\ ready' = TRUE
    /\ UNCHANGED <<startVars, buffer, next, arrived, arriving, handed>>

ReplayNothing ==
    /\ startup = "hook" /\ ready /\ next = 0
    /\ buffer = <<>>
    /\ startup' = "manager"
    /\ UNCHANGED <<node, hookVars>>

\* Mutant: the replay begins behind the first HTLC.
ReplayStartsLate ==
    /\ startup = "hook" /\ ready /\ next = 0
    /\ buffer # <<>>
    /\ next' = 2
    /\ UNCHANGED <<startVars, ready, buffer, arrived, arriving, handed>>

ReplayStarts ==
    /\ startup = "hook" /\ ready /\ next = 0
    /\ buffer # <<>>
    /\ next' = 1
    /\ UNCHANGED <<startVars, ready, buffer, arrived, arriving, handed>>

\* The loop runs over the list itself and sees what is appended meanwhile.
ReplayHands ==
    /\ next \in DOMAIN buffer
    /\ handed' = handed \cup {buffer[next]}
    /\ next' = next + 1
    /\ UNCHANGED <<startVars, ready, buffer, arrived, arriving>>

ReplayEnds ==
    /\ next = Len(buffer) + 1
    /\ startup = "hook"
    /\ buffer' = <<>>
    /\ next' = 0
    /\ arriving' = IF arriving.list = "current" THEN [arriving EXCEPT !.list = "replaced"] ELSE arriving
    /\ startup' = "manager"
    /\ UNCHANGED <<node, ready, arrived, handed>>

-----------------------------------------------------------------------------
(* The asyncio loop: the other steps of CLNSwapProvider.initialize *)

StepsTo(from, to) == startup = from /\ startup' = to

\* An exception in a step ends main, but not the thread of the plugin: no RPC
\* connection in 50 seconds; no relays, a target or fee out of range, an unknown
\* network; a text that cannot be loaded; a call of bitcoind that fails, a
\* chain, an index or a wallet that is not what it must be.
StepRaises ==
    /\ \E step \in Steps \ {"hook", "manager"} : StepsTo(step, "failed")
    /\ UNCHANGED <<node, hookVars>>

PluginAnswers == StepsTo("plugin", "config") /\ UNCHANGED <<node, hookVars>>

ConfigLoads == StepsTo("config", "storage") /\ UNCHANGED <<node, hookVars>>

StorageLoads == StepsTo("storage", "connect") /\ UNCHANGED <<node, hookVars>>

NodeUsable(n) == n.chain # "short" /\ n.txindex

NodeAnswers ==
    /\ NodeUsable(node)
    /\ StepsTo("connect", "wallet")
    /\ UNCHANGED <<node, hookVars>>

\* loadwallet, or createwallet when there is none; then the name is checked.
WalletLoads ==
    /\ node.wallet \in {"none", "stored", "loaded"}
    /\ StepsTo("wallet", "sync")
    /\ node' = [node EXCEPT !.wallet = "loaded"]
    /\ UNCHANGED hookVars

\* is_up_to_date, every ten seconds until it says so.
NodeSynced ==
    /\ node.chain = "synced"
    /\ StepsTo("sync", "hook")
    /\ UNCHANGED <<node, hookVars>>

\* bitcoind downloads the missing blocks, or the next block comes in.
NodeSyncs ==
    /\ node.chain \in {"headers", "stale"}
    /\ node' = [node EXCEPT !.chain = IF @ = "headers" THEN "stale" ELSE "synced"]
    /\ UNCHANGED <<startup, hookVars>>

ManagerStarts == StepsTo("manager", "running") /\ UNCHANGED <<node, hookVars>>

-----------------------------------------------------------------------------
Handler == (\E h \in Htlcs : HandlerCalls(h) \/ HandlerTests(h)) \/ HandlerReads \/ HandlerAppends

SetHook == SetReady \/ ReplayNothing \/ ReplayStarts \/ ReplayHands \/ ReplayEnds

Initialize ==
    \/ PluginAnswers \/ ConfigLoads \/ StorageLoads \/ NodeAnswers \/ WalletLoads
    \/ NodeSynced \/ ManagerStarts \/ StepRaises

HookNext == Handler \/ SetHook \/ Initialize \/ NodeSyncs

HookFairness ==
    /\ WF_<<startVars, hookVars>>(SetHook)
    /\ WF_<<startVars, hookVars>>(HandlerReads \/ HandlerAppends)
    /\ WF_<<startVars, hookVars>>(NodeSyncs)
    /\ WF_<<startVars, hookVars>>(Initialize)
=============================================================================
