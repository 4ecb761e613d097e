---------------------------- MODULE WalletSession ----------------------------
(***************************************************************************)
(* The wallet of a page (src/src/lib/wallet/connect-session.ts, with the   *)
(* two WalletButtons of src/src/components/header.tsx, the restoring       *)
(* effect of src/src/app/providers.tsx and the Safe's connector). One      *)
(* manual connection is shared by all controls; the automatic one runs     *)
(* beside it. What connect, reconnect and disconnect of wagmi do to the    *)
(* session is external, taken from how this code and its tests use them.   *)
(***************************************************************************)
EXTENDS Naturals, FiniteSets

CONSTANTS
  Connector,   \* the wallets discovered, and the embedding Safe
  Safe,        \* the connector that asks the embedding page, not the user
  Control,     \* the mounted WalletButtons
  NoConnector,
  MaxPrompts   \* bound: prompts the user is shown

VARIABLES
  walletStatus,   \* config.state.status
  currentWallet,  \* config.state.current
  sessions,       \* config.state.connections: connectors with accounts
  operation,      \* pendingConnections: what the shared connection connects to
  waitingOn,      \* controls with connectionInFlight
  restoring,      \* the connector that reconnect is asking
  restoreStarted, \* WalletSessionRestore's `started`
  safeContext,    \* safeAppContextPromise: "none", "asked", "known"
  prompts,        \* permission requests open in the wallets
  prompted        \* history: those opened so far

ASSUME WalletAssumption ==
  /\ Safe \in Connector /\ NoConnector \notin Connector
  /\ IsFiniteSet(Control) /\ MaxPrompts \in Nat

sessionVars == <<walletStatus, currentWallet, sessions>>
promptVars == <<prompts, prompted>>
walletVars == <<sessionVars, operation, waitingOn, restoring, restoreStarted, safeContext, promptVars>>

\* The page is loaded; a session of an earlier one can be left as current.
WalletInit ==
  /\ walletStatus = "disconnected"
  /\ currentWallet \in Connector \union {NoConnector}
  /\ sessions = {}
  /\ operation = NoConnector /\ restoring = NoConnector
  /\ waitingOn = {}
  /\ restoreStarted = FALSE
  /\ safeContext = "none"
  /\ prompts = 0 /\ prompted = 0

-----------------------------------------------------------------------------
(* The Safe's context, one promise for all who ask *)

\* getSafeAppContext; the answer of the embedding page comes later.
AskSafe(w) == safeContext' = IF w = Safe /\ safeContext = "none" THEN "asked" ELSE safeContext

\* Providers asks at mount, with a longer timeout.
BridgeSafe ==
  /\ safeContext = "none"
  /\ safeContext' = "asked"
  /\ UNCHANGED <<sessionVars, operation, waitingOn, restoring, restoreStarted, promptVars>>

\* The embedding page answers, or does not in time and is asked again later.
SafeAnswered(outcome) ==
  /\ safeContext = "asked"
  /\ outcome \in {"none", "known"}
  /\ safeContext' = outcome
  /\ UNCHANGED <<sessionVars, operation, waitingOn, restoring, restoreStarted, promptVars>>

\* The Safe's connector answers with its context alone; a wallet asks its user.
Grants(w) == w = Safe => safeContext = "known"
Declines(w) == w = Safe => safeContext # "known"

-----------------------------------------------------------------------------
(* The manual connection *)

\* wagmi's connect: it opens a prompt, except for the Safe.
OpenPrompt(w) ==
  IF w = Safe THEN UNCHANGED promptVars
  ELSE prompts' = prompts + 1 /\ prompted' = prompted + 1

ClosePrompt(w) ==
  /\ prompts' = IF w = Safe THEN prompts ELSE prompts - 1
  /\ UNCHANGED prompted

\* A stale session of the connector itself is removed before it is asked.
RemoveStale(w) ==
  IF currentWallet = w
  THEN /\ sessions' = sessions \ {w}
       /\ currentWallet' \in IF w \in sessions /\ sessions # {w} THEN sessions \ {w} ELSE {NoConnector}
  ELSE UNCHANGED <<sessions, currentWallet>>

\* Slip: each control for itself.
Never == FALSE
Shared == operation # NoConnector

\* The buttons are offered without a session, and while one is restored after
\* 2.5 s, which may be at any moment.
Offered == walletStatus # "connected"

\* connectWallet of a control: a connection that is pending is shared, whatever
\* it connects to.
ConnectWallet(c, w) ==
  /\ Offered /\ c \notin waitingOn
  /\ waitingOn' = waitingOn \union {c}
  /\ IF Shared THEN UNCHANGED <<sessionVars, operation, safeContext, promptVars>>
     ELSE /\ prompted < MaxPrompts
          /\ operation' = w
          /\ RemoveStale(w)
          /\ walletStatus' = "connecting"
          /\ AskSafe(w)
          /\ OpenPrompt(w)
  /\ UNCHANGED <<restoring, restoreStarted>>

\* The shared promise settles for all the controls that wait for it.
Settles ==
  /\ operation' = NoConnector
  /\ waitingOn' = {}

Approved(w) ==
  /\ operation = w /\ Grants(w)
  /\ sessions' = sessions \union {w}
  /\ currentWallet' = w
  /\ walletStatus' = "connected"
  /\ Settles /\ ClosePrompt(w)
  /\ UNCHANGED <<restoring, restoreStarted, safeContext>>

Rejected(w) ==
  /\ operation = w /\ Declines(w)
  /\ walletStatus' = IF currentWallet = NoConnector THEN "disconnected" ELSE "connected"
  /\ Settles /\ ClosePrompt(w)
  /\ UNCHANGED <<currentWallet, sessions, restoring, restoreStarted, safeContext>>

-----------------------------------------------------------------------------
(* The automatic connection, and the end of a session *)

\* restoreWalletSession does nothing beside a manual connection or a session.
Superfluous == Shared \/ walletStatus = "connected"

\* The effect finds the last wallet, or the Safe it is embedded in; reconnect
\* asks only wallets that have authorised the page, without a prompt.
RestoreWalletSession(w) ==
  /\ ~restoreStarted
  /\ restoreStarted' = TRUE
  /\ IF Superfluous
     THEN UNCHANGED <<walletStatus, restoring, safeContext>>
     ELSE /\ restoring' = w
          /\ walletStatus' = IF currentWallet = NoConnector THEN "connecting" ELSE "reconnecting"
          /\ AskSafe(w)
  /\ UNCHANGED <<currentWallet, sessions, operation, waitingOn, promptVars>>

Restored(w) ==
  /\ restoring = w /\ Grants(w)
  /\ restoring' = NoConnector
  /\ sessions' = {w} /\ currentWallet' = w
  /\ walletStatus' = IF walletStatus \in {"connecting", "reconnecting"} THEN "connected" ELSE walletStatus
  /\ UNCHANGED <<operation, waitingOn, restoreStarted, safeContext, promptVars>>

\* isAuthorized is false, or the wallet fails.
NotRestored(w) ==
  /\ restoring = w
  /\ restoring' = NoConnector
  /\ IF walletStatus \in {"connecting", "reconnecting"}
     THEN walletStatus' = "disconnected" /\ currentWallet' = NoConnector /\ sessions' = {}
     ELSE UNCHANGED sessionVars
  /\ UNCHANGED <<operation, waitingOn, restoreStarted, safeContext, promptVars>>

\* The user disconnects, or the wallet does.
DisconnectWallet(w) ==
  /\ w \in sessions
  /\ sessions' = sessions \ {w}
  /\ IF sessions = {w} THEN currentWallet' = NoConnector /\ walletStatus' = "disconnected"
     ELSE currentWallet' \in sessions \ {w} /\ UNCHANGED walletStatus
  /\ UNCHANGED <<operation, waitingOn, restoring, restoreStarted, safeContext, promptVars>>

WalletNext ==
  \/ BridgeSafe
  \/ \E outcome \in {"none", "known"} : SafeAnswered(outcome)
  \/ \E c \in Control, w \in Connector : ConnectWallet(c, w)
  \/ \E w \in Connector : Approved(w) \/ Rejected(w) \/ RestoreWalletSession(w)
                            \/ Restored(w) \/ NotRestored(w) \/ DisconnectWallet(w)

WalletSpec == WalletInit /\ [][WalletNext]_walletVars

-----------------------------------------------------------------------------
WalletTypeOK ==
  /\ walletStatus \in {"disconnected", "connecting", "reconnecting", "connected"}
  /\ currentWallet \in Connector \union {NoConnector}
  /\ sessions \subseteq Connector
  /\ operation \in Connector \union {NoConnector}
  /\ restoring \in Connector \union {NoConnector}
  /\ waitingOn \subseteq Control
  /\ restoreStarted \in BOOLEAN
  /\ safeContext \in {"none", "asked", "known"}
  /\ prompts \in Nat /\ prompted \in Nat

\* "Connection requests are single-flight across controls and remain pending
\* until the wallet responds" (README.md:64): at most one prompt is open, and
\* exactly while a connection other than the Safe's is pending, which is while
\* some control waits; no restoring, ended session or second click changes that.
SingleFlight ==
  /\ prompts = IF operation \in {NoConnector, Safe} THEN 0 ELSE 1
  /\ waitingOn # {} <=> operation # NoConnector
=============================================================================
