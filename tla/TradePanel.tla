----------------------------- MODULE TradePanel -----------------------------
(***************************************************************************)
(* The trade panel of a token page: the quote it shows and refreshes, and  *)
(* the submission of a trade through the connected wallet, which asks for  *)
(* an approval first when the allowance does not suffice.  The quotes come *)
(* from the quote route or the Quoter contract, whichever answers first.   *)
(***************************************************************************)
EXTENDS Naturals, Sequences

CONSTANTS
    Ask,            \* what the form can ask: <<side, amount, slippage>>
    NoAsk,          \* a form that is not valid
    ExecutionAge,   \* age up to which the shown quote is executed (8 s)
    QuoteAge,       \* the age a quote can have when it is read
    MaxTxs          \* a bound: transactions sent

VARIABLES
    form,
    armed,          \* the effect's timer is set (300 ms)
    reading,        \* the read whose number is current: [on, ask, loading]
    liveQuote,      \* [ask, age], or NoQuote
    trade,          \* submitTrade: [at, quote]
    allowance,      \* of the router, by side
    txs,            \* what the wallet sent, in the order of the nonces
    unread          \* history: a receipt could not be read

SideOf(ask) == ask[1]
Amount(ask) == ask[2]
Side == {"Buy", "Sell"}
ASSUME PanelAssumption ==
    /\ \A ask \in Ask : SideOf(ask) \in Side /\ Amount(ask) \in Nat
    /\ NoAsk \notin Ask /\ ExecutionAge \in Nat /\ QuoteAge \in Nat /\ MaxTxs \in Nat

panelVars == <<form, armed, reading, liveQuote, trade, allowance, txs, unread>>

Age == 0..(QuoteAge + ExecutionAge + 1)
Quote == [ask : Ask \cup {NoAsk}, age : Age]
NoQuote == [ask |-> NoAsk, age |-> 0]
NotReading == [on |-> FALSE, ask |-> NoAsk, loading |-> FALSE]
Ready == [at |-> "idle", quote |-> NoQuote]

PanelTypeOK ==
    /\ form \in Ask \cup {NoAsk} /\ armed \in BOOLEAN /\ unread \in BOOLEAN
    /\ reading \in [on : BOOLEAN, ask : Ask \cup {NoAsk}, loading : BOOLEAN]
    /\ liveQuote \in Quote
    /\ trade \in [at : {"idle", "checking", "quoting", "allowance", "approving", "approval",
                        "requoting", "trading", "receipt"}, quote : Quote]
    /\ allowance \in [Side -> Nat]
    /\ Len(txs) <= MaxTxs
    /\ \A i \in DOMAIN txs :
          txs[i] \in [kind : {"approve", "trade"}, ask : Ask, form : Ask,
                      status : {"pending", "success", "reverted", "uncovered"}]

PanelInit ==
    /\ form \in Ask /\ armed = TRUE
    /\ reading = NotReading /\ liveQuote = NoQuote /\ trade = Ready
    /\ allowance = [s \in Side |-> 0] /\ txs = << >> /\ unread = FALSE

Aged(quote) == IF quote.age + 1 \in Age THEN [quote EXCEPT !.age = @ + 1] ELSE quote
Wait ==
    /\ liveQuote' = (IF liveQuote = NoQuote THEN NoQuote ELSE Aged(liveQuote))
    /\ trade' = (IF trade.quote = NoQuote THEN trade ELSE [trade EXCEPT !.quote = Aged(@)])
    /\ UNCHANGED <<form, armed, reading, allowance, txs, unread>>

-----------------------------------------------------------------------------
\* The quote that is shown.

Pending == trade.at # "idle"

\* The inputs are disabled while a submission is pending.  A read under way keeps
\* its number until the timer fires.
Change(ask) ==
    /\ ~Pending /\ ask # form
    /\ form' = ask /\ liveQuote' = NoQuote /\ armed' = (ask # NoAsk)
    /\ reading' = [reading EXCEPT !.loading = @ /\ ask # NoAsk]
    /\ UNCHANGED <<trade, allowance, txs, unread>>

\* refreshQuote: by the timer, or by the loop, which leaves a read under way alone.
RefreshQuote(background) ==
    /\ form # NoAsk
    /\ IF background THEN ~reading.on /\ armed' = armed ELSE armed /\ armed' = FALSE
    /\ reading' = [on |-> TRUE, ask |-> form, loading |-> ~background]
    /\ UNCHANGED <<form, liveQuote, trade, allowance, txs, unread>>

QuoteRead(age) ==
    /\ reading.on
    /\ liveQuote' = [ask |-> reading.ask, age |-> age] /\ reading' = NotReading
    /\ UNCHANGED <<form, armed, trade, allowance, txs, unread>>
QuoteFailed ==
    /\ reading.on
    /\ reading' = NotReading
    /\ UNCHANGED <<form, armed, liveQuote, trade, allowance, txs, unread>>

-----------------------------------------------------------------------------
\* submitTrade.  A step that can fail there ends the submission with a notice.

TradeDisabled == Pending \/ form = NoAsk \/ reading.loading \/ liveQuote = NoQuote
Submit ==
    /\ ~TradeDisabled
    /\ trade' = [at |-> "checking", quote |-> liveQuote]
    /\ UNCHANGED <<form, armed, reading, liveQuote, allowance, txs, unread>>
Stop ==
    /\ trade.at \in {"checking", "quoting", "allowance", "approving", "requoting", "trading"}
    /\ trade' = Ready
    /\ UNCHANGED <<form, armed, reading, liveQuote, allowance, txs, unread>>

\* The closure of the click has the quote that was shown then; its age is as of now.
Matches(quote) == quote.ask = form /\ quote.age <= ExecutionAge
RecentOnly(quote) == quote.age <= ExecutionAge
Executable(quote) == Matches(quote)
Begin ==
    /\ trade.at = "checking"
    /\ trade' = IF Executable(trade.quote) THEN [trade EXCEPT !.at = "allowance"]
                ELSE [at |-> "quoting", quote |-> NoQuote]
    /\ UNCHANGED <<form, armed, reading, liveQuote, allowance, txs, unread>>

\* readQuote of the submission, before and after an approval: its age is not looked at.
ReadQuote(age) ==
    /\ trade.at \in {"quoting", "requoting"}
    /\ trade' = [at |-> IF trade.at = "quoting" THEN "allowance" ELSE "trading",
                 quote |-> [ask |-> form, age |-> age]]
    /\ UNCHANGED <<form, armed, reading, liveQuote, allowance, txs, unread>>

\* An allowance that cannot be read in time counts as none.
EnoughOrUnknown(known, quote) == ~known \/ allowance[SideOf(quote.ask)] >= Amount(quote.ask)
Enough(known, quote) == known /\ allowance[SideOf(quote.ask)] >= Amount(quote.ask)
ReadAllowance(known) ==
    /\ trade.at = "allowance"
    /\ trade' = [trade EXCEPT !.at = IF Enough(known, trade.quote) THEN "trading" ELSE "approving"]
    /\ UNCHANGED <<form, armed, reading, liveQuote, allowance, txs, unread>>

Send(kind) ==
    /\ Len(txs) < MaxTxs
    /\ txs' = Append(txs, [kind |-> kind, ask |-> trade.quote.ask, form |-> form, status |-> "pending"])
Confirm ==
    /\ \/ trade.at = "approving" /\ Send("approve") /\ trade' = [trade EXCEPT !.at = "approval"]
       \/ trade.at = "trading" /\ Send("trade") /\ trade' = [trade EXCEPT !.at = "receipt"]
    /\ UNCHANGED <<form, armed, reading, liveQuote, allowance, unread>>

\* The last transaction is the submission's own.
Receipt ==
    LET sent == txs[Len(txs)]
    IN  /\ trade.at \in {"approval", "receipt"} /\ sent.status # "pending"
        /\ trade' = IF trade.at = "approval" /\ sent.status = "success"
                    THEN [trade EXCEPT !.at = "requoting"] ELSE Ready
        /\ UNCHANGED <<form, armed, reading, liveQuote, allowance, txs, unread>>
ReceiptUnread ==
    /\ trade.at \in {"approval", "receipt"}
    /\ trade' = Ready /\ unread' = TRUE
    /\ UNCHANGED <<form, armed, reading, liveQuote, allowance, txs>>

\* A block takes the wallet's next transaction.  A trade reverts when the allowance
\* does not cover it, or when its output would be below the minimum.
Mine(inTime) ==
    \E i \in DOMAIN txs :
        LET tx == txs[i]
            side == SideOf(tx.ask)
            covered == tx.kind = "approve" \/ allowance[side] >= Amount(tx.ask)
            status == IF ~covered THEN "uncovered"
                      ELSE IF tx.kind = "trade" /\ ~inTime THEN "reverted" ELSE "success"
        IN  /\ tx.status = "pending" /\ \A j \in 1..(i - 1) : txs[j].status # "pending"
            /\ txs' = [txs EXCEPT ![i].status = status]
            /\ allowance' =
                  IF status # "success" THEN allowance
                  ELSE [allowance EXCEPT ![side] =
                           IF tx.kind = "approve" THEN Amount(tx.ask) ELSE @ - Amount(tx.ask)]
            /\ UNCHANGED <<form, armed, reading, liveQuote, trade, unread>>

PanelNext ==
    \/ Wait \/ QuoteFailed \/ Submit \/ Stop \/ Begin \/ Confirm \/ Receipt \/ ReceiptUnread
    \/ \E ask \in Ask \cup {NoAsk} : Change(ask)
    \/ \E yes \in BOOLEAN : RefreshQuote(yes) \/ ReadAllowance(yes) \/ Mine(yes)
    \/ \E age \in 0..QuoteAge : QuoteRead(age) \/ ReadQuote(age)

PanelSpec == PanelInit /\ [][PanelNext]_panelVars

-----------------------------------------------------------------------------
\* Properties.

\* What the wallet is asked to send is what the form shows: side, amount and slippage,
\* although a quote for an earlier form can still be the one that is shown.
SentAsShown == \A i \in DOMAIN txs : txs[i].ask = txs[i].form

\* As long as the receipts could be read, no trade is sent that the allowance does not
\* cover when a block takes it.
TradesCovered == ~unread => \A i \in DOMAIN txs : txs[i].status # "uncovered"
=============================================================================
