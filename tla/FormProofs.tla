----------------------------- MODULE FormProofs -----------------------------
(***************************************************************************)
(* Proofs about the two forms of the browser that send transactions: the   *)
(* trade panel and the launch form, for any forms, amounts, fees and       *)
(* bounds.  In both, a submission freezes what it works on, and at most    *)
(* one transaction is in flight as long as its outcome is waited for.      *)
(***************************************************************************)
EXTENDS TradePanel, LaunchForm, TLAPS

\* The trade panel.

At == {"idle", "checking", "quoting", "allowance", "approving", "approval", "requoting",
       "trading", "receipt"}
Tx == [kind : {"approve", "trade"}, ask : Ask, form : Ask,
       status : {"pending", "success", "reverted", "uncovered"}]

\* From the quote it executes on, a submission works on the form, which is disabled.
QuotedAsShown ==
    /\ trade.at # "idle" => form # NoAsk
    /\ trade.at \in {"allowance", "approving", "approval", "trading", "receipt"} =>
          trade.quote.ask = form

\* Only the last transaction can be in flight, and only while it is waited for.
OneInFlight ==
    \A i \in DOMAIN txs :
        txs[i].status = "pending" => i = Len(txs) /\ trade.at \in {"approval", "receipt"}

Covers == allowance[SideOf(form)] >= Amount(form)

\* What is waited for is the submission's own, and a trade follows an allowance.
OwnTransaction ==
    /\ trade.at \in {"approval", "receipt"} =>
          /\ txs # << >> /\ txs[Len(txs)].ask = form
          /\ txs[Len(txs)].kind = (IF trade.at = "approval" THEN "approve" ELSE "trade")
    /\ trade.at \in {"requoting", "trading"} => Covers
    /\ trade.at = "approval" /\ txs[Len(txs)].status = "success" => Covers
    /\ trade.at = "receipt" /\ txs[Len(txs)].status = "pending" => Covers

PanelInv ==
    /\ PanelTypeOK /\ txs \in Seq(Tx)
    /\ SentAsShown
    /\ QuotedAsShown
    /\ ~unread => OneInFlight /\ OwnTransaction
    /\ TradesCovered
-----------------------------------------------------------------------------
LEMMA PanelStarts == PanelInit => PanelInv
  <1> SUFFICES ASSUME PanelInit PROVE PanelInv
    OBVIOUS
  <1>1. txs = << >> /\ trade = Ready /\ form \in Ask
    BY DEF PanelInit
  <1>2. PanelTypeOK
    <2>1. Ready \in [at : At, quote : Quote] /\ NoQuote \in Quote
      BY PanelAssumption DEF Ready, At, Quote, NoQuote, Age
    <2>2. allowance \in [Side -> Nat]
      BY DEF PanelInit
    <2>3. armed \in BOOLEAN /\ unread \in BOOLEAN /\ liveQuote = NoQuote
      BY DEF PanelInit
    <2>4. reading \in [on : BOOLEAN, ask : Ask \cup {NoAsk}, loading : BOOLEAN]
      BY DEF PanelInit, NotReading
    <2> QED
      BY <1>1, <2>1, <2>2, <2>3, <2>4, PanelAssumption DEF PanelTypeOK, At
  <1>3. txs \in Seq(Tx)
    BY <1>1
  <1>4. SentAsShown /\ TradesCovered /\ OneInFlight
    BY <1>1 DEF SentAsShown, TradesCovered, OneInFlight
  <1>5. QuotedAsShown /\ OwnTransaction
    BY <1>1 DEF Ready, QuotedAsShown, OwnTransaction
  <1> QED
    BY <1>2, <1>3, <1>4, <1>5 DEF PanelInv

LEMMA AgedIsQuote ==
    ASSUME NEW quote \in Quote
    PROVE  Aged(quote) \in Quote /\ Aged(quote).ask = quote.ask
  BY DEF Aged, Quote

LEMMA QuoteTypes ==
    /\ NoQuote \in Quote
    /\ \A ask \in Ask \cup {NoAsk}, age \in 0..QuoteAge : [ask |-> ask, age |-> age] \in Quote
  BY PanelAssumption DEF NoQuote, Quote, Age

\* The actions that neither send nor mine a transaction.
LEMMA QuotesKeepInv ==
    ASSUME PanelInv,
           \/ Wait \/ QuoteFailed \/ Submit \/ Stop \/ Begin
           \/ \E ask \in Ask \cup {NoAsk} : Change(ask)
           \/ \E yes \in BOOLEAN : RefreshQuote(yes)
           \/ \E age \in 0..QuoteAge : QuoteRead(age) \/ ReadQuote(age)
    PROVE  PanelInv'
  <1>1. PanelTypeOK /\ txs \in Seq(Tx) /\ SentAsShown /\ QuotedAsShown /\ TradesCovered
        /\ (~unread => OneInFlight /\ OwnTransaction)
    BY DEF PanelInv
  <1>2. UNCHANGED <<txs, allowance, unread>>
    BY DEF Wait, QuoteFailed, Submit, Stop, Begin, Change, RefreshQuote, QuoteRead, ReadQuote
  <1>3. txs' \in Seq(Tx) /\ SentAsShown' /\ TradesCovered'
    BY <1>1, <1>2 DEF SentAsShown, TradesCovered
  <1>4. CASE Wait
    <2>1. trade'.at = trade.at /\ trade'.quote.ask = trade.quote.ask /\ form' = form
          /\ trade' \in [at : At, quote : Quote]
      BY <1>1, <1>4, AgedIsQuote DEF Wait, PanelTypeOK, At
    <2>2. PanelTypeOK'
      BY <1>1, <1>2, <1>4, <2>1, AgedIsQuote, QuoteTypes DEF Wait, PanelTypeOK, At
    <2>3. QuotedAsShown' /\ (~unread' => OneInFlight' /\ OwnTransaction')
      BY <1>1, <1>2, <2>1 DEF QuotedAsShown, OneInFlight, OwnTransaction, Covers
    <2> QED
      BY <1>3, <2>2, <2>3 DEF PanelInv
  <1>5. CASE QuoteFailed \/ (\E yes \in BOOLEAN : RefreshQuote(yes))
             \/ \E age \in 0..QuoteAge : QuoteRead(age)
    <2>1. UNCHANGED <<trade, form>>
      BY <1>5 DEF QuoteFailed, RefreshQuote, QuoteRead
    <2>2. QuotedAsShown' /\ (~unread' => OneInFlight' /\ OwnTransaction')
      BY <1>1, <1>2, <2>1 DEF QuotedAsShown, OneInFlight, OwnTransaction, Covers
    <2>3. /\ armed' \in BOOLEAN /\ liveQuote' \in Quote
          /\ reading' \in [on : BOOLEAN, ask : Ask \cup {NoAsk}, loading : BOOLEAN]
      <3>1. CASE QuoteFailed
        BY <1>1, <3>1 DEF PanelTypeOK, QuoteFailed, NotReading
      <3>2. CASE \E yes \in BOOLEAN : RefreshQuote(yes)
        <4>1. PICK yes \in BOOLEAN : RefreshQuote(yes)
          BY <3>2
        <4>2. form \in Ask \cup {NoAsk} /\ (~yes) \in BOOLEAN /\ armed \in BOOLEAN
          BY <1>1 DEF PanelTypeOK
        <4>3. reading' = [on |-> TRUE, ask |-> form, loading |-> ~yes]
              /\ (armed' = armed \/ armed' = FALSE) /\ liveQuote' = liveQuote
          BY <4>1 DEF RefreshQuote
        <4> QED
          BY <1>1, <4>2, <4>3 DEF PanelTypeOK
      <3>3. CASE \E age \in 0..QuoteAge : QuoteRead(age)
        BY <1>1, <3>3, QuoteTypes DEF PanelTypeOK, QuoteRead, NotReading
      <3> QED
        BY <1>5, <3>1, <3>2, <3>3
    <2>4. PanelTypeOK'
      BY <1>1, <1>2, <2>1, <2>3 DEF PanelTypeOK, At
    <2> QED
      BY <1>3, <2>2, <2>4 DEF PanelInv
  <1>6. CASE \E ask \in Ask \cup {NoAsk} : Change(ask)
    <2>1. trade' = trade /\ trade.at = "idle"
      BY <1>6 DEF Change, Pending
    <2>2. QuotedAsShown' /\ (~unread' => OneInFlight' /\ OwnTransaction')
      BY <1>1, <1>2, <2>1 DEF QuotedAsShown, OneInFlight, OwnTransaction
    <2>3. PanelTypeOK'
      BY <1>1, <1>2, <1>6, <2>1, QuoteTypes DEF PanelTypeOK, Change
    <2> QED
      BY <1>3, <2>2, <2>3 DEF PanelInv
  <1>7. CASE Submit \/ Stop \/ Begin \/ \E age \in 0..QuoteAge : ReadQuote(age)
    <2>1. UNCHANGED <<form, armed, reading, liveQuote>>
      BY <1>7 DEF Submit, Stop, Begin, ReadQuote
    <2>2. /\ trade' \in [at : At, quote : Quote]
          /\ trade'.at # "idle" => form # NoAsk
      BY <1>1, <1>7, QuoteTypes
      DEF Submit, TradeDisabled, Stop, Begin, ReadQuote, Ready, QuotedAsShown, PanelTypeOK, At
    <2>3. QuotedAsShown'
      BY <1>1, <1>7, <2>1, <2>2
      DEF Submit, Stop, Begin, Executable, Matches, ReadQuote, Ready, QuotedAsShown, PanelTypeOK, At
    <2>4. PanelTypeOK'
      BY <1>1, <1>2, <2>1, <2>2 DEF PanelTypeOK, At
    <2>5. ~unread' => OneInFlight' /\ OwnTransaction'
      <3>1. /\ trade.at \notin {"approval", "receipt"} /\ trade'.at \notin {"approval", "receipt"}
            /\ trade'.at \in {"requoting", "trading"} => trade.at \in {"requoting", "trading"}
        BY <1>7, <2>2 DEF Submit, TradeDisabled, Pending, Stop, Begin, ReadQuote, Ready
      <3> QED
        BY <1>1, <1>2, <2>1, <3>1 DEF OneInFlight, OwnTransaction, Covers
    <2> QED
      BY <1>3, <2>3, <2>4, <2>5 DEF PanelInv
  <1> QED
    BY <1>4, <1>5, <1>6, <1>7

LEMMA AllowanceKeepsInv ==
    ASSUME PanelInv, NEW known \in BOOLEAN, ReadAllowance(known)
    PROVE  PanelInv'
  <1>1. PanelTypeOK /\ txs \in Seq(Tx) /\ SentAsShown /\ QuotedAsShown /\ TradesCovered
        /\ (~unread => OneInFlight /\ OwnTransaction)
    BY DEF PanelInv
  <1>2. UNCHANGED <<form, armed, reading, liveQuote, allowance, txs, unread>>
    BY DEF ReadAllowance
  <1>3. /\ trade.at = "allowance" /\ trade'.at \in {"trading", "approving"}
        /\ trade'.quote = trade.quote /\ trade' \in [at : At, quote : Quote]
        /\ trade'.at = "trading" => Covers
    BY <1>1 DEF ReadAllowance, Enough, QuotedAsShown, Covers, PanelTypeOK, At
  <1>4. PanelTypeOK' /\ SentAsShown' /\ TradesCovered' /\ QuotedAsShown'
    BY <1>1, <1>2, <1>3 DEF PanelTypeOK, At, SentAsShown, TradesCovered, QuotedAsShown
  <1>5. ~unread' => OneInFlight' /\ OwnTransaction'
    BY <1>1, <1>2, <1>3 DEF OneInFlight, OwnTransaction, Covers
  <1> QED
    BY <1>1, <1>2, <1>4, <1>5 DEF PanelInv

\* The wallet is handed the submission's transaction: no other is in flight then.
LEMMA ConfirmKeepsInv ==
    ASSUME PanelInv, Confirm
    PROVE  PanelInv'
  <1>1. PanelTypeOK /\ txs \in Seq(Tx) /\ SentAsShown /\ QuotedAsShown /\ TradesCovered
        /\ (~unread => OneInFlight /\ OwnTransaction)
    BY DEF PanelInv
  <1>2. UNCHANGED <<form, armed, reading, liveQuote, allowance, unread>>
    BY DEF Confirm
  <1>3. PICK kind \in {"approve", "trade"} :
          /\ Send(kind)
          /\ trade.at = IF kind = "approve" THEN "approving" ELSE "trading"
          /\ trade' = [trade EXCEPT !.at = IF kind = "approve" THEN "approval" ELSE "receipt"]
    BY DEF Confirm
  <1> DEFINE tx == [kind |-> kind, ask |-> trade.quote.ask, form |-> form, status |-> "pending"]
  <1>4. /\ trade' \in [at : At, quote : Quote] /\ trade'.quote = trade.quote
        /\ trade'.at = IF kind = "approve" THEN "approval" ELSE "receipt"
        /\ form \in Ask /\ trade.quote.ask = form
    BY <1>1, <1>3 DEF PanelTypeOK, QuotedAsShown, At
  <1>5. tx \in Tx /\ tx.ask = tx.form
    BY <1>4 DEF Tx
  <1>6. txs' = Append(txs, tx) /\ Len(txs) < MaxTxs
    BY <1>3 DEF Send
  <1> HIDE DEF tx
  <1>7. /\ txs' \in Seq(Tx) /\ Len(txs') = Len(txs) + 1 /\ Len(txs') <= MaxTxs
        /\ \A i \in 1..Len(txs) : txs'[i] = txs[i]
        /\ txs'[Len(txs')] = tx
        /\ DOMAIN txs' = 1..Len(txs') /\ DOMAIN txs = 1..Len(txs) /\ Len(txs) \in Nat
    BY <1>1, <1>5, <1>6, PanelAssumption DEF PanelTypeOK
  <1>8. \A i \in DOMAIN txs' : i = Len(txs') \/ (i \in DOMAIN txs /\ i # Len(txs') /\ txs'[i] = txs[i])
    BY <1>7
  <1>9. SentAsShown'
    BY <1>1, <1>5, <1>7, <1>8 DEF SentAsShown
  <1>10. tx.status = "pending" /\ tx.kind = kind /\ tx.ask = form
    BY <1>4 DEF tx
  <1>11. TradesCovered'
    BY <1>1, <1>2, <1>7, <1>8, <1>10 DEF TradesCovered
  <1>12. PanelTypeOK'
    <2>1. \A i \in DOMAIN txs' : txs'[i] \in Tx
      BY <1>7
    <2> QED
      BY <1>1, <1>2, <1>4, <1>7, <2>1 DEF PanelTypeOK, At, Tx
  <1>13. QuotedAsShown'
    BY <1>1, <1>2, <1>3, <1>4 DEF QuotedAsShown
  <1>14. ASSUME ~unread' PROVE OneInFlight' /\ OwnTransaction'
    <2>1. OneInFlight /\ OwnTransaction
      BY <1>1, <1>2, <1>14
    <2>2. \A i \in DOMAIN txs : txs[i].status # "pending"
      BY <1>3, <2>1 DEF OneInFlight
    <2>3. OneInFlight'
      BY <1>4, <1>7, <1>8, <2>2 DEF OneInFlight
    <2>4. OwnTransaction'
      BY <1>2, <1>3, <1>4, <1>7, <1>10, <2>1 DEF OwnTransaction, Covers
    <2> QED
      BY <2>3, <2>4
  <1> QED
    BY <1>7, <1>9, <1>11, <1>12, <1>13, <1>14 DEF PanelInv

LEMMA ReceiptKeepsInv ==
    ASSUME PanelInv, Receipt \/ ReceiptUnread
    PROVE  PanelInv'
  <1>1. PanelTypeOK /\ txs \in Seq(Tx) /\ SentAsShown /\ QuotedAsShown /\ TradesCovered
        /\ (~unread => OneInFlight /\ OwnTransaction)
    BY DEF PanelInv
  <1>2. /\ UNCHANGED <<form, armed, reading, liveQuote, allowance, txs>>
        /\ unread' = unread \/ unread' = TRUE
    BY DEF Receipt, ReceiptUnread
  <1>3. /\ trade' \in [at : At, quote : Quote] /\ trade'.at \in {"idle", "requoting"}
        /\ trade'.at = "requoting" =>
              trade.at = "approval" /\ txs[Len(txs)].status = "success"
        /\ ~unread' => txs[Len(txs)].status # "pending"
    <2>1. trade \in [at : At, quote : Quote] /\ NoQuote \in Quote
      BY <1>1, QuoteTypes DEF PanelTypeOK, At
    <2>2. CASE Receipt
      BY <2>1, <2>2 DEF Receipt, Ready, At
    <2>3. CASE ReceiptUnread
      BY <2>1, <2>3 DEF ReceiptUnread, Ready, At
    <2> QED
      BY <2>2, <2>3
  <1>4. PanelTypeOK'
    <2>1. unread' \in BOOLEAN
      BY <1>1, <1>2 DEF PanelTypeOK
    <2> QED
      BY <1>1, <1>2, <1>3, <2>1 DEF PanelTypeOK, At
  <1>5. SentAsShown' /\ TradesCovered' /\ QuotedAsShown'
    <2>1. trade.at # "idle"
      BY DEF Receipt, ReceiptUnread
    <2> QED
      BY <1>1, <1>2, <1>3, <2>1 DEF SentAsShown, TradesCovered, QuotedAsShown
  <1>6. ASSUME ~unread' PROVE OneInFlight' /\ OwnTransaction'
    <2>1. OneInFlight /\ OwnTransaction /\ txs[Len(txs)].status # "pending"
      BY <1>1, <1>2, <1>3, <1>6
    <2>2. OneInFlight'
      BY <1>2, <2>1 DEF OneInFlight
    <2>3. OwnTransaction'
      BY <1>2, <1>3, <2>1 DEF OwnTransaction, Covers
    <2> QED
      BY <2>2, <2>3
  <1> QED
    BY <1>1, <1>2, <1>4, <1>5, <1>6 DEF PanelInv

\* A block takes the wallet's next transaction: the one that is waited for, which the
\* allowance read or approved before covers.
LEMMA MineKeepsInv ==
    ASSUME PanelInv, NEW inTime \in BOOLEAN, Mine(inTime)
    PROVE  PanelInv'
  <1>1. PanelTypeOK /\ txs \in Seq(Tx) /\ SentAsShown /\ QuotedAsShown /\ TradesCovered
        /\ (~unread => OneInFlight /\ OwnTransaction)
    BY DEF PanelInv
  <1> DEFINE covered(tx) == tx.kind = "approve" \/ allowance[SideOf(tx.ask)] >= Amount(tx.ask)
             status(tx) == IF ~covered(tx) THEN "uncovered"
                           ELSE IF tx.kind = "trade" /\ ~inTime THEN "reverted" ELSE "success"
  <1>2. PICK i \in DOMAIN txs :
          /\ txs[i].status = "pending"
          /\ txs' = [txs EXCEPT ![i].status = status(txs[i])]
          /\ allowance' =
                IF status(txs[i]) # "success" THEN allowance
                ELSE [allowance EXCEPT ![SideOf(txs[i].ask)] =
                         IF txs[i].kind = "approve" THEN Amount(txs[i].ask) ELSE @ - Amount(txs[i].ask)]
          /\ UNCHANGED <<form, armed, reading, liveQuote, trade, unread>>
    BY DEF Mine
  <1> DEFINE tx == txs[i]
             new == status(tx)
  <1>3. /\ DOMAIN txs = 1..Len(txs) /\ Len(txs) \in Nat /\ tx \in Tx
        /\ SideOf(tx.ask) \in Side /\ Amount(tx.ask) \in Nat
    <2>1. DOMAIN txs = 1..Len(txs) /\ Len(txs) \in Nat /\ tx \in Tx
      BY <1>1
    <2> QED
      BY <2>1, PanelAssumption DEF Tx
  <1>4. /\ new \in {"success", "reverted", "uncovered"}
        /\ new = "uncovered" => tx.kind = "trade" /\ ~(allowance[SideOf(tx.ask)] >= Amount(tx.ask))
        /\ new = "success" /\ tx.kind = "trade" => allowance[SideOf(tx.ask)] >= Amount(tx.ask)
    BY <1>3 DEF Tx
  <1>5. /\ txs' = [txs EXCEPT ![i].status = new] /\ tx.status = "pending"
        /\ UNCHANGED <<form, armed, reading, liveQuote, trade, unread>>
    BY <1>2
  <1>6. /\ new # "success" => allowance' = allowance
        /\ new = "success" /\ tx.kind = "approve" =>
              allowance' = [allowance EXCEPT ![SideOf(tx.ask)] = Amount(tx.ask)]
        /\ new = "success" /\ tx.kind = "trade" =>
              allowance' = [allowance EXCEPT ![SideOf(tx.ask)] =
                               allowance[SideOf(tx.ask)] - Amount(tx.ask)]
    <2> HIDE DEF status
    <2> QED
      BY <1>2
  <1> HIDE DEF new, status, covered
  <1>7. /\ txs' \in Seq(Tx) /\ Len(txs') = Len(txs) /\ DOMAIN txs' = DOMAIN txs
        /\ \A j \in DOMAIN txs : j # i => txs'[j] = txs[j]
        /\ txs'[i] = [tx EXCEPT !.status = new]
    <2>1. [tx EXCEPT !.status = new] \in Tx
      BY <1>3, <1>4 DEF Tx
    <2>2. txs' = [txs EXCEPT ![i] = [tx EXCEPT !.status = new]]
      BY <1>5
    <2> HIDE DEF tx
    <2> QED
      BY <1>1, <2>1, <2>2
  <1>8. /\ txs'[i].kind = tx.kind /\ txs'[i].ask = tx.ask /\ txs'[i].form = tx.form
        /\ txs'[i].status = new
    BY <1>3, <1>7 DEF Tx
  <1> HIDE DEF tx
  <1>9. allowance' \in [Side -> Nat]
    <2>1. allowance \in [Side -> Nat] /\ allowance[SideOf(tx.ask)] \in Nat /\ tx.kind \in {"approve", "trade"}
      BY <1>1, <1>3 DEF PanelTypeOK, Tx
    <2> QED
      BY <1>3, <1>4, <1>6, <2>1
  <1>10. PanelTypeOK'
    <2>1. \A j \in DOMAIN txs' : txs'[j] \in Tx
      BY <1>7
    <2> QED
      BY <1>1, <1>5, <1>7, <1>9, <2>1 DEF PanelTypeOK, At, Tx
  <1>11. SentAsShown'
    BY <1>1, <1>7, <1>8 DEF SentAsShown, tx
  <1>12. QuotedAsShown'
    BY <1>1, <1>5 DEF QuotedAsShown
  <1>13. ASSUME ~unread' PROVE OneInFlight' /\ OwnTransaction' /\ TradesCovered'
    <2>1. ~unread /\ OneInFlight /\ OwnTransaction
      BY <1>1, <1>5, <1>13
    <2>2. i = Len(txs) /\ trade.at \in {"approval", "receipt"}
      BY <1>5, <2>1 DEF OneInFlight, tx
    <2>3. OneInFlight'
      BY <1>4, <1>5, <1>7, <1>8, <2>1, <2>2 DEF OneInFlight
    <2>4. /\ tx.ask = form /\ tx.kind = (IF trade.at = "approval" THEN "approve" ELSE "trade")
          /\ trade.at = "receipt" => allowance[SideOf(form)] >= Amount(form)
      BY <1>5, <2>1, <2>2 DEF OwnTransaction, Covers, tx
    <2>5. new # "uncovered"
      BY <1>4, <2>2, <2>4
    <2>6. TradesCovered'
      BY <1>1, <1>7, <1>8, <2>1, <2>5 DEF TradesCovered
    <2>7. trade.at = "approval" /\ new = "success" => Covers'
      <3>1. SUFFICES ASSUME trade.at = "approval", new = "success" PROVE Covers'
        OBVIOUS
      <3>2. allowance' = [allowance EXCEPT ![SideOf(form)] = Amount(form)]
        BY <1>6, <2>4, <3>1
      <3>3. allowance'[SideOf(form)] = Amount(form) /\ Amount(form) \in Nat
        BY <1>1, <1>3, <2>4, <3>2 DEF PanelTypeOK
      <3> QED
        BY <1>5, <3>3 DEF Covers
    <2>8. OwnTransaction'
      <3>1. txs' # << >> /\ txs'[Len(txs')].ask = form' /\ txs'[Len(txs')].status = new
            /\ txs'[Len(txs')].kind = (IF trade'.at = "approval" THEN "approve" ELSE "trade")
        BY <1>3, <1>5, <1>7, <1>8, <2>2, <2>4
      <3> QED
        BY <1>4, <1>5, <2>2, <2>7, <3>1 DEF OwnTransaction
    <2> QED
      BY <2>3, <2>6, <2>8
  <1>14. TradesCovered'
    BY <1>13 DEF TradesCovered
  <1> QED
    BY <1>7, <1>10, <1>11, <1>12, <1>13, <1>14 DEF PanelInv

LEMMA PanelStep == PanelInv /\ [PanelNext]_panelVars => PanelInv'
  <1> SUFFICES ASSUME PanelInv, [PanelNext]_panelVars PROVE PanelInv'
    OBVIOUS
  <1>1. CASE \/ Wait \/ QuoteFailed \/ Submit \/ Stop \/ Begin
             \/ \E ask \in Ask \cup {NoAsk} : Change(ask)
             \/ \E yes \in BOOLEAN : RefreshQuote(yes)
             \/ \E age \in 0..QuoteAge : QuoteRead(age) \/ ReadQuote(age)
    BY <1>1, QuotesKeepInv
  <1>2. CASE \E yes \in BOOLEAN : ReadAllowance(yes)
    BY <1>2, AllowanceKeepsInv
  <1>3. CASE Confirm
    BY <1>3, ConfirmKeepsInv
  <1>4. CASE Receipt \/ ReceiptUnread
    BY <1>4, ReceiptKeepsInv
  <1>5. CASE \E yes \in BOOLEAN : Mine(yes)
    BY <1>5, MineKeepsInv
  <1>6. CASE UNCHANGED panelVars
    BY <1>6
    DEF panelVars, PanelInv, PanelTypeOK, SentAsShown, QuotedAsShown, OneInFlight,
        OwnTransaction, Covers, TradesCovered
  <1> QED
    BY <1>1, <1>2, <1>3, <1>4, <1>5, <1>6 DEF PanelNext

LEMMA PanelInvariant == PanelSpec => []PanelInv
  BY PanelStarts, PanelStep, PTL DEF PanelSpec

\* Every state of the trade panel has its type.
THEOREM PanelTyped == PanelSpec => []PanelTypeOK
  <1>1. PanelInv => PanelTypeOK
    BY DEF PanelInv
  <1> QED
    BY PanelInvariant, <1>1, PTL

\* For any forms, ages of quotes and interleavings, the wallet is asked to send what
\* the form shows, though the quote shown can be of an earlier form.
THEOREM WalletSendsWhatIsShown == PanelSpec => []SentAsShown
  <1>1. PanelInv => SentAsShown
    BY DEF PanelInv
  <1> QED
    BY PanelInvariant, <1>1, PTL

\* No trade is sent that the allowance fails to cover, while receipts can be read:
\* one submission at a time, and one transaction of it, keep the allowance it read.
THEOREM AllowanceCoversTrades == PanelSpec => []TradesCovered
  <1>1. PanelInv => TradesCovered
    BY DEF PanelInv
  <1> QED
    BY PanelInvariant, <1>1, PTL
-----------------------------------------------------------------------------
(* The launch form. *)

Sent == [kind : {"approve", "launch", "approve_buy", "buy"}, fee : Fee \cup {0},
         of : Metadata \cup {Nothing}, uri : Metadata \cup {Nothing},
         first : BOOLEAN, paid : Fee \cup {0}, status : {"pending", "success", "reverted"}]
AttemptAt == {"idle", "checking", "uploading", "allowance", "approving", "approval", "launching",
              "receipt", "quoting", "approving_buy", "approval_buy", "buying", "bought"}
Attempt == [at : AttemptAt, of : Metadata \cup {Nothing}, had : Metadata \cup {Nothing},
            buy : BOOLEAN, fee : Fee \cup {0}, uri : Metadata \cup {Nothing}, tx : 0..MaxSent]

\* From its upload on, an attempt has the metadata of what the form said at the click.
UriOfAttempt ==
    attempt.at \in {"allowance", "approving", "approval", "launching"} => attempt.uri = attempt.of
UriOfLaunches == \A i \in DOMAIN sent : sent[i].kind = "launch" => sent[i].uri = sent[i].of

\* What an attempt waits for was sent, and a launch that can still succeed is announced
\* or waited for: no attempt leaves one behind.
WaitsForSent ==
    attempt.at \in {"approval", "receipt", "approval_buy", "bought"} => attempt.tx \in DOMAIN sent
NoneLeftBehind ==
    \A i \in DOMAIN sent :
        sent[i].kind = "launch" /\ sent[i].status # "reverted" =>
            i \in announced \/ (attempt.at = "receipt" /\ attempt.tx = i)

FormInv ==
    /\ FormTypeOK /\ sent \in Seq(Sent)
    /\ UriOfAttempt /\ UriOfLaunches
    /\ WaitsForSent
    /\ ~unsure => NoneLeftBehind
-----------------------------------------------------------------------------
LEMMA FormStarts == FormInit => FormInv
  <1> SUFFICES ASSUME FormInit PROVE FormInv
    OBVIOUS
  <1>1. sent = << >> /\ attempt = NoAttempt /\ announced = {}
    BY DEF FormInit
  <1>2. NoAttempt \in Attempt /\ NoAttempt.at = "idle"
    BY FormAssumption DEF NoAttempt, Attempt, AttemptAt
  <1>3. FormTypeOK
    <2>1. safe \in BOOLEAN /\ unsure \in BOOLEAN
      BY DEF FormInit
    <2> QED
      BY <1>1, <1>2, <2>1, FormAssumption DEF FormInit, FormTypeOK, Attempt, AttemptAt
  <1>4. sent \in Seq(Sent) /\ UriOfLaunches /\ NoneLeftBehind
    BY <1>1 DEF UriOfLaunches, NoneLeftBehind
  <1>5. UriOfAttempt /\ WaitsForSent
    BY <1>1, <1>2 DEF UriOfAttempt, WaitsForSent
  <1> QED
    BY <1>3, <1>4, <1>5 DEF FormInv

\* The creator, governance, and the steps before a launch is sent.
LEMMA PreparingKeepsInv ==
    ASSUME FormInv,
           \/ Refused \/ ReadFee \/ Upload \/ Approval
           \/ \E of \in Metadata : Edit(of)
           \/ \E f \in Fee : SetLaunchFee(f)
           \/ \E yes \in BOOLEAN : Launch(yes) \/ ReadFactoryAllowance(yes)
    PROVE  FormInv'
  <1>1. /\ FormTypeOK /\ sent \in Seq(Sent) /\ UriOfAttempt /\ UriOfLaunches /\ WaitsForSent
        /\ ~unsure => NoneLeftBehind
        /\ attempt \in Attempt
    BY DEF FormInv, FormTypeOK, Attempt, AttemptAt
  <1>2. UNCHANGED <<safe, approved, sent, announced, unsure>>
    BY DEF Refused, ReadFee, Upload, Approval, Edit, SetLaunchFee, Launch, ReadFactoryAllowance,
           sentVars
  <1>3. NoAttempt \in Attempt /\ NoAttempt.at = "idle"
    BY FormAssumption DEF NoAttempt, Attempt, AttemptAt
  <1>4. CASE (\E of \in Metadata : Edit(of)) \/ (\E f \in Fee : SetLaunchFee(f))
    <2>1. /\ attempt' = attempt /\ fields' \in Metadata /\ uploaded' \in Metadata \cup {Nothing}
          /\ fee' \in Fee /\ feeChanges' \in 0..MaxFees
      BY <1>1, <1>4, FormAssumption DEF Edit, SetLaunchFee, sentVars, FormTypeOK
    <2>2. FormTypeOK'
      BY <1>1, <1>2, <2>1 DEF FormTypeOK
    <2> QED
      BY <1>1, <1>2, <2>1, <2>2
      DEF FormInv, UriOfAttempt, UriOfLaunches, WaitsForSent, NoneLeftBehind
  <1>5. CASE Refused \/ ReadFee \/ Upload \/ Approval
             \/ \E yes \in BOOLEAN : Launch(yes) \/ ReadFactoryAllowance(yes)
    <2>1. UNCHANGED <<fields, fee, feeChanges>> /\ attempt.at # "receipt"
      BY <1>5 DEF Refused, ReadFee, Upload, Approval, Launch, ReadFactoryAllowance, sentVars
    <2>2. attempt.of \in Metadata \cup {Nothing} /\ uploaded' \in Metadata \cup {Nothing}
      BY <1>1, <1>5
      DEF Refused, ReadFee, Upload, Approval, Launch, ReadFactoryAllowance, FormTypeOK, Attempt
    <2>3. /\ attempt' \in Attempt
          /\ attempt'.at \in {"allowance", "approving", "approval", "launching"} =>
                attempt'.uri = attempt'.of
          /\ attempt'.at \notin {"approval", "receipt", "approval_buy", "bought"}
      <3>1. CASE Refused
        BY <1>3, <3>1 DEF Refused
      <3>2. CASE Approval
        BY <1>1, <1>3, <3>2 DEF Approval, UriOfAttempt, Attempt, AttemptAt
      <3>3. CASE Upload
        BY <1>1, <2>2, <3>3 DEF Upload, Attempt, AttemptAt
      <3>4. CASE ReadFee
        <4>1. fee \in Fee
          BY <1>1 DEF FormTypeOK
        <4>2. CASE Serves(attempt.had)
          <5>1. attempt' = [attempt EXCEPT !.fee = fee, !.had = Nothing, !.at = "allowance",
                                           !.uri = attempt.of]
            BY <3>4, <4>2 DEF ReadFee, Serves, Commits
          <5> QED
            BY <1>1, <2>2, <4>1, <5>1 DEF Attempt, AttemptAt
        <4>3. CASE ~Serves(attempt.had)
          <5>1. attempt' = [attempt EXCEPT !.fee = fee, !.had = Nothing, !.at = "uploading",
                                           !.uri = Nothing]
            BY <3>4, <4>3 DEF ReadFee
          <5> QED
            BY <1>1, <4>1, <5>1 DEF Attempt, AttemptAt
        <4> QED
          BY <4>2, <4>3
      <3>5. CASE \E yes \in BOOLEAN : Launch(yes)
        BY <1>1, <1>3, <3>5 DEF Launch, FormTypeOK, Attempt, AttemptAt, NoAttempt
      <3>6. CASE \E yes \in BOOLEAN : ReadFactoryAllowance(yes)
        <4>1. PICK at \in {"launching", "approving"}, tx \in {0, 1} :
                attempt' = [attempt EXCEPT !.at = at, !.tx = tx]
          BY <3>6 DEF ReadFactoryAllowance
        <4>2. attempt.at = "allowance"
          BY <3>6 DEF ReadFactoryAllowance
        <4>3. tx \in 0..MaxSent
          BY FormAssumption
        <4> QED
          BY <1>1, <4>1, <4>2, <4>3 DEF UriOfAttempt, Attempt, AttemptAt
      <3> QED
        BY <1>5, <3>1, <3>2, <3>3, <3>4, <3>5, <3>6
    <2>4. FormTypeOK'
      BY <1>1, <1>2, <2>1, <2>2, <2>3 DEF FormTypeOK, Attempt, AttemptAt
    <2>5. UriOfAttempt' /\ UriOfLaunches' /\ WaitsForSent'
      BY <1>1, <1>2, <2>3 DEF UriOfAttempt, UriOfLaunches, WaitsForSent
    <2>6. ~unsure' => NoneLeftBehind'
      BY <1>1, <1>2, <2>1 DEF NoneLeftBehind
    <2> QED
      BY <1>1, <1>2, <2>4, <2>5, <2>6 DEF FormInv
  <1> QED
    BY <1>4, <1>5

\* The outcome of a launch, and the initial buy after it.
LEMMA OutcomesKeepInv ==
    ASSUME FormInv,
           Launched \/ Unread \/ BuyApproved \/ BuyEnds \/ \E yes \in BOOLEAN : BuyQuoted(yes)
    PROVE  FormInv'
  <1>1. /\ FormTypeOK /\ sent \in Seq(Sent) /\ UriOfAttempt /\ UriOfLaunches /\ WaitsForSent
        /\ ~unsure => NoneLeftBehind
        /\ attempt \in Attempt
    BY DEF FormInv, FormTypeOK, Attempt, AttemptAt
  <1>2. UNCHANGED <<safe, fields, uploaded, fee, feeChanges, approved, sent>>
    BY DEF Launched, Unread, BuyApproved, BuyEnds, BuyQuoted, sentVars
  <1>3. NoAttempt \in Attempt /\ NoAttempt.at = "idle"
    BY FormAssumption DEF NoAttempt, Attempt, AttemptAt
  <1>4. /\ attempt' \in Attempt
        /\ attempt'.at \in {"idle", "quoting", "buying", "approving_buy"}
    BY <1>1, <1>3 DEF Launched, Unread, BuyApproved, BuyEnds, BuyQuoted, Goes, Attempt, AttemptAt
  <1>5. UriOfAttempt' /\ UriOfLaunches' /\ WaitsForSent'
    BY <1>1, <1>2, <1>4 DEF UriOfAttempt, UriOfLaunches, WaitsForSent
  <1>6. CASE Launched
    <2>1. unsure' = unsure /\ attempt.at = "receipt" /\ attempt.tx \in DOMAIN sent
      BY <1>1, <1>6 DEF Launched, WaitsForSent
    <2>2. /\ announced' = (IF Status = "success" THEN announced \cup {attempt.tx} ELSE announced)
          /\ Status # "pending"
      BY <1>6 DEF Launched, Announces
    <2>3. FormTypeOK'
      BY <1>1, <1>2, <1>4, <2>1, <2>2 DEF FormTypeOK, Attempt, AttemptAt
    <2>4. ~unsure' => NoneLeftBehind'
      <3>1. sent[attempt.tx].status \in {"success", "reverted"}
        <4>1. sent[attempt.tx] \in Sent
          BY <1>1, <2>1
        <4> QED
          BY <2>2, <4>1 DEF Status, Sent
      <3> QED
        BY <1>1, <1>2, <2>1, <2>2, <3>1 DEF NoneLeftBehind, Status
    <2> QED
      BY <1>1, <1>2, <1>5, <2>3, <2>4 DEF FormInv
  <1>7. CASE Unread
    <2>1. unsure' = TRUE /\ announced' = announced
      BY <1>7 DEF Unread
    <2>2. FormTypeOK'
      BY <1>1, <1>2, <1>4, <2>1 DEF FormTypeOK, Attempt, AttemptAt
    <2> QED
      BY <1>1, <1>2, <1>5, <2>1, <2>2 DEF FormInv
  <1>8. CASE BuyApproved \/ BuyEnds \/ \E yes \in BOOLEAN : BuyQuoted(yes)
    <2>1. UNCHANGED <<announced, unsure>> /\ attempt.at # "receipt"
      BY <1>8 DEF BuyApproved, BuyEnds, BuyQuoted
    <2>2. FormTypeOK'
      BY <1>1, <1>2, <1>4, <2>1 DEF FormTypeOK, Attempt, AttemptAt
    <2>3. ~unsure' => NoneLeftBehind'
      BY <1>1, <1>2, <2>1 DEF NoneLeftBehind
    <2> QED
      BY <1>1, <1>2, <1>5, <2>2, <2>3 DEF FormInv
  <1> QED
    BY <1>6, <1>7, <1>8

LEMMA SendingKeepsInv ==
    ASSUME FormInv, ConfirmNext
    PROVE  FormInv'
  <1>1. /\ FormTypeOK /\ sent \in Seq(Sent) /\ UriOfAttempt /\ UriOfLaunches /\ WaitsForSent
        /\ ~unsure => NoneLeftBehind
        /\ attempt \in Attempt
    BY DEF FormInv, FormTypeOK, Attempt, AttemptAt
  <1>2. UNCHANGED <<safe, fields, uploaded, fee, feeChanges, approved, announced, unsure>>
    BY DEF ConfirmNext
  <1>3. PICK kind \in {"approve", "launch", "approve_buy", "buy"},
             next \in {"approval", "receipt", "approval_buy", "bought"} :
          /\ SendNext(kind, next)
          /\ kind = "launch" <=> next = "receipt"
          /\ kind = "launch" <=> attempt.at = "launching"
          /\ attempt.at # "receipt"
    BY DEF ConfirmNext
  <1>4. PICK tx \in Sent :
          /\ sent' = Append(sent, tx) /\ tx.kind = kind /\ tx.status = "pending"
          /\ kind = "launch" => tx.of = attempt.of /\ tx.uri = attempt.uri
    <2> DEFINE tx == [kind |-> kind,
                      of |-> IF kind = "launch" THEN attempt.of ELSE Nothing,
                      uri |-> IF kind = "launch" THEN attempt.uri ELSE Nothing,
                      fee |-> IF kind = "approve" \/ kind = "launch" THEN attempt.fee ELSE 0,
                      first |-> kind = "launch" /\ safe /\ attempt.tx = 1,
                      paid |-> 0, status |-> "pending"]
    <2>1. /\ attempt.of \in Metadata \cup {Nothing} /\ attempt.uri \in Metadata \cup {Nothing}
          /\ attempt.fee \in Fee \cup {0}
      BY <1>1 DEF Attempt
    <2>2. tx \in Sent
      BY <2>1 DEF Sent
    <2>3. sent' = Append(sent, tx)
      BY <1>3 DEF SendNext
    <2> QED
      BY <2>2, <2>3
  <1>5. /\ sent' \in Seq(Sent) /\ Len(sent') = Len(sent) + 1 /\ Len(sent') \in 1..MaxSent
        /\ sent'[Len(sent')] = tx
        /\ DOMAIN sent' = 1..Len(sent')
        /\ \A i \in DOMAIN sent' : i = Len(sent') \/ (i \in DOMAIN sent /\ sent'[i] = sent[i])
        /\ DOMAIN sent \subseteq DOMAIN sent'
    <2>1. Len(sent) < MaxSent
      BY <1>3 DEF SendNext
    <2> QED
      BY <1>1, <1>4, <2>1, FormAssumption
  <1>6. attempt' \in Attempt /\ attempt'.at = next /\ attempt'.tx = Len(sent')
    <2>1. attempt' = [attempt EXCEPT !.at = next, !.tx = Len(sent')]
      BY <1>3 DEF SendNext
    <2> QED
      <3>1. PICK n \in 0..MaxSent : n = Len(sent')
        BY <1>5, FormAssumption
      <3>2. next \in AttemptAt /\ attempt' = [attempt EXCEPT !.at = next, !.tx = n]
        BY <2>1, <3>1 DEF AttemptAt
      <3>3. attempt' \in Attempt /\ attempt'.at = next /\ attempt'.tx = n
        BY <1>1, <3>2 DEF Attempt
      <3> QED
        BY <3>1, <3>3
  <1>7. FormTypeOK'
    <2>1. \A i \in DOMAIN sent' : sent'[i] \in Sent
      BY <1>5
    <2>2. announced' \subseteq DOMAIN sent'
      BY <1>1, <1>2, <1>5 DEF FormTypeOK
    <2> QED
      BY <1>1, <1>2, <1>5, <1>6, <2>1, <2>2 DEF FormTypeOK, Sent, Attempt, AttemptAt
  <1>8. UriOfAttempt'
    BY <1>1, <1>3, <1>6, <1>2 DEF UriOfAttempt, ConfirmNext, SendNext, Attempt
  <1>9. UriOfLaunches'
    BY <1>1, <1>3, <1>4, <1>5 DEF UriOfAttempt, UriOfLaunches
  <1>10. WaitsForSent'
    BY <1>5, <1>6 DEF WaitsForSent
  <1>11. ~unsure' => NoneLeftBehind'
    BY <1>1, <1>2, <1>3, <1>4, <1>5, <1>6 DEF NoneLeftBehind
  <1> QED
    BY <1>5, <1>7, <1>8, <1>9, <1>10, <1>11 DEF FormInv

LEMMA MiningKeepsInv ==
    ASSUME FormInv, NEW i \in DOMAIN sent, NEW fails \in BOOLEAN, MineNext(i, fails)
    PROVE  FormInv'
  <1>1. /\ FormTypeOK /\ sent \in Seq(Sent) /\ UriOfAttempt /\ UriOfLaunches /\ WaitsForSent
        /\ ~unsure => NoneLeftBehind
        /\ fee \in Fee /\ approved \in Nat /\ sent[i] \in Sent
    BY DEF FormInv, FormTypeOK
  <1>2. UNCHANGED <<safe, fields, uploaded, attempt, fee, feeChanges, announced, unsure>>
    BY DEF MineNext
  <1> DEFINE tx == sent[i]
             allowed == IF tx.kind = "approve" \/ tx.first THEN tx.fee ELSE approved
             done == ~fails /\ (tx.kind = "launch" => allowed >= fee)
             mined == [tx EXCEPT !.status = IF done THEN "success" ELSE "reverted",
                                 !.paid = IF done /\ tx.kind = "launch" THEN fee ELSE 0]
  <1>3. tx.status = "pending" /\ sent' = [sent EXCEPT ![i] = mined]
    BY <1>1 DEF MineNext, First
  <1>4. /\ mined \in Sent /\ mined.kind = tx.kind /\ mined.of = tx.of /\ mined.uri = tx.uri
    BY <1>1 DEF Sent
  <1>5. approved' \in Nat
    <2>1. tx.fee \in Nat /\ fee \in Nat /\ allowed \in Nat
      BY <1>1, FormAssumption DEF Sent
    <2>2. approved' = IF ~done THEN approved
                      ELSE CASE tx.kind = "approve" -> tx.fee
                             [] tx.kind = "launch" -> allowed - fee
                             [] OTHER -> approved
      BY DEF MineNext
    <2>3. done /\ tx.kind = "launch" => allowed >= fee
      OBVIOUS
    <2> HIDE DEF done, allowed, tx
    <2>4. CASE ~done
      BY <1>1, <2>2, <2>4
    <2>5. CASE done /\ tx.kind = "approve"
      BY <2>1, <2>2, <2>5
    <2>6. CASE done /\ tx.kind = "launch"
      <3>1. approved' = allowed - fee /\ allowed >= fee
        BY <2>2, <2>6, <2>3
      <3> QED
        BY <2>1, <3>1
    <2>7. CASE done /\ tx.kind \notin {"approve", "launch"}
      BY <1>1, <2>2, <2>7
    <2> QED
      BY <2>4, <2>5, <2>6, <2>7
  <1> HIDE DEF mined
  <1>6. /\ sent' \in Seq(Sent) /\ Len(sent') = Len(sent) /\ DOMAIN sent' = DOMAIN sent
        /\ sent'[i] = mined /\ \A j \in DOMAIN sent : j # i => sent'[j] = sent[j]
    BY <1>1, <1>3, <1>4
  <1>7. FormTypeOK'
    <2>1. \A j \in DOMAIN sent' : sent'[j] \in Sent
      BY <1>6
    <2> QED
      BY <1>1, <1>2, <1>5, <1>6, <2>1 DEF FormTypeOK, Sent
  <1>8. UriOfAttempt' /\ WaitsForSent'
    BY <1>1, <1>2, <1>6 DEF UriOfAttempt, WaitsForSent
  <1>9. UriOfLaunches'
    BY <1>1, <1>4, <1>6 DEF UriOfLaunches
  <1>10. ~unsure' => NoneLeftBehind'
    BY <1>1, <1>2, <1>3, <1>4, <1>6 DEF NoneLeftBehind
  <1> QED
    BY <1>6, <1>7, <1>8, <1>9, <1>10 DEF FormInv

LEMMA FormStep == FormInv /\ [FormNext]_formVars => FormInv'
  <1> SUFFICES ASSUME FormInv, [FormNext]_formVars PROVE FormInv'
    OBVIOUS
  <1>1. CASE \/ Refused \/ ReadFee \/ Upload \/ Approval
             \/ \E of \in Metadata : Edit(of)
             \/ \E f \in Fee : SetLaunchFee(f)
             \/ \E yes \in BOOLEAN : Launch(yes) \/ ReadFactoryAllowance(yes)
    BY <1>1, PreparingKeepsInv
  <1>2. CASE Launched \/ Unread \/ BuyApproved \/ BuyEnds \/ \E yes \in BOOLEAN : BuyQuoted(yes)
    BY <1>2, OutcomesKeepInv
  <1>3. CASE ConfirmNext
    BY <1>3, SendingKeepsInv
  <1>4. CASE \E i \in DOMAIN sent, fails \in BOOLEAN : MineNext(i, fails)
    BY <1>4, MiningKeepsInv
  <1>5. CASE UNCHANGED formVars
    BY <1>5
    DEF formVars, sentVars, FormInv, FormTypeOK, UriOfAttempt, UriOfLaunches, WaitsForSent,
        NoneLeftBehind
  <1> QED
    BY <1>1, <1>2, <1>3, <1>4, <1>5 DEF FormNext

LEMMA FormInvariant == FormSpec => []FormInv
  BY FormStarts, FormStep, PTL DEF FormSpec

\* Every state of the launch form has its type.
THEOREM FormTyped == FormSpec => []FormTypeOK
  <1>1. FormInv => FormTypeOK
    BY DEF FormInv
  <1> QED
    BY FormInvariant, <1>1, PTL

\* Whatever is edited, uploaded, refused or retried, a token is launched with the
\* metadata of what the form described at the click.
THEOREM LaunchKeepsDescription == FormSpec => []LaunchedAsDescribed
  <1>1. FormInv => LaunchedAsDescribed
    BY DEF FormInv, LaunchedAsDescribed, UriOfLaunches, Succeeded
  <1> QED
    BY FormInvariant, <1>1, PTL

\* No launch is forgotten: as long as every outcome was learnt, a token that exists is
\* announced or its receipt is waited for.
THEOREM NoLaunchForgotten == FormSpec => []LaunchesAnnounced
  <1>1. FormInv => LaunchesAnnounced
    BY DEF FormInv, LaunchesAnnounced, NoneLeftBehind, Succeeded
  <1> QED
    BY FormInvariant, <1>1, PTL
=============================================================================
