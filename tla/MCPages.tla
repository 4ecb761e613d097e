------------------------------- MODULE MCPages --------------------------------
(***************************************************************************)
(* What must never happen in the browser: the trade panel, the launch      *)
(* form, the market page, a token's page with its holder cards and its     *)
(* buyback card, and the wallet. Each runs alone, and `part` says which;   *)
(* the others rest in an initial state.                                    *)
(***************************************************************************)
EXTENDS TradePanel, LaunchForm, MarketPage, TokenDashboard, HolderCards, BuybackCard, WalletSession

VARIABLE part

\* Two buys of different amounts and a sale: <<side, amount, slippage>>.
SmallBuy == <<"Buy", 1, 1>>
MCAsk == {SmallBuy, <<"Buy", 2, 2>>, <<"Sell", 1, 1>>}
MCNoAsk == <<"none", 0, 0>>

pagesVars == <<part, panelVars, formVars, marketVars, dashboardVars, cardsVars, buybackVars, walletVars>>

PagesInit ==
    /\ part \in {"panel", "form", "market", "dashboard", "cards", "buyback", "wallet"}
    /\ PanelInit /\ FormInit /\ MarketInit /\ DashboardInit /\ CardsInit /\ BuybackInit /\ WalletInit
    /\ part # "panel" => form = SmallBuy
    /\ part # "form" => ~safe /\ fields = (CHOOSE m \in Metadata : TRUE) /\ fee = 0
    /\ part # "market" => ~launched
    /\ part # "cards" => kept = 0
    /\ part # "buyback" => generated = 0 /\ storable
    /\ part # "wallet" => currentWallet = NoConnector

OfPanel(A) == part = "panel" /\ A
    /\ UNCHANGED <<part, formVars, marketVars, dashboardVars, cardsVars, buybackVars, walletVars>>
OfForm(A) == part = "form" /\ A
    /\ UNCHANGED <<part, panelVars, marketVars, dashboardVars, cardsVars, buybackVars, walletVars>>
OfMarket(A) == part = "market" /\ A
    /\ UNCHANGED <<part, panelVars, formVars, dashboardVars, cardsVars, buybackVars, walletVars>>
OfDashboard(A) == part = "dashboard" /\ A
    /\ UNCHANGED <<part, panelVars, formVars, marketVars, cardsVars, buybackVars, walletVars>>
OfCards(A) == part = "cards" /\ A
    /\ UNCHANGED <<part, panelVars, formVars, marketVars, dashboardVars, buybackVars, walletVars>>
OfBuyback(A) == part = "buyback" /\ A
    /\ UNCHANGED <<part, panelVars, formVars, marketVars, dashboardVars, cardsVars, walletVars>>
OfWallet(A) == part = "wallet" /\ A
    /\ UNCHANGED <<part, panelVars, formVars, marketVars, dashboardVars, cardsVars, buybackVars>>

PagesNext ==
    \/ OfPanel(PanelNext)
    \/ OfForm(FormNext)
    \/ OfMarket(MarketNext)
    \/ OfDashboard(DashboardNext)
    \/ OfCards(CardsNext)
    \/ OfBuyback(BuybackNext)
    \/ OfWallet(WalletNext)

PagesSpec == PagesInit /\ [][PagesNext]_pagesVars
=============================================================================
