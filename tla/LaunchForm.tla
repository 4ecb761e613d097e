----------------------------- MODULE LaunchForm -----------------------------
(***************************************************************************)
(* The launch form: what the creator fills in, the signed upload of the    *)
(* metadata, and the attempts to launch, through a wallet or as a proposal *)
(* to the Safe that the page is embedded in, with an initial buy after it. *)
(* The form can be edited while an attempt is under way: the attempt works *)
(* on what it said at the click.  The chain runs beside it, and so does    *)
(* governance, which can set another launch fee.                           *)
(***************************************************************************)
EXTENDS Naturals, Sequences

CONSTANTS
    Metadata,       \* what a commitment stands for: the fields and the image
    Fee,            \* the launch fees governance sets
    Nothing,
    MaxSent, MaxFees \* bounds: transactions sent, changes of the fee

VARIABLES
    safe,           \* the connector is the Safe's; it never changes
    fields,         \* the form: what it describes
    uploaded,       \* uploadedMetadata, or Nothing; the creator's account stays the same
    attempt,        \* launch, whose launchLockRef is taken unless it is "idle"
    fee, feeChanges, \* launchFee of the Factory
    approved,       \* the Factory's allowance
    sent,           \* what was sent, in order: transactions, or proposals to the Safe
    announced,      \* history: the launches announced, as positions in sent
    unsure          \* history: an attempt ended before it knew what became of a transaction

ASSUME FormAssumption == Fee \subseteq Nat /\ MaxSent \in Nat \ {0} /\ MaxFees \in Nat

sentVars == <<fee, feeChanges, approved, sent>>
formVars == <<safe, fields, uploaded, attempt, sentVars, announced, unsure>>

NoAttempt == [at |-> "idle", of |-> Nothing, had |-> Nothing, buy |-> FALSE, fee |-> 0,
              uri |-> Nothing, tx |-> 0]

FormTypeOK ==
    /\ safe \in BOOLEAN /\ unsure \in BOOLEAN
    /\ fields \in Metadata
    /\ uploaded \in Metadata \cup {Nothing}
    /\ attempt \in [at : {"idle", "checking", "uploading", "allowance", "approving", "approval", "launching", "receipt",
                          "quoting", "approving_buy", "approval_buy", "buying", "bought"},
                    of : Metadata \cup {Nothing}, had : Metadata \cup {Nothing}, buy : BOOLEAN, fee : Fee \cup {0}, uri : Metadata \cup {Nothing}, tx : 0..MaxSent]
    /\ fee \in Fee /\ feeChanges \in 0..MaxFees /\ approved \in Nat
    /\ Len(sent) <= MaxSent
    /\ \A i \in DOMAIN sent :
          sent[i] \in [kind : {"approve", "launch", "approve_buy", "buy"}, fee : Fee \cup {0},
                       of : Metadata \cup {Nothing}, uri : Metadata \cup {Nothing},
                       first : BOOLEAN, paid : Fee \cup {0}, status : {"pending", "success", "reverted"}]
    /\ announced \subseteq DOMAIN sent

FormInit ==
    /\ safe \in BOOLEAN
    /\ fields \in Metadata
    /\ uploaded = Nothing /\ attempt = NoAttempt
    /\ fee \in Fee /\ feeChanges = 0
    /\ approved = 0 /\ sent = << >>
    /\ announced = {} /\ unsure = FALSE

-----------------------------------------------------------------------------
\* The creator and the chain.

\* update, selectImage, removeImage and reset: the upload is forgotten, also when it
\* was the amount of the initial buy that changed.
Edit(of) ==
    /\ fields' = of /\ uploaded' = Nothing
    /\ UNCHANGED <<safe, attempt, sentVars, announced, unsure>>

SetLaunchFee(f) ==
    /\ feeChanges < MaxFees /\ f # fee
    /\ fee' = f /\ feeChanges' = feeChanges + 1
    /\ UNCHANGED <<safe, fields, uploaded, attempt, approved, sent, announced, unsure>>

First(i) == sent[i].status = "pending" /\ \A j \in 1..(i - 1) : sent[j].status # "pending"

\* A transaction is mined, or the owners of the Safe execute or cancel a proposal: the
\* approval in its batch comes first, and the whole batch reverts with the launch.  The
\* launch pulls the fee of that moment.
MineNext(i, fails) ==
    LET tx == sent[i]
        allowed == IF tx.kind = "approve" \/ tx.first THEN tx.fee ELSE approved
        done == ~fails /\ (tx.kind = "launch" => allowed >= fee)
    IN  /\ First(i)
        /\ sent' = [sent EXCEPT ![i].status = IF done THEN "success" ELSE "reverted",
                                ![i].paid = IF done /\ tx.kind = "launch" THEN fee ELSE 0]
        /\ approved' = IF ~done THEN approved
                       ELSE CASE tx.kind = "approve" -> tx.fee
                              [] tx.kind = "launch" -> allowed - fee
                              [] OTHER -> approved
        /\ UNCHANGED <<safe, fields, uploaded, attempt, fee, feeChanges, announced, unsure>>

-----------------------------------------------------------------------------
\* launch.  Each step ends where the attempt awaits.

Launch(buy) ==
    /\ attempt.at = "idle"
    /\ attempt' = [NoAttempt EXCEPT !.at = "checking", !.of = fields, !.buy = buy, !.had = uploaded]
    /\ UNCHANGED <<safe, fields, uploaded, sentVars, announced, unsure>>

Goes(at) == attempt' = [attempt EXCEPT !.at = at]

\* The wrong chain, a read that fails, too little USDC or gas, a refusal of the
\* wallet, or of the server: the attempt ends with an error, the lock is free.
Refused ==
    /\ attempt.at \in {"checking", "uploading", "allowance", "approving", "launching"}
    /\ attempt' = NoAttempt
    /\ UNCHANGED <<safe, fields, uploaded, sentVars, announced, unsure>>

\* ensureMetadata: the upload that the form had at the click serves if it has the
\* commitment of what it said.
Commits(had) == had # Nothing /\ had = attempt.of
Exists(had) == had # Nothing
Serves(had) == Commits(had)

\* The balance and the fee are read, and the metadata is signed and uploaded if needed.
ReadFee ==
    /\ attempt.at = "checking"
    /\ attempt' = [attempt EXCEPT !.fee = fee, !.had = Nothing,
                                  !.at = IF Serves(attempt.had) THEN "allowance" ELSE "uploading",
                                  !.uri = IF Serves(attempt.had) THEN attempt.had ELSE Nothing]
    /\ UNCHANGED <<safe, fields, uploaded, sentVars, announced, unsure>>
Upload ==
    /\ attempt.at = "uploading"
    /\ uploaded' = attempt.of
    /\ attempt' = [attempt EXCEPT !.at = "allowance", !.uri = attempt.of]
    /\ UNCHANGED <<safe, fields, sentVars, announced, unsure>>

\* No fee, no read; an allowance that cannot be read in time counts as none.  A Safe's
\* approval is part of the proposal.
ReadFactoryAllowance(known) ==
    LET enough == attempt.fee = 0 \/ (known /\ approved >= attempt.fee)
    IN  /\ attempt.at = "allowance"
        /\ attempt' = [attempt EXCEPT !.at = IF enough \/ safe THEN "launching" ELSE "approving",
                                      !.tx = IF enough THEN 0 ELSE 1]
        /\ UNCHANGED <<safe, fields, uploaded, sentVars, announced, unsure>>

\* The wallet sends it.
SendNext(kind, next) ==
    /\ Len(sent) < MaxSent
    /\ LET launches == kind = "launch"
       IN  sent' = Append(sent, [kind |-> kind,
                                 of |-> IF launches THEN attempt.of ELSE Nothing,
                                 uri |-> IF launches THEN attempt.uri ELSE Nothing,
                                 fee |-> IF kind = "approve" \/ launches THEN attempt.fee ELSE 0,
                                 first |-> launches /\ safe /\ attempt.tx = 1,
                                 paid |-> 0, status |-> "pending"])
    /\ attempt' = [attempt EXCEPT !.at = next, !.tx = Len(sent')]
ConfirmNext ==
    /\ \/ attempt.at = "approving" /\ SendNext("approve", "approval")
       \/ attempt.at = "launching" /\ SendNext("launch", "receipt")
       \/ attempt.at = "approving_buy" /\ SendNext("approve_buy", "approval_buy")
       \/ attempt.at = "buying" /\ SendNext("buy", "bought")
    /\ UNCHANGED <<safe, fields, uploaded, fee, feeChanges, approved, announced, unsure>>

Status == sent[attempt.tx].status
Approval ==
    /\ attempt.at = "approval" /\ Status # "pending"
    /\ attempt' = IF Status = "success" THEN [attempt EXCEPT !.at = "launching"] ELSE NoAttempt
    /\ UNCHANGED <<safe, fields, uploaded, sentVars, announced, unsure>>

AnnouncesLast(i) == IF attempt.buy THEN announced ELSE announced \cup {i}
Announces(i) == announced \cup {i}
\* The event of the launch gives the token and the pool: pages hear of it, the server
\* is told, and then comes the initial buy.
Launched ==
    /\ attempt.at = "receipt" /\ Status # "pending"
    /\ announced' = IF Status = "success" THEN Announces(attempt.tx) ELSE announced
    /\ IF Status = "success" /\ attempt.buy THEN Goes("quoting") ELSE attempt' = NoAttempt
    /\ UNCHANGED <<safe, fields, uploaded, sentVars, unsure>>

\* The receipt cannot be read, or the Safe did not execute the proposal in time: an error.
Unread ==
    /\ attempt.at \in {"approval", "receipt"}
    /\ attempt' = NoAttempt /\ unsure' = TRUE
    /\ UNCHANGED <<safe, fields, uploaded, sentVars, announced>>

\* executeInitialBuy: its quote comes from the server, the Quoter or, for the new market,
\* from what every launch begins with.  Whatever fails, the launch stays a success.
BuyQuoted(known) ==
    /\ attempt.at = "quoting"
    /\ Goes(IF known \/ safe THEN "buying" ELSE "approving_buy")
    /\ UNCHANGED <<safe, fields, uploaded, sentVars, announced, unsure>>
BuyApproved ==
    /\ attempt.at = "approval_buy" /\ Status = "success" /\ Goes("buying")
    /\ UNCHANGED <<safe, fields, uploaded, sentVars, announced, unsure>>
BuyEnds ==
    /\ attempt.at \in {"quoting", "approving_buy", "approval_buy", "buying", "bought"}
    /\ attempt' = NoAttempt
    /\ UNCHANGED <<safe, fields, uploaded, sentVars, announced, unsure>>

FormNext ==
    \/ Refused \/ ReadFee \/ Upload
    \/ ConfirmNext \/ Approval \/ Launched \/ Unread \/ BuyApproved \/ BuyEnds
    \/ \E of \in Metadata : Edit(of)
    \/ \E f \in Fee : SetLaunchFee(f)
    \/ \E yes \in BOOLEAN : Launch(yes) \/ ReadFactoryAllowance(yes) \/ BuyQuoted(yes)
    \/ \E i \in DOMAIN sent, fails \in BOOLEAN : MineNext(i, fails)

FormSpec == FormInit /\ [][FormNext]_formVars

-----------------------------------------------------------------------------
\* Properties.

Succeeded == {i \in DOMAIN sent : sent[i].kind = "launch" /\ sent[i].status = "success"}

\* The metadata URI of a launched token commits to the token's own name, symbol and
\* image, whatever was edited, uploaded or retried before and during the attempt.
LaunchedAsDescribed == \A i \in Succeeded : sent[i].uri = sent[i].of

\* As long as the outcome of every transaction was learnt, each token launched is
\* announced, also when its initial buy fails, or is the one being waited for.
LaunchesAnnounced ==
    ~unsure => \A i \in Succeeded : i \in announced \/ (attempt.at = "receipt" /\ attempt.tx = i)
=============================================================================
