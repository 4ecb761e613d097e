----------------------------- MODULE BuybackCard -----------------------------
(***************************************************************************)
(* The card of a token's automatic buybacks (useBuybackSnapshot in         *)
(* src/src/hooks/use-buyback-snapshot.ts). It shows at once what the       *)
(* browser's storage or the server's page has, refreshes it by numbered    *)
(* requests of which only the newest counts, and lets requests of the same *)
(* address share a fetch, those of a page that was left included.          *)
(*                                                                         *)
(* A snapshot is the time it was generated; 0 is none. The browser has one *)
(* tab with the token's page: another would write to the same storage and  *)
(* this one would not hear of it.                                          *)
(***************************************************************************)
EXTENDS Naturals

CONSTANT MaxGenerated   \* bound: snapshots the server generates

VARIABLES
  generated,   \* the server's newest snapshot
  storable,    \* the browser lets the page store; it never changes
  storedCard,  \* localStorage: what readCached returns
  cardOpen,    \* the card is mounted
  shownCard,   \* React state `snapshot`
  spinning,    \* React state `loading`, which also disables the card's button
  doubted,     \* React state `stale`
  awaited,     \* the fetch that the mounted card's newest request waits for
  quiet,       \* that request runs in the background
  leftBehind,  \* fetches that the newest request of an unmounted card waits for
  fetching,    \* pendingRequests
  overtaken    \* history: a request in the background superseded one that was not

ASSUME CardAssumption == MaxGenerated \in Nat

buybackVars == <<generated, storable, storedCard, cardOpen, shownCard, spinning, doubted,
                 awaited, quiet, leftBehind, fetching, overtaken>>

Fetch == {"cached", "fresh"}

BuybackInit ==
  /\ generated \in 0 .. MaxGenerated
  /\ storable \in BOOLEAN
  /\ storedCard \in IF storable THEN 0 .. generated ELSE {0}
  /\ cardOpen = FALSE /\ shownCard = 0
  /\ spinning = FALSE /\ doubted = FALSE
  /\ awaited = "none" /\ quiet = TRUE
  /\ leftBehind = {} /\ fetching = {}
  /\ overtaken = FALSE

\* writeCached; a browser that does not let it store keeps nothing.
Write(s) == storedCard' = IF storable THEN s ELSE storedCard

Generate ==
  /\ generated < MaxGenerated
  /\ generated' = generated + 1
  /\ UNCHANGED <<storable, storedCard, cardOpen, shownCard, spinning, doubted,
                 awaited, quiet, leftBehind, fetching, overtaken>>

\* STORAGE_TTL_MS: what is stored is no longer read.
StoredExpires ==
  /\ storedCard # 0
  /\ storedCard' = 0
  /\ UNCHANGED <<generated, storable, cardOpen, shownCard, spinning, doubted,
                 awaited, quiet, leftBehind, fetching, overtaken>>

\* requestSnapshot: a fetch of the same address that is under way is shared.
RequestSnapshot(fetch, background) ==
  /\ awaited' = fetch /\ quiet' = background
  /\ fetching' = fetching \union {fetch}

\* refresh of a mounted card.
RefreshCard(fetch, background) ==
  /\ cardOpen
  /\ RequestSnapshot(fetch, background)
  /\ spinning' = (spinning \/ ~background)
  /\ overtaken' = (background /\ (overtaken \/ ~quiet))
  /\ UNCHANGED <<generated, storable, storedCard, cardOpen, shownCard, doubted, leftBehind>>

\* The timer of useLiveRefresh, which does not wait for the other requests.
PollCard == RefreshCard("cached", TRUE)
HandleIndexerBuyback == RefreshCard("fresh", TRUE)
RetryCard == ~spinning /\ RefreshCard("fresh", FALSE)

\* Slip: never stored.
NeverStored(initial, useCached) == UNCHANGED storedCard
\* The page's own snapshot is stored only when it is shown.
KeepInitial(initial, useCached) ==
  IF initial # 0 /\ ~useCached THEN Write(initial) ELSE UNCHANGED storedCard

\* The effect runs, at mount or with another initial snapshot.
OpenCard(initial) ==
  LET useCached == storedCard # 0 /\ storedCard >= initial
      immediate == IF useCached THEN storedCard ELSE initial
  IN  /\ initial \in 0 .. generated
      /\ cardOpen' = TRUE
      /\ shownCard' = immediate
      /\ spinning' = (immediate = 0)
      /\ doubted' = useCached
      /\ KeepInitial(initial, useCached)
      /\ RequestSnapshot("cached", immediate # 0)
      /\ overtaken' = FALSE
      /\ UNCHANGED <<generated, storable, leftBehind>>

\* The visitor leaves the page; the newest request keeps its number and counts.
LeaveCard ==
  /\ cardOpen
  /\ cardOpen' = FALSE /\ shownCard' = 0
  /\ spinning' = FALSE /\ doubted' = FALSE
  /\ leftBehind' = leftBehind \union ({awaited} \intersect Fetch)
  /\ awaited' = "none" /\ quiet' = TRUE
  /\ overtaken' = FALSE
  /\ UNCHANGED <<generated, storable, storedCard, fetching>>

IsNewest(fetch) == awaited = fetch

\* A request that ends stops the spinner, unless it ran in the background.
StopSpinner == spinning' = (quiet /\ spinning)

\* The newest request ends.
RequestEnds(fetch, stale) ==
  IF IsNewest(fetch)
  THEN /\ doubted' = stale
       /\ StopSpinner
       /\ awaited' = "none" /\ quiet' = TRUE
  ELSE UNCHANGED <<doubted, spinning, awaited, quiet>>

\* A fetch is answered, for all the requests that share it, with a snapshot of
\* any earlier time. writeCached tells the mounted card too (handleUpdate).
CardAnswered(fetch, s, stale) ==
  /\ fetch \in fetching
  /\ s \in 1 .. generated
  /\ fetching' = fetching \ {fetch}
  /\ leftBehind' = leftBehind \ {fetch}
  /\ IF IsNewest(fetch) \/ fetch \in leftBehind
     THEN Write(s) /\ shownCard' = IF cardOpen THEN s ELSE 0
     ELSE UNCHANGED <<storedCard, shownCard>>
  /\ RequestEnds(fetch, stale)
  /\ UNCHANGED <<generated, storable, cardOpen, overtaken>>

\* A fetch fails, takes twelve seconds, or its payload is not a snapshot.
CardUnanswered(fetch) ==
  /\ fetch \in fetching
  /\ fetching' = fetching \ {fetch}
  /\ leftBehind' = leftBehind \ {fetch}
  /\ RequestEnds(fetch, TRUE)
  /\ UNCHANGED <<generated, storable, storedCard, cardOpen, shownCard, overtaken>>

BuybackNext ==
  \/ Generate \/ StoredExpires \/ LeaveCard
  \/ PollCard \/ HandleIndexerBuyback \/ RetryCard
  \/ \E initial \in 0 .. MaxGenerated : OpenCard(initial)
  \/ \E fetch \in Fetch, s \in 1 .. MaxGenerated, stale \in BOOLEAN : CardAnswered(fetch, s, stale)
  \/ \E fetch \in Fetch : CardUnanswered(fetch)

BuybackSpec == BuybackInit /\ [][BuybackNext]_buybackVars

-----------------------------------------------------------------------------
BuybackTypeOK ==
  /\ generated \in 0 .. MaxGenerated
  /\ storable \in BOOLEAN /\ cardOpen \in BOOLEAN
  /\ spinning \in BOOLEAN /\ doubted \in BOOLEAN /\ overtaken \in BOOLEAN
  /\ storedCard \in 0 .. MaxGenerated /\ shownCard \in 0 .. MaxGenerated
  /\ awaited \in fetching \union {"none"} /\ quiet \in BOOLEAN
  /\ leftBehind \subseteq fetching /\ fetching \subseteq Fetch

\* What the next visit starts from is what this visitor sees: answers that come
\* out of order, late or for a page that was left change both or neither.
CardIsKept == cardOpen => storedCard \in {0, shownCard}

\* A spinner, which disables the card's button, turns for a request that is
\* under way and will stop it. The exception is the code's: a request in the
\* background that supersedes one that is not leaves nobody to stop it.
SpinnerStops ==
  spinning => (awaited \in fetching /\ ~quiet) \/ overtaken

CardHolds == CardIsKept /\ SpinnerStops
=============================================================================
