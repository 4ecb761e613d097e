---------------------------- MODULE SignedUpdates ----------------------------
(***************************************************************************)
(* The two services a wallet authorizes with a signed message: the upload  *)
(* of token metadata and the update of a profile.  The server issues a     *)
(* challenge, the wallet signs it, and a request brings it back.  Requests *)
(* overlap: each of the steps below ends where its handler awaits.  The    *)
(* two services are built alike and share nothing, so that a behaviour is  *)
(* one service's, chosen at first.                                         *)
(***************************************************************************)
EXTENDS Lists, SequencesExt, FiniteSets

CONSTANTS
    Request,        \* the requests the server can have under way
    Capacity,       \* challenges kept before the oldest is dropped (500)
    RateCapacity,   \* rate entries kept (2000)
    ChallengeLimit, UpdateLimit, \* per window (12 or 30, and 12)
    Lifetime,       \* of a challenge (15 minutes, or 5)
    Window,         \* of the rates (10 minutes, or an hour)
    MaxTime, MaxChallenges \* bounds

ASSUME SignedAssumption == Capacity \in Nat /\ Lifetime \in Nat /\ MaxTime \in Nat

VARIABLES
    service,        \* "metadata" or "profile"; it never changes
    now,
    challenges,     \* state.challenges, oldest first: [nonce, what, expires]
    rates,          \* state.rates, oldest first: [key, started, count]
    issued,         \* history: when the challenges issued expire; they are their nonces' numbers
    spent,          \* history: the nonces that authorized, or were lost in a restart
    requests,
    pinned,         \* the files on IPFS
    disk,           \* the files of the two local stores
    answered,       \* history: what was answered with a metadata URI
    resolved,       \* the cache of resolved metadata
    profile,        \* the avatar in Redis
    expected,       \* history: the avatar the saved updates ask for, one after the other
    alone           \* history: no update overlapped another one or met a failure of Redis

serverVars == <<challenges, rates, issued, spent>>
fileVars == <<pinned, disk, answered, resolved>>
profileVars == <<profile, expected, alone>>
signedVars == <<service, now, serverVars, requests, fileVars, profileVars>>

\* What a commitment stands for: the metadata with or without an image, the
\* profile with a new avatar, with the one it has, or with none.
What == IF service = "metadata" THEN {"pictured", "plain"} ELSE {"new", "keep", "remove"}
Key == {"challenge", "wallet", "client"}
File == {<<"image", "pictured">>, <<"metadata", "pictured">>, <<"metadata", "plain">>}
NoAvatar == "none"

IdleRequest == [at |-> "idle", nonce |-> 0, what |-> "keep", late |-> FALSE,
         part |-> "image", base |-> NoAvatar]
Unresolved == [value |-> "none", since |-> 0]

SignedTypeOK ==
    /\ service \in {"metadata", "profile"} /\ now \in 0..MaxTime
    /\ Len(issued) <= MaxChallenges /\ spent \subseteq 1..MaxChallenges
    /\ \A c \in ToSet(challenges) : c \in [nonce : DOMAIN issued, what : What, expires : 1..(MaxTime + Lifetime)]
    /\ \A e \in ToSet(rates) : e \in [key : Key, started : 0..MaxTime, count : 1..(ChallengeLimit + UpdateLimit)]
    /\ \A r \in Request :
          requests[r] \in [at : {"idle", "verify", "normalize", "v3", "legacy", "store", "rename", "read", "write"},
                           nonce : 0..MaxChallenges, what : What \cup {"keep"}, late : BOOLEAN,
                           part : {"image", "metadata"}, base : Request \cup {NoAvatar}]
    /\ pinned \subseteq File /\ disk \in [File -> {"absent", "torn", "whole"}]
    /\ answered \subseteq {"pictured", "plain"}
    /\ resolved \in [{"pictured", "plain"} -> [value : {"none", "null", "metadata"}, since : 0..MaxTime]]
    /\ profile \in Request \cup {NoAvatar} /\ expected \in Request \cup {NoAvatar}
    /\ alone \in BOOLEAN

SignedInit ==
    /\ service \in {"metadata", "profile"} /\ now = 0
    /\ challenges = << >> /\ rates = << >> /\ issued = << >> /\ spent = {}
    /\ requests = [r \in Request |-> IdleRequest]
    /\ pinned = {} /\ disk = [f \in File |-> "absent"] /\ answered = {}
    /\ resolved = [x \in {"pictured", "plain"} |-> Unresolved]
    /\ profile = NoAvatar /\ expected = NoAvatar /\ alone = TRUE

Tick ==
    /\ now < MaxTime /\ now' = now + 1
    /\ UNCHANGED <<service, serverVars, requests, fileVars, profileVars>>

-----------------------------------------------------------------------------
\* Challenges and rates.

Cleanup(cs) ==
    LET live == Filtered(cs, {c \in ToSet(cs) : c.expires > now})
    IN  IF Len(live) > Capacity THEN Tail(live) ELSE live

InWindow(e) == now - e.started < Window
Entries(rs, key) == {i \in DOMAIN rs : rs[i].key = key}
MakeRoom(rs, key) ==
    IF Len(rs) < RateCapacity \/ Entries(rs, key) # {} THEN rs
    ELSE LET kept == Filtered(rs, {e \in ToSet(rs) : InWindow(e)})
         IN  IF Len(kept) >= RateCapacity THEN Tail(kept) ELSE kept

\* consumeRate: refused when the key's entry is in its window and full; a new
\* window begins in the place of the old one.
Refused(rs, key, limit) ==
    \E i \in Entries(rs, key) : InWindow(rs[i]) /\ rs[i].count >= limit
Consume(rs, key, limit) ==
    LET room == MakeRoom(rs, key)
        begun == [key |-> key, started |-> now, count |-> 1]
    IN  CASE Entries(room, key) = {} -> Append(room, begun)
          [] Refused(room, key, limit) -> room
          [] OTHER -> [i \in DOMAIN room |->
                          IF room[i].key # key THEN room[i]
                          ELSE IF InWindow(room[i]) THEN [room[i] EXCEPT !.count = @ + 1] ELSE begun]

\* createMetadataChallenge takes the rate before it cleans up, createProfileChallenge after.
CreateChallenge(x) ==
    /\ Len(issued) < MaxChallenges
    /\ rates' = Consume(rates, "challenge", ChallengeLimit)
    /\ IF Refused(rates, "challenge", ChallengeLimit)
       THEN /\ challenges' = IF service = "profile" THEN Cleanup(challenges) ELSE challenges
            /\ issued' = issued
       ELSE /\ issued' = Append(issued, now + Lifetime)
            /\ challenges' = Append(Cleanup(challenges),
                                    [nonce |-> Len(issued'), what |-> x, expires |-> now + Lifetime])
    /\ UNCHANGED <<service, now, spent, requests, fileVars, profileVars>>

-----------------------------------------------------------------------------
\* The authorization.

\* A request presents nonce n for x: its own cleanup may drop the challenge.
Present(r, n, x) ==
    /\ requests[r] = IdleRequest
    /\ challenges' = Cleanup(challenges)
    /\ IF \E c \in ToSet(challenges') : c.nonce = n /\ c.what = x
       THEN requests' = [requests EXCEPT ![r] = [IdleRequest EXCEPT !.at = "verify", !.nonce = n, !.what = x,
                                                             !.late = n \in spent]]
       ELSE UNCHANGED requests
    /\ UNCHANGED <<service, now, rates, issued, spent, fileVars, profileVars>>

KeepChallenge(n) == challenges
SpendChallenge(n) == Filtered(challenges, {c \in ToSet(challenges) : c.nonce # n})

\* The signature is the wallet's, so the challenge is deleted.  A profile's rates
\* come after that: the signature is lost when one of them is exceeded.
Authorize(r) ==
    LET n == requests[r].nonce
        once == Consume(rates, "wallet", UpdateLimit)
    IN  /\ requests[r].at = "verify"
        /\ challenges' = SpendChallenge(n) /\ spent' = spent \cup {n}
        /\ IF service = "metadata"
           THEN /\ rates' = rates
                /\ requests' = [requests EXCEPT ![r].at = "normalize"]
           ELSE IF Refused(rates, "wallet", UpdateLimit)
           THEN rates' = once /\ requests' = [requests EXCEPT ![r] = IdleRequest]
           ELSE /\ rates' = Consume(once, "client", UpdateLimit)
                /\ IF Refused(once, "client", UpdateLimit)
                   THEN requests' = [requests EXCEPT ![r] = IdleRequest]
                   ELSE requests' = [requests EXCEPT ![r].at = "normalize"]
        /\ UNCHANGED <<service, now, issued, fileVars, profileVars>>

\* An invalid signature, a contract wallet's that cannot be verified now, or an
\* image that cannot be decoded or is too large once it is normalized.
Reject(r) ==
    /\ requests[r].at \in {"verify", "normalize"}
    /\ requests' = [requests EXCEPT ![r] = IdleRequest]
    /\ UNCHANGED <<service, now, serverVars, fileVars, profileVars>>

Normalize(r) ==
    /\ requests[r].at = "normalize"
    /\ requests' = [requests EXCEPT
          ![r].at = IF service = "metadata" THEN "v3" ELSE "read",
          ![r].part = IF requests[r].what = "pictured" THEN "image" ELSE "metadata"]
    /\ UNCHANGED <<service, now, serverVars, fileVars, profileVars>>

-----------------------------------------------------------------------------
\* publishTokenMetadata: the image, then the metadata that names it; each is put on
\* IPFS and then stored here.

FileOf(r) == <<requests[r].part, requests[r].what>>

\* "lost": the file is there, but no valid answer came in time.
FallsBack(outcome) == outcome = "denied"
Pin(r, outcome) ==
    /\ requests[r].at \in {"v3", "legacy"}
    /\ LET there == outcome \in {"pinned", "lost"}
           next == CASE outcome = "pinned" -> "store"
                     [] FallsBack(outcome) /\ requests[r].at = "v3" -> "legacy"
                     [] OTHER -> "idle"
       IN  /\ pinned' = IF there THEN pinned \cup {FileOf(r)} ELSE pinned
           /\ requests' = [requests EXCEPT ![r] =
                 IF next = "idle" THEN IdleRequest ELSE [@ EXCEPT !.at = next]]
    /\ UNCHANGED <<service, now, serverVars, disk, answered, resolved, profileVars>>

\* writeFile to a temporary name, and rename; slip: to the name itself.
WriteInPlace(f) == [disk EXCEPT ![f] = "torn"]
WriteTemporary(f) == disk
Store(r) ==
    /\ requests[r].at = "store"
    /\ disk' = WriteTemporary(FileOf(r))
    /\ requests' = [requests EXCEPT ![r].at = "rename"]
    /\ UNCHANGED <<service, now, serverVars, pinned, answered, resolved, profileVars>>

AfterMetadata(r) ==
    /\ requests' = [requests EXCEPT ![r] = IdleRequest]
    /\ answered' = answered \cup {requests[r].what}
Stored(r) ==
    IF requests[r].part = "image"
    THEN /\ requests' = [requests EXCEPT ![r].at = "v3", ![r].part = "metadata"]
         /\ answered' = answered
    ELSE AfterMetadata(r)
Rename(r) ==
    /\ requests[r].at = "rename"
    /\ disk' = [disk EXCEPT ![FileOf(r)] = "whole"]
    /\ Stored(r)
    /\ UNCHANGED <<service, now, serverVars, pinned, resolved, profileVars>>

GoesOn(r) == Stored(r)
Answers503(r) == requests' = [requests EXCEPT ![r] = IdleRequest] /\ answered' = answered
StoreFails(r) ==
    /\ requests[r].at \in {"store", "rename"}
    /\ Answers503(r)
    /\ UNCHANGED <<service, now, serverVars, pinned, disk, resolved, profileVars>>

\* GET of the media route: an image that is not here is taken from a gateway and kept.
Media ==
    /\ service = "metadata"
    /\ \E f \in pinned :
          /\ f[1] = "image" /\ disk[f] = "absent"
          /\ disk' = [disk EXCEPT ![f] = "whole"]
    /\ UNCHANGED <<service, now, serverVars, requests, pinned, answered, resolved, profileVars>>

\* resolveTokenMetadata.  A success is kept longer than this model's time.
Fresh(x) == \/ resolved[x].value = "metadata"
            \/ resolved[x].value = "null" /\ now = resolved[x].since
Resolve(x) ==
    /\ service = "metadata" /\ ~Fresh(x)
    /\ \E value \in {"null", "metadata"} :
          /\ value = "metadata" => disk[<<"metadata", x>>] = "whole" \/ <<"metadata", x>> \in pinned
          /\ value = "null" => disk[<<"metadata", x>>] # "whole"
          /\ resolved' = [resolved EXCEPT ![x] = [value |-> value, since |-> now]]
    /\ UNCHANGED <<service, now, serverVars, requests, pinned, disk, answered, profileVars>>

-----------------------------------------------------------------------------
\* saveWalletProfile.

Writing == {r \in Request : requests[r].at = "write"}

ReadProfile(r) ==
    /\ requests[r].at = "read"
    /\ \E base \in {profile, NoAvatar} :  \* a failed read is null
          /\ requests' = [requests EXCEPT ![r].at = "write", ![r].base = base]
          /\ alone' = (alone /\ Writing = {} /\ base = profile)
    /\ UNCHANGED <<service, now, serverVars, fileVars, profile, expected>>

Asked(r, what, base) ==
    CASE what = "new" -> r [] what = "remove" -> NoAvatar [] what = "keep" -> base
AvatarAlone(r, what, base) == IF what = "new" THEN r ELSE NoAvatar
Avatar(r, what, base) == Asked(r, what, base)

WriteProfile(r, saved) ==
    LET written == Avatar(r, requests[r].what, requests[r].base)
    IN  /\ requests[r].at = "write"
        /\ profile' \in {written} \cup IF saved THEN {} ELSE {profile}
        /\ expected' = IF saved THEN Asked(r, requests[r].what, expected) ELSE expected
        /\ alone' = (alone /\ saved)
        /\ requests' = [requests EXCEPT ![r] = IdleRequest]
        /\ UNCHANGED <<service, now, serverVars, fileVars>>

\* The process ends and starts again; the files, IPFS and Redis stay.
Restart ==
    /\ challenges' = << >> /\ rates' = << >>
    /\ resolved' = [x \in {"pictured", "plain"} |-> Unresolved]
    /\ requests' = [r \in Request |-> IdleRequest]
    /\ spent' = spent \cup DOMAIN issued
    /\ alone' = (alone /\ Writing = {})
    /\ UNCHANGED <<service, now, issued, pinned, disk, answered, profile, expected>>

SignedNext ==
    \/ Tick \/ Media \/ Restart
    \/ \E x \in What : CreateChallenge(x)
    \/ \E x \in {"pictured", "plain"} : Resolve(x)
    \/ \E r \in Request, n \in DOMAIN issued, x \in What : Present(r, n, x)
    \/ \E r \in Request :
          \/ Authorize(r) \/ Reject(r) \/ Normalize(r)
          \/ Store(r) \/ Rename(r) \/ StoreFails(r) \/ ReadProfile(r)
          \/ \E outcome \in {"pinned", "denied", "lost", "failed"} : Pin(r, outcome)
          \/ \E saved \in BOOLEAN : WriteProfile(r, saved)

SignedSpec == SignedInit /\ [][SignedNext]_signedVars

-----------------------------------------------------------------------------
\* Properties.

\* A challenge that has authorized a request authorizes none that presents it
\* afterwards: only requests that overlap can share one.
SpentStaysSpent ==
    \A r \in Request : requests[r].late => requests[r].at = "idle"

\* Once a metadata URI was answered, the metadata and the image it names are on IPFS
\* and in the local stores, whole, whatever failed or was retried: the announcement
\* of the launch resolves it.  No reader sees half a file.
PublishedIsServable ==
    /\ \A x \in answered, f \in File : f[2] = x => f \in pinned /\ disk[f] = "whole"
    /\ \A f \in File : disk[f] # "torn"

\* As long as updates do not overlap and Redis answers, the avatar is what the saved
\* updates asked for, an update of the name alone keeping it.
AvatarKept == alone => profile = expected
=============================================================================
