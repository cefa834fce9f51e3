-------------------------- MODULE ChannelReservation --------------------------
(***************************************************************************)
(* The concurrency-cap sets act:user:<id> and act:did:<id> that            *)
(* /sipctl/authorize fills and /sipctl/cdr, the reconciler and the admin   *)
(* clean-up empty.  The two sets are values here, so that a module that    *)
(* owns them (SipCtl) can apply the Redis commands to its variables.       *)
(*                                                                         *)
(* A set's members are full SIP Call-IDs.  The clean-up paths only know    *)
(* SanitizeCallID of them, so both live in one space of identifiers.       *)
(***************************************************************************)
EXTENDS Integers, FiniteSets

CONSTANTS
    Calls,      \* SIP calls; a call is named by its full Call-ID
    Keys,       \* sanitized Call-IDs, the keys of cdrs, live:* and pending:*
    Sanitize,   \* [Calls -> Keys], domain.SanitizeCallID
    Dids,
    Users,
    DidCap,     \* [Dids -> Nat], orders.channel_count
    UserCap     \* [Users -> Int], users.global_channel_cap, negative: uncapped

ASSUME ReservationAssumption ==
    /\ Sanitize \in [Calls -> Keys]
    /\ DidCap \in [Dids -> Nat]
    /\ UserCap \in [Users -> Int]
    /\ IsFiniteSet(Calls)
    /\ \A c \in Calls \cap Keys : Sanitize[c] = c    \* sanitizing is idempotent

\* A Call-ID without an "@host" part: sanitizing it changes nothing.
Bare(c) == Sanitize[c] = c

\* Two mutants of reserveLua: a cap that lets one more in, and a DID cap left out.
ReserveCodeOneMore(userSet, didSet, userCap, didCap) ==
    IF userCap >= 0 /\ Cardinality(userSet) > userCap THEN -1
    ELSE IF Cardinality(didSet) > didCap THEN -2
    ELSE 1
ReserveCodeNoDid(userSet, didSet, userCap, didCap) ==
    IF userCap >= 0 /\ Cardinality(userSet) >= userCap THEN -1 ELSE 1

\* reserveLua's answer: 1 reserved, -1 user cap hit, -2 DID cap hit.  The caps
\* are looked at first, the caller's own membership never is.
ReserveCode(userSet, didSet, userCap, didCap) ==
    IF userCap >= 0 /\ Cardinality(userSet) >= userCap THEN -1
    ELSE IF Cardinality(didSet) >= didCap THEN -2
    ELSE 1

\* Mutant: SADD for SREM.
WithoutAdding(sets, ids) == [k \in DOMAIN sets |-> sets[k] \cup ids]

\* SREM of a set of identifiers from every act:* key of one kind (the SCAN
\* loop of releaseChannelByCallID and ReleaseChannelReservations).
Without(sets, ids) == [k \in DOMAIN sets |-> sets[k] \ ids]
===============================================================================
