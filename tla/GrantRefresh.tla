---------------------------- MODULE GrantRefresh -----------------------------
(***************************************************************************)
(* The OAuth grant of one person for one tracker: a row that any instance  *)
(* reads, refreshes and disconnects, and that its owner replaces or        *)
(* deletes at any time.  A Jira or a GitLab grant has a refresh token that *)
(* serves once, so a caller claims the refresh by a compare-and-set on the *)
(* version of the row before it calls the provider, and writes what it got *)
(* only on the row it claimed.  A GitHub token never expires: a refusal of *)
(* the token by GitHub disconnects the grant.  No lock spans a call.       *)
(***************************************************************************)
EXTENDS Naturals, FiniteSets

CONSTANTS
    Callers,     \* calls to the tracker, on any instance
    Trackers,    \* which of "jira", "gitlab" and "github" the grant is for
    MaxConsents, \* bound on the consents the person gives
    MaxVersion,  \* bound on the version at which a claim or a save is made
    Faults       \* "crash" when an instance may stop or a statement fail,
                 \* "lost" when the answer of the provider may be lost,
                 \* "pause" when a caller may stand still for a minute

ASSUME GrantAssumption ==
    /\ Trackers \subseteq {"jira", "gitlab", "github"}
    /\ MaxConsents \in Nat /\ MaxVersion \in Nat
    /\ Faults \subseteq {"crash", "lost", "pause"}

Grants == 1 .. MaxConsents

VARIABLES
    tracker,   \* fixed
    row,       \* the credential of the person, see NoRow
    consents,  \* how many consents were given: grants are numbered in order
    alive,     \* at the provider: the grant was not revoked
    unspent,   \* at the provider: the refresh token of a grant that serves
    revoking,  \* grants the server is about to revoke
    call,      \* where a caller is, and what it read or claimed
    lost,      \* history: grants whose current token nobody wrote
    slept,     \* history: a caller outlived its claim or the token it read
    recreated, \* history: the row was deleted once
    mistaken   \* history: a caller took a row for the one it had read

historyVars  == <<lost, slept, recreated, mistaken>>
providerVars == <<alive, unspent>>
vars == <<tracker, row, consents, providerVars, revoking, call, historyVars>>

(* Of the row: token is the generation of its refresh token, fresh says    *)
(* that its access token is not about to expire, claim is "none", "young"  *)
(* or "old", off is disconnected_at.                                       *)
NoRow == [kind |-> "none", grant |-> 0, token |-> 0, fresh |-> FALSE,
          version |-> 0, claim |-> "none", off |-> FALSE]

Idle == [pc |-> "idle", grant |-> 0, token |-> 0, version |-> 0]

Rows == [kind : {"none", "oauth", "api_token"}, grant : Nat, token : Nat,
         fresh : BOOLEAN, version : Nat, claim : {"none", "young", "old"},
         off : BOOLEAN]

Calls == [pc : {"idle", "claim", "refresh", "store", "refused", "failed", "use",
                "unauthorized"},
          grant : Nat, token : Nat, version : Nat]

TypeOK ==
    /\ tracker \in Trackers
    /\ row \in Rows
    /\ consents \in Nat
    /\ alive    \in [Grants -> BOOLEAN]
    /\ unspent  \in [Grants -> Nat]
    /\ revoking \subseteq Grants
    /\ call \in [Callers -> Calls]
    /\ lost \subseteq Grants
    /\ slept \in BOOLEAN /\ recreated \in BOOLEAN /\ mistaken \in BOOLEAN

Init ==
    /\ tracker \in Trackers
    /\ row = NoRow
    /\ consents = 0
    /\ alive = [k \in Grants |-> FALSE]
    /\ unspent = [k \in Grants |-> 0]
    /\ revoking = {}
    /\ call = [c \in Callers |-> Idle]
    /\ lost = {} /\ slept = FALSE /\ recreated = FALSE /\ mistaken = FALSE

------------------------------------------------------------------------------
(* The person. *)

Granted == row.kind = "oauth"

(* The version of a row written anew: an upsert moves it on, an insert     *)
(* starts it again.                                                        *)
NextVersion == IF row.kind = "none" THEN 0 ELSE row.version + 1

Saves(kind, grant) ==
    /\ row.version < MaxVersion
    /\ row' = [NoRow EXCEPT !.kind = kind, !.grant = grant, !.fresh = kind = "oauth",
                            !.version = NextVersion]

(* The grant in the row is read for its revocation, which follows. *)
Revokes(forges) ==
    revoking' = IF Granted /\ tracker \in forges THEN revoking \union {row.grant} ELSE revoking

(* SaveJiraGrant and SaveForgeGrant.  The GitHub grant that is replaced is *)
(* left alone, since revoking it would revoke the new one.                 *)
Connect ==
    /\ consents < MaxConsents
    /\ consents' = consents + 1
    /\ alive' = [alive EXCEPT ![consents + 1] = TRUE]
    /\ Saves("oauth", consents + 1)
    /\ Revokes({"gitlab"})
    /\ UNCHANGED <<tracker, unspent, call, historyVars>>

(* A token pasted in its place. *)
Paste ==
    /\ Saves("api_token", 0)
    /\ Revokes({"gitlab", "github"})
    /\ UNCHANGED <<tracker, consents, providerVars, call, historyVars>>

Delete ==
    /\ row.kind # "none"
    /\ row' = NoRow
    /\ recreated' = TRUE
    /\ Revokes({"gitlab", "github"})
    /\ UNCHANGED <<tracker, consents, providerVars, call, lost, slept, mistaken>>

------------------------------------------------------------------------------
(* The provider. *)

(* What dies with a grant: GitHub withdraws every token of the person. *)
Dies(k) ==
    alive' = [g \in Grants |-> alive[g] /\ g # k /\ tracker # "github"]

(* By the person, on the site of the provider, or by the provider. *)
Withdraw(k) ==
    /\ alive[k] /\ Dies(k)
    /\ UNCHANGED <<tracker, row, consents, unspent, revoking, call, historyVars>>

(* The revocation the server asks for is tried once. *)
Revoke(k) ==
    /\ k \in revoking
    /\ revoking' = revoking \ {k}
    /\ UNCHANGED alive \/ (alive[k] /\ Dies(k))
    /\ UNCHANGED <<tracker, row, consents, unspent, call, historyVars>>

------------------------------------------------------------------------------
(* A caller. *)

At(c, pc) == call[c].pc = pc
Goes(c, pc) == call' = [call EXCEPT ![c].pc = pc]
Leaves(c) == call' = [call EXCEPT ![c] = Idle]

(* The caller holds a claim, or believes that it can have it. *)
Claimed(c) == call[c].pc \in {"refresh", "store", "refused", "failed"}
Working(c) == At(c, "claim") \/ Claimed(c)

(* jiraGrantAccess and forgeGrantAccess read the row.  A token that is not *)
(* about to expire is used, a young claim is waited for, another           *)
(* credential or a disconnected grant is refused.                          *)
Look(c) ==
    /\ At(c, "idle") /\ Granted /\ ~row.off
    /\ IF row.fresh THEN tracker = "github" ELSE row.claim # "young"
    /\ call' = [call EXCEPT ![c] =
                  [pc |-> IF row.fresh THEN "use" ELSE "claim",
                   grant |-> row.grant, token |-> row.token, version |-> row.version]]
    /\ UNCHANGED <<tracker, row, consents, providerVars, revoking, historyVars>>

(* Slip: the claim is not compared with the row that was read. *)
MayClaimUnread(c) == Granted /\ row.claim # "young"

MayClaim(c) == Granted /\ row.version = call[c].version /\ row.claim # "young"

(* claimGrantRefresh. *)
ClaimRefresh(c) ==
    /\ At(c, "claim") /\ MayClaim(c) /\ row.version < MaxVersion
    /\ row' = [row EXCEPT !.version = @ + 1, !.claim = "young"]
    /\ call' = [call EXCEPT ![c].pc = "refresh", ![c].version = @ + 1]
    /\ mistaken' = (mistaken \/ call[c].grant # row.grant)
    /\ UNCHANGED <<tracker, consents, providerVars, revoking, lost, slept, recreated>>

LookAgain(c) ==
    /\ At(c, "claim") /\ ~MayClaim(c)
    /\ Leaves(c)
    /\ UNCHANGED <<tracker, row, consents, providerVars, revoking, historyVars>>

Serves(c) == alive[call[c].grant] /\ call[c].token = unspent[call[c].grant]

(* The provider rotates the refresh token; its answer may be lost, or come *)
(* after the deadline of the call.                                         *)
Rotate(c) ==
    /\ At(c, "refresh") /\ Serves(c)
    /\ unspent' = [unspent EXCEPT ![call[c].grant] = @ + 1]
    /\ \/ /\ call' = [call EXCEPT ![c].pc = "store", ![c].token = @ + 1]
          /\ UNCHANGED lost
       \/ /\ "lost" \in Faults
          /\ Goes(c, "failed")
          /\ lost' = lost \union {call[c].grant}
    /\ UNCHANGED <<tracker, row, consents, alive, revoking, slept, recreated, mistaken>>

(* invalid_grant. *)
Deny(c) ==
    /\ At(c, "refresh") /\ ~Serves(c)
    /\ Goes(c, "refused")
    /\ UNCHANGED <<tracker, row, consents, providerVars, revoking, historyVars>>

(* The app is not configured, or the provider does not answer. *)
Fail(c) ==
    /\ At(c, "refresh")
    /\ Goes(c, "failed")
    /\ UNCHANGED <<tracker, row, consents, providerVars, revoking, historyVars>>

(* Slip: the version alone tells whose row it is. *)
HoldsVersion(c) == row.version = call[c].version

(* The claim this caller made is still that of the row: jiraGrantClaimHeld. *)
Holds(c) == Granted /\ row.version = call[c].version /\ row.claim # "none"

(* The end of a claim, on the row it was made on only. *)
Settles(c, settled) ==
    /\ row' = IF Holds(c) THEN settled ELSE row
    /\ Leaves(c)
    /\ UNCHANGED <<tracker, consents, providerVars, revoking, historyVars>>

Unclaimed == [row EXCEPT !.version = @ + 1, !.claim = "none"]

(* Slip: the tokens obtained are dropped with the claim. *)
StoreNothing(c) == At(c, "store") /\ Settles(c, Unclaimed)

Store(c) ==
    /\ At(c, "store")
    /\ Settles(c, [Unclaimed EXCEPT !.grant = call[c].grant, !.token = call[c].token,
                                    !.fresh = TRUE])

DisconnectClaimed(c) ==
    At(c, "refused") /\ Settles(c, [Unclaimed EXCEPT !.off = TRUE])

Release(c) ==
    At(c, "failed") /\ Settles(c, Unclaimed)

(* A call to GitHub with the token that was read: the token serves, or     *)
(* GitHub refuses it.                                                      *)
Use(c) ==
    /\ At(c, "use")
    /\ IF alive[call[c].grant] THEN Leaves(c) ELSE Goes(c, "unauthorized")
    /\ UNCHANGED <<tracker, row, consents, providerVars, revoking, historyVars>>

(* Slip: a refusal disconnects whatever grant the row has. *)
MayMarkAny(c) == Granted /\ ~row.off

MayMark(c) == Granted /\ row.version = call[c].version /\ ~row.off

(* MarkForgeGrantDisconnected. *)
Mark(c) ==
    /\ At(c, "unauthorized")
    /\ row' = IF MayMark(c) THEN [row EXCEPT !.off = TRUE, !.version = @ + 1] ELSE row
    /\ Leaves(c)
    /\ mistaken' = (mistaken \/ (MayMark(c) /\ call[c].grant # row.grant))
    /\ UNCHANGED <<tracker, consents, providerVars, revoking, lost, slept, recreated>>

(* The instance stops, or the last statement fails.  The tokens of an      *)
(* answer are lost with the caller.                                        *)
Crash(c) ==
    /\ "crash" \in Faults /\ ~At(c, "idle")
    /\ Leaves(c)
    /\ lost' = IF At(c, "store") THEN lost \union {call[c].grant} ELSE lost
    /\ UNCHANGED <<tracker, row, consents, providerVars, revoking, slept, recreated, mistaken>>

------------------------------------------------------------------------------
(* Time.  A caller is done within fifteen seconds or so, long before its   *)
(* claim is a minute old or a token issued after it read the row expires,  *)
(* unless it stood still.                                                  *)
Passes(late) ==
    /\ late => "pause" \in Faults
    /\ slept' = (slept \/ late)
    /\ UNCHANGED <<tracker, consents, providerVars, revoking, call, lost, recreated, mistaken>>

Age ==
    /\ row.claim = "young"
    /\ row' = [row EXCEPT !.claim = "old"]
    /\ Passes(\E c \in Callers : Claimed(c) /\ Holds(c))

Expire ==
    /\ Granted /\ row.fresh /\ tracker # "github"
    /\ row' = [row EXCEPT !.fresh = FALSE]
    /\ Passes(\E c \in Callers : Working(c))

------------------------------------------------------------------------------
Person == Connect \/ Paste \/ Delete

Provider == \E k \in Grants : Withdraw(k) \/ Revoke(k)

Caller(c) ==
    \/ Look(c) \/ ClaimRefresh(c) \/ LookAgain(c)
    \/ Rotate(c) \/ Deny(c) \/ Fail(c)
    \/ Store(c) \/ DisconnectClaimed(c) \/ Release(c)
    \/ Use(c) \/ Mark(c) \/ Crash(c)

Next ==
    \/ Person \/ Provider \/ Age \/ Expire
    \/ \E c \in Callers : Caller(c)

Spec == Init /\ [][Next]_vars

------------------------------------------------------------------------------
(* Properties. *)

(* What the protocol does not cover: a caller that stood still for longer  *)
(* than its claim or a token lasts, and one that took a new row, back at   *)
(* the version it had read, for the row it had read.                       *)
Confused == slept \/ mistaken

(* A refresh is asked for with a token nobody spent, by one caller: two    *)
(* instances never spend one refresh token, and an invalid_grant can be    *)
(* trusted, unless an answer was lost.                                     *)
RefreshesUnspentToken ==
    Confused \/ \A c \in Callers : At(c, "refresh") =>
        /\ call[c].token = unspent[call[c].grant] \/ call[c].grant \in lost
        /\ \A d \in Callers \ {c} : At(d, "refresh") => call[c].grant # call[d].grant

(* No connection that works is taken from its owner: a disconnected grant  *)
(* is dead at its provider, or the answer that held its token was lost.    *)
DisconnectedWhenDead ==
    Granted /\ row.off /\ ~Confused => ~alive[row.grant] \/ row.grant \in lost

(* What the person connected last is what the row holds: no refresh of a   *)
(* grant that was replaced or deleted writes over the new one, and its     *)
(* token is the one the provider will accept.                              *)
RowHoldsLastConsent ==
    Granted /\ ~Confused =>
        /\ row.grant = consents
        /\ \/ row.token = unspent[row.grant] \/ row.grant \in lost
           \/ \E c \in Callers : At(c, "store") /\ call[c].grant = row.grant

(* A version names one row: only a row deleted in between is mistaken.     *)
OnlyRecreatedRowsMistaken == mistaken => recreated

(* A row that is no grant is not claimed, and GitHub tokens never expire.  *)
Kinds ==
    /\ ~Granted => row.claim = "none" /\ ~row.off /\ ~row.fresh
    /\ tracker = "github" => (Granted => row.fresh) /\ \A c \in Callers : ~Working(c)
    /\ \A c \in Callers : call[c].pc \in {"use", "unauthorized"} => tracker = "github"

(* Callers work with grants that were given, and a version that was not    *)
(* started again is that of one grant.                                     *)
Lineage ==
    /\ consents <= MaxConsents
    /\ Granted => row.grant \in 1 .. consents
    /\ revoking \subseteq 1 .. consents
    /\ \A k \in Grants : k > consents => ~alive[k] /\ unspent[k] = 0
    /\ \A c \in Callers : ~At(c, "idle") =>
        /\ call[c].grant \in 1 .. consents
        /\ ~recreated =>
             /\ row.kind # "none" /\ call[c].version <= row.version
             /\ Granted /\ call[c].version = row.version => call[c].grant = row.grant

(* On a row whose token has expired there is one claim at most, that of    *)
(* the caller at work, and whoever may claim next has read that row.  A    *)
(* caller still at work on a row with a live token works for an older one. *)
Claims ==
    /\ Granted /\ row.fresh => row.claim = "none"
    /\ Granted => row.grant = consents
    /\ \A c, d \in Callers : Claimed(c) /\ Claimed(d) /\ c # d => call[c].grant # call[d].grant
    /\ \A c \in Callers : Granted /\ Claimed(c) =>
        IF row.fresh THEN call[c].grant # row.grant
        ELSE call[c].grant = row.grant /\ call[c].version = row.version /\ row.claim = "young"
    /\ \A c \in Callers : Granted /\ At(c, "claim") =>
        IF row.fresh THEN call[c].grant = row.grant => call[c].version < row.version
        ELSE /\ call[c].grant = row.grant /\ call[c].version <= row.version
             /\ call[c].version = row.version => call[c].token = row.token

Sound(k, token) == token = unspent[k] \/ k \in lost

Tokens ==
    /\ \A c \in Callers : call[c].pc \in {"refresh", "store"} => Sound(call[c].grant, call[c].token)
    /\ \A c \in Callers : At(c, "refused") => ~alive[call[c].grant] \/ call[c].grant \in lost
    /\ Granted => \/ Sound(row.grant, row.token)
                  \/ \E c \in Callers : At(c, "store") /\ call[c].grant = row.grant

(* Inductive. *)
IInv ==
    /\ TypeOK
    /\ Kinds
    /\ Lineage
    /\ OnlyRecreatedRowsMistaken
    /\ \A c \in Callers : At(c, "unauthorized") => ~alive[call[c].grant]
    /\ ~Confused => Claims /\ Tokens
    /\ DisconnectedWhenDead
==============================================================================
