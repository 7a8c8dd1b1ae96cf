----------------------------- MODULE Inventory -----------------------------
(***************************************************************************)
(* What the plugin knows of the host's upstream credentials, and from whom *)
(* (credentials and credentialIdentities of the App, under routingMu).     *)
(*                                                                         *)
(* Four sources feed it: candidates offered to the scheduler, the host's   *)
(* list of auth files, the configured credentials an administrator's page  *)
(* synchronizes, and the check of a selected credential.  The first two    *)
(* and the last come from the host and say who a credential is; the page   *)
(* only says how to display it.                                            *)
(*                                                                         *)
(* The host gives a configured credential one identity for good; an auth   *)
(* file may change under its ID.                                           *)
(***************************************************************************)
CONSTANTS
  Credentials,     \* raw IDs of upstream credentials
  HostIdentities,  \* the identities the host may give each credential
  Nobody           \* no identity

Config == "ai-providers"
Files == "auth-files"

\* A credential whose metadata does not tell its source, or its provider.
Unsourced(identity) == [identity EXCEPT !.source = ""]
Unnamed(identity) == [identity EXCEPT !.provider = ""]

Told(identity) == {identity, Unsourced(identity), Unnamed(identity)}

ASSUME InventoryAssumption ==
  \A c \in Credentials : \A i \in HostIdentities[c] :
    i # Nobody => /\ i = [source |-> i.source, provider |-> i.provider]
                  /\ i.source \in {Config, Files}
                  /\ i.source = Config => HostIdentities[c] \subseteq {i, Nobody}

VARIABLES
  host,        \* the host's credentials: an identity, or Nobody
  identities,  \* credentialIdentities: what the host said, or Nobody
  view,        \* credentials: the source under which each is displayed, "" for not at all
  configured   \* the configured credentials in the store

inventoryVars == <<host, identities, view, configured>>

\* The host's credentials come, go and change.
HostChanges(c) ==
  /\ host' \in {[host EXCEPT ![c] = i] : i \in HostIdentities[c] \cup {Nobody}}
  /\ UNCHANGED <<identities, view, configured>>

(***************************************************************************)
(* refreshCredentialInventory: listing gives the auth files as the host    *)
(* had them before the lock was taken; files it cannot tell the source of  *)
(* are left out, and so may be what is configured.                         *)
(***************************************************************************)
Refresh(listing) ==
  LET shown == [c \in Credentials |->
                  IF listing[c] # Nobody THEN listing[c].source
                  ELSE IF view[c] = Config THEN Config ELSE ""]
  IN  /\ view' = shown
      /\ identities' = [c \in Credentials |->
                          IF listing[c] # Nobody THEN listing[c]
                          ELSE IF identities[c] # Nobody /\ identities[c].source = Config /\ shown[c] # ""
                            THEN identities[c] ELSE Nobody]
      /\ UNCHANGED <<host, configured>>

\* Any earlier state of the host, for those it lists.
Listings == {listing \in [Credentials -> UNION {HostIdentities[c] : c \in Credentials} \cup {Nobody}] :
               \A c \in Credentials : listing[c] \in HostIdentities[c] \cup {Nobody}}

\* observeCandidates: a candidate of unknown source is forgotten but stays displayed.
ObserveCandidates(offered) ==
  /\ identities' = [c \in Credentials |->
                      IF c \notin DOMAIN offered THEN identities[c]
                      ELSE IF offered[c].source = "" THEN Nobody ELSE offered[c]]
  /\ view' = [c \in Credentials |->
                IF c \notin DOMAIN offered THEN view[c]
                ELSE IF offered[c].source = "" THEN view[c] ELSE offered[c].source]
  /\ UNCHANGED <<host, configured>>

\* What the host may offer: credentials it has, their source and provider told or not.
Offers ==
  LET present == {c \in Credentials : host[c] # Nobody}
  IN  UNION {{offered \in [cs -> UNION {Told(host[c]) : c \in cs}] : \A c \in cs : offered[c] \in Told(host[c])}
               : cs \in SUBSET present \ {{}}}

\* mutant of ReplaceSynced: what the page says becomes the identity
ReplaceSyncedIdentity(next) ==
  /\ identities' = [c \in Credentials |->
                      IF c \in configured \ next THEN Nobody
                      ELSE IF c \in next THEN [source |-> Config, provider |-> "unknown"] ELSE identities[c]]
  /\ view' = [c \in Credentials |->
                IF c \in next THEN Config ELSE IF c \in configured THEN "" ELSE view[c]]

\* replaceSyncedCredentials: those no longer configured are forgotten.
ReplaceSynced(next) ==
  /\ identities' = [c \in Credentials |-> IF c \in configured \ next THEN Nobody ELSE identities[c]]
  /\ view' = [c \in Credentials |->
                IF c \in next THEN Config ELSE IF c \in configured THEN "" ELSE view[c]]

\* The page synchronizes the configured credentials, or the plugin is configured with a
\* database that holds others; routingMu is held across the save.
SyncConfigured(next) ==
  /\ ReplaceSynced(next)
  /\ configured' = next
  /\ UNCHANGED host

\* A check writes back the identity it found.
RememberIdentity(c, identity) ==
  /\ identities' = [identities EXCEPT ![c] = identity]
  /\ UNCHANGED <<host, view, configured>>

\* missingCredentialRef: what is not among these is missing.
Displayed == {c \in Credentials : view[c] # ""}

InventoryInit ==
  /\ host \in [Credentials -> UNION {HostIdentities[c] : c \in Credentials}]
  /\ \A c \in Credentials : host[c] \in HostIdentities[c]
  /\ identities = [c \in Credentials |-> Nobody]
  /\ view = [c \in Credentials |-> ""]
  /\ configured = {}

InventoryNext ==
  \/ \E c \in Credentials : HostChanges(c)
  \/ \E listing \in Listings : Refresh(listing)
  \/ \E next \in SUBSET Credentials : SyncConfigured(next)

----------------------------------------------------------------------------
(* Properties *)

\* The identity a check takes on trust is one that the host has given the credential:
\* nothing a page synchronized, and no rest of a deleted or changed credential, stands in
\* for it.
TrustedFromHost ==
  \A c \in Credentials :
    identities[c] # Nobody /\ identities[c].source = Config /\ identities[c].provider # ""
      => identities[c] \in HostIdentities[c]
=============================================================================
