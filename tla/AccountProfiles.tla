---------------------------- MODULE AccountProfiles ----------------------------
(***************************************************************************)
(* AccountProfileResolver: looks up the names and pictures of the          *)
(* identities the polkit dialog offers, at the password file at once and   *)
(* at AccountsService in two calls. A request ends while calls are out.    *)
(***************************************************************************)
EXTENDS Naturals, FiniteSets

CONSTANTS ProfileIdentities,
          Users,          \* the identities that have a uid; groups have none
          MaxProfileRequests     \* bound: requests presented

ASSUME UsersAssumption == Users \subseteq ProfileIdentities
ASSUME MaxProfileRequestsAssumption == MaxProfileRequests \in Nat

VARIABLES
  profilePrompt,   \* the model's token, whether it is active, and the profile of each identity offered
  profileScope,    \* request_scope_: the request whose lookups live, 0 none
  profileLookups,  \* calls to AccountsService
  profileDone      \* ghost: the lookups that were answered, by request

profileVars == <<profilePrompt, profileScope, profileLookups, profileDone>>

\* A profile is what was shown and the request it was looked up for.
NoProfile == [from |-> "none", for |-> 0]

Profiles == [from : {"none", "passwd", "accounts"}, for : 0..MaxProfileRequests]

ProfileTypeOK ==
  /\ profilePrompt \in [token : 0..MaxProfileRequests, made : 0..MaxProfileRequests, active : BOOLEAN,
                        offered : SUBSET ProfileIdentities, shown : [ProfileIdentities -> Profiles]]
  /\ profileScope \in 0..MaxProfileRequests
  /\ profileLookups \subseteq [request : 1..MaxProfileRequests, user : Users, call : {"find", "get"}]
  /\ profileDone \subseteq (1..MaxProfileRequests) \X Users

ProfilesOfInit ==
  /\ profilePrompt = [token |-> 0, made |-> 0, active |-> FALSE, offered |-> {},
                      shown |-> [i \in ProfileIdentities |-> NoProfile]]
  /\ profileScope = 0 /\ profileLookups = {} /\ profileDone = {}

\* updateIdentityProfile: refused when the request is over or does not offer the identity.
UpdateProfile(prompt, request, lookup, from) ==
  IF prompt.active /\ prompt.token = request /\ lookup.user \in prompt.offered
  THEN [prompt EXCEPT !.shown[lookup.user] = [from |-> from, for |-> lookup.request]] ELSE prompt

\* beginRequest, then resolveCurrentRequest: each user's local record, if it has one, and a lookup.
Present ==
  /\ ~profilePrompt.active /\ profilePrompt.made < MaxProfileRequests
  /\ \E offered \in SUBSET ProfileIdentities \ {{}}, recorded \in SUBSET Users :
       LET request == profilePrompt.made + 1 IN
       /\ profilePrompt' = [token |-> request, made |-> request, active |-> TRUE, offered |-> offered,
                            shown |-> [i \in ProfileIdentities |-> IF i \in offered \cap recorded
                                                            THEN [from |-> "passwd", for |-> request] ELSE NoProfile]]
       /\ profileScope' = request
       /\ profileLookups' = profileLookups \cup [request : {request}, user : offered \cap Users, call : {"find"}]
  /\ UNCHANGED profileDone

\* Completed, cancelled: the scope goes and takes the watchers with it; the token stays until the
\* request is cleared.
RequestEnds ==
  /\ profilePrompt.active
  /\ profilePrompt' = [profilePrompt EXCEPT !.active = FALSE]
  /\ profileScope' = 0 /\ UNCHANGED <<profileLookups, profileDone>>

RequestCleared ==
  /\ ~profilePrompt.active /\ profilePrompt.token # 0
  /\ profilePrompt' = [profilePrompt EXCEPT !.token = 0, !.offered = {}, !.shown = [i \in ProfileIdentities |-> NoProfile]]
  /\ profileScope' = 0 /\ UNCHANGED <<profileLookups, profileDone>>

\* A watcher is a child of its request's scope: without it the reply is dropped.
IsHeard(l) == l.request = profileScope

\* Mutant: a reply goes to whatever request is shown when it comes.
EnrichedLate(prompt, l) == UpdateProfile(prompt, prompt.token, l, "accounts")

Enriched(prompt, l) == IF IsHeard(l) THEN UpdateProfile(prompt, l.request, l, "accounts") ELSE prompt

\* FindUserById answers with a path, or fails.
UserFound(l) ==
  /\ l.call = "find"
  /\ \E found \in BOOLEAN :
       /\ profileLookups' = (profileLookups \ {l}) \cup (IF found /\ IsHeard(l) THEN {[l EXCEPT !.call = "get"]} ELSE {})
       /\ profileDone' = IF found /\ IsHeard(l) THEN profileDone ELSE profileDone \cup {<<l.request, l.user>>}
  /\ UNCHANGED <<profilePrompt, profileScope>>

\* GetAll answers with properties, or fails.
PropertiesCome(l) ==
  /\ l.call = "get" /\ profileLookups' = profileLookups \ {l}
  /\ profileDone' = profileDone \cup {<<l.request, l.user>>}
  /\ profilePrompt' \in {profilePrompt, Enriched(profilePrompt, l)}
  /\ UNCHANGED profileScope

ProfilesOfNext ==
  \/ Present \/ RequestEnds \/ RequestCleared
  \/ \E l \in profileLookups : UserFound(l) \/ PropertiesCome(l)

ProfilesSpec == ProfilesOfInit /\ [][ProfilesOfNext]_profileVars

----------------------------------------------------------------------------
(* Properties.                                                             *)

\* A profile in the dialog was looked up for the request that is shown, and every user it offers
\* has been answered for or is still being looked up.
ProfilesAreOfThisRequest ==
  /\ ProfileTypeOK
  /\ \A i \in ProfileIdentities : profilePrompt.shown[i].for \in {0, profilePrompt.token}
  /\ profilePrompt.active =>
       \A u \in profilePrompt.offered \cap Users :
         \/ <<profilePrompt.token, u>> \in profileDone
         \/ profileScope = profilePrompt.token /\ \E l \in profileLookups : l.request = profileScope /\ l.user = u
=============================================================================
