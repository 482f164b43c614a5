-------------------------------- MODULE Bindings --------------------------------
(***************************************************************************)
(* Logins by one provider (QQ, WeChat, GitHub, Google) and the identities  *)
(* there that accounts are bound to.                                       *)
(*                                                                         *)
(* A login looks for the account its identity is bound to and makes one    *)
(* if there is none; a bind ties an identity to the account of whoever is  *)
(* logged in.  Both look first and write later, so that several may find   *)
(* an identity free.  Two unique indexes decide between them: an identity  *)
(* has one account, and an account one identity.  The transaction that     *)
(* loses rolls back and its request is answered with a plain error: the    *)
(* branch of OauthBind for such conflicts asks for an error that gorm, as  *)
(* it is opened in cmd/main.go, does not give.                             *)
(***************************************************************************)
EXTENDS FiniteSets, Integers

CONSTANTS
    Identities, \* openids of the provider
    Profiles,   \* ids of table users (bound: as many rows)
    Clients,    \* request goroutines
    NoOne       \* nobody, no picture

ASSUME BindingsAssumption == NoOne \notin Identities \cup Profiles

VARIABLES
    profile,  \* rows of users: not there, with a way in of their own, or made by a login
    picture,  \* whose picture a row shows
    binding,  \* rows of user_oauth_bindings
    client,   \* the request every goroutine is serving
    promised  \* history: accounts and identities of requests answered with success

bindingVars == <<profile, picture, binding, client, promised>>

Gone == [stage |-> "idle", user |-> NoOne, who |-> NoOne, pictured |-> FALSE]

BindingsInit ==
    /\ profile \in [Profiles -> {"none", "own"}]
    /\ picture = [u \in Profiles |-> NoOne]
    /\ binding = [i \in Identities |-> NoOne]
    /\ client = [c \in Clients |-> Gone]
    /\ promised = {}

IdentitiesOf(u) == {i \in Identities : binding[i] = u}

\* What a row shows from now on: the picture of identity who, if the provider gave one.
Shown(c, u, who) == IF client[c].pictured THEN [picture EXCEPT ![u] = who] ELSE picture

Answered(c) == client' = [client EXCEPT ![c] = Gone]

-----------------------------------------------------------------------------
\* fetchProviderUserInfo: the provider says who it is and may have a picture.
Exchange(c, stage, u, who, pictured) ==
    /\ client[c].stage = "idle"
    /\ client' = [client EXCEPT ![c] = [stage |-> stage, user |-> u, who |-> who, pictured |-> pictured]]
    /\ UNCHANGED <<profile, picture, binding, promised>>

BeginOauthLogin(c, who, pictured) == Exchange(c, "find", NoOne, who, pictured)

BeginOauthBind(c, u, who, pictured) == profile[u] # "none" /\ Exchange(c, "look", u, who, pictured)

\* FindOrCreateOauthUser finds the binding and refreshes the row it leads to.
FindOauthUser(c) ==
    LET u == binding[client[c].who] IN
    /\ client[c].stage = "find" /\ u # NoOne
    /\ picture' = Shown(c, u, client[c].who)
    /\ client' = [client EXCEPT ![c].stage = "enter", ![c].user = u]
    /\ UNCHANGED <<profile, binding, promised>>

\* ... or it finds none and goes on to make an account.
MissOauthUser(c) ==
    /\ client[c].stage = "find" /\ binding[client[c].who] = NoOne
    /\ client' = [client EXCEPT ![c].stage = "make"]
    /\ UNCHANGED <<profile, picture, binding, promised>>

\* A binding that is there is written over: RegistrationSound.
FaultyFree(who, u) == IdentitiesOf(u) = {}

\* What the unique indexes ask for.
Free(who, u) == binding[who] = NoOne /\ IdentitiesOf(u) = {}

\* The account and its binding are inserted in one transaction.
CreateOauthUser(c, u) ==
    /\ client[c].stage = "make"
    /\ profile[u] = "none" /\ Free(client[c].who, u)
    /\ profile' = [profile EXCEPT ![u] = "made"]
    /\ binding' = [binding EXCEPT ![client[c].who] = u]
    /\ picture' = Shown(c, u, client[c].who)
    /\ client' = [client EXCEPT ![c].stage = "enter", ![c].user = u]
    /\ UNCHANGED promised

\* After the access check of Access.
EnterByOauth(c) ==
    /\ client[c].stage = "enter"
    /\ promised' = promised \cup {<<client[c].user, client[c].who>>}
    /\ Answered(c)
    /\ UNCHANGED <<profile, picture, binding>>

\* OauthBind finds the identity bound already, to the one who asks or to another.
FindBound(c) ==
    LET u == binding[client[c].who] IN
    /\ client[c].stage = "look" /\ u # NoOne
    /\ promised' = IF u = client[c].user THEN promised \cup {<<u, client[c].who>>} ELSE promised
    /\ Answered(c)
    /\ UNCHANGED <<profile, picture, binding>>

MissBound(c) ==
    /\ client[c].stage = "look" /\ binding[client[c].who] = NoOne
    /\ client' = [client EXCEPT ![c].stage = "tie"]
    /\ UNCHANGED <<profile, picture, binding, promised>>

\* The picture is taken over by a bind that inserts nothing: RegistrationSound.
FaultyCreateUserOauthBinding(c) ==
    LET u == client[c].user
        who == client[c].who IN
    /\ client[c].stage = "tie"
    /\ binding' = IF Free(who, u) THEN [binding EXCEPT ![who] = u] ELSE binding
    /\ picture' = Shown(c, u, who)
    /\ Answered(c)
    /\ UNCHANGED <<profile, promised>>

\* Binding and picture in one transaction.
CreateUserOauthBinding(c) ==
    LET u == client[c].user
        who == client[c].who IN
    /\ client[c].stage = "tie" /\ Free(who, u)
    /\ binding' = [binding EXCEPT ![who] = u]
    /\ picture' = Shown(c, u, who)
    /\ promised' = promised \cup {<<u, who>>}
    /\ Answered(c)
    /\ UNCHANGED profile

\* A unique index, Postgres or the access check of a login says no.
FailOauth(c) ==
    /\ client[c].stage # "idle"
    /\ Answered(c)
    /\ UNCHANGED <<profile, picture, binding, promised>>

BindingsNext ==
    \E c \in Clients :
        \/ \E who \in Identities, pictured \in BOOLEAN :
              \/ BeginOauthLogin(c, who, pictured)
              \/ \E u \in Profiles : BeginOauthBind(c, u, who, pictured)
        \/ FindOauthUser(c) \/ MissOauthUser(c) \/ EnterByOauth(c)
        \/ \E u \in Profiles : CreateOauthUser(c, u)
        \/ FindBound(c) \/ MissBound(c) \/ CreateUserOauthBinding(c)
        \/ FailOauth(c)

BindingsSpec == BindingsInit /\ [][BindingsNext]_bindingVars

-----------------------------------------------------------------------------
\* Properties

BindingsTypeOK ==
    /\ profile \in [Profiles -> {"none", "own", "made"}]
    /\ picture \in [Profiles -> Identities \cup {NoOne}]
    /\ binding \in [Identities -> Profiles \cup {NoOne}]
    /\ client \in [Clients -> [stage : {"idle", "find", "make", "enter", "look", "tie"},
                               user : Profiles \cup {NoOne}, who : Identities \cup {NoOne}, pictured : BOOLEAN]]

\* Whoever was told that an identity leads to an account gets there with it for good.
PromisesKept == \A answer \in promised : binding[answer[2]] = answer[1]

\* A login that loses the race for its identity leaves no account that nobody can get into,
\* and an account has one identity.
NobodyLockedOut ==
    \A u \in Profiles : /\ profile[u] = "made" => IdentitiesOf(u) # {}
                        /\ Cardinality(IdentitiesOf(u)) <= 1

\* A row shows the picture of an identity that is bound to it.
PicturesOwn == \A u \in Profiles : picture[u] # NoOne => binding[picture[u]] = u

BindingsSound == BindingsTypeOK /\ PromisesKept /\ NobodyLockedOut /\ PicturesOwn
=============================================================================
