------------------------------ MODULE S3Session ------------------------------
(***************************************************************************)
(* An AwsS3Fs between `new` and its end (src/src/client.rs): its settings, *)
(* and the SDK client that it has while it is connected.  `connect` awaits *)
(* a region and the chain of default credentials, and its future may be    *)
(* dropped at either await.  Its `&mut self` keeps every other call out.   *)
(***************************************************************************)

CONSTANTS
    Value,       \* what the owner may give a setting
    None,        \* Option::None; for new_path_style, false
    Settable,    \* bound: the settings the owner changes
    Provided,    \* the regions the environment may provide, or None
    UsWest2,     \* the region of last resort
    NoClient     \* AwsS3Fs::client of an AwsS3Fs that is not connected

Credential == {"access_key", "secret_key", "security_token", "session_token"}
Setting == Credential \cup {"region", "endpoint", "profile", "new_path_style"}
Option == Value \cup {None}
Region == (Value \cup Provided \cup {UsWest2}) \ {None}

\* What make_client builds an SDK client of; `profile` is that of the default
\* chain, None being the one the environment names.
S3Client == [region : Region, endpoint : Option, new_path_style : Option, profile : Option,
             access_key : Option, secret_key : Option, session_token : Option]

ASSUME SessionAssumption ==
    /\ None \notin Value \cup {UsWest2}
    /\ NoClient \notin S3Client
    /\ Settable \subseteq Setting

VARIABLES
    settings,     \* the options of the struct
    connecting,   \* the await that `connect` is at, or "no"
    found,        \* the region that `connect` has found
    client,       \* AwsS3Fs::client
    given,        \* history: the settings when connect was called, until it fails
                  \* or the owner disconnects
    up            \* history: was the owner told Ok by connect, and since
                  \* then not by disconnect?

session == <<settings, connecting, found, client, given, up>>

Unset == [s \in Setting |-> None]

SessionTypeOK ==
    /\ settings \in [Setting -> Option] /\ given \in [Setting -> Option]
    /\ connecting \in {"no", "region", "credentials"}
    /\ found \in Region \cup {None} /\ (connecting = "credentials" => found # None)
    /\ client \in S3Client \cup {NoClient}
    /\ up \in BOOLEAN

SessionInit ==
    /\ settings = Unset /\ given = Unset
    /\ connecting = "no" /\ found = None
    /\ client = NoClient
    /\ up = FALSE

\* A call returns, and the owner keeps in mind whether it is connected.
Says(answer) ==
    up' = IF answer \in {"connected", "disconnected"} THEN answer = "connected" ELSE up

-----------------------------------------------------------------------------

\* A method of the builder; it takes `self` and leaves the client alone.
Set(setting, value) ==
    /\ connecting = "no"
    /\ settings' = [settings EXCEPT ![setting] = value]
    /\ UNCHANGED <<connecting, found, client, given, up>>

IsAnonymous_NoKeys(s) == s["access_key"] = None /\ s["secret_key"] = None    \* mutant
IsAnonymous(s) == \A c \in Credential : s[c] = None

\* init_region: what was set, or what the environment provides, or neither.
InitRegion(provided) ==
    IF settings["region"] # None THEN settings["region"]
    ELSE IF provided # None THEN provided ELSE UsWest2

\* make_client with the credentials of the user, or with the default chain if
\* there are none.  The security token goes nowhere, and the chain is built
\* without the profile.
MakeClient(region) ==
    [region |-> region, endpoint |-> settings["endpoint"],
     new_path_style |-> settings["new_path_style"], profile |-> None,
     access_key |-> settings["access_key"], secret_key |-> settings["secret_key"],
     session_token |-> settings["session_token"]]

Connect ==
    /\ connecting = "no"
    /\ \/ /\ client # NoClient
          /\ Says("AlreadyConnected")
          /\ UNCHANGED <<connecting, given>>
       \/ /\ client = NoClient
          /\ connecting' = "region"
          /\ given' = settings
          /\ UNCHANGED up
    /\ UNCHANGED <<settings, found, client>>

Connected(region) ==
    /\ connecting' = "no" /\ found' = None
    /\ client' = MakeClient(region)
    /\ Says("connected")
    /\ UNCHANGED <<settings, given>>

\* connect returns an error, or its future is dropped.
NotConnected(answer) ==
    /\ connecting' = "no" /\ found' = None
    /\ given' = Unset
    /\ Says(answer)
    /\ UNCHANGED <<settings, client>>

\* Mutant: the client is assigned before its credentials are there.
AwaitChain_Assigned(region) ==
    /\ connecting' = "credentials" /\ found' = region
    /\ client' = MakeClient(region)
    /\ UNCHANGED <<settings, given, up>>

\* Without credentials of the user, connect awaits the default chain.
AwaitChain(region) ==
    /\ connecting' = "credentials" /\ found' = region
    /\ UNCHANGED <<settings, client, given, up>>

\* The region is there: load_credentials looks at the settings.
RegionFound ==
    /\ connecting = "region"
    /\ \E provided \in Provided :
           LET region == InitRegion(provided)
               hasKeys == None \notin {settings["access_key"], settings["secret_key"]}
           IN  \/ IsAnonymous(settings) /\ AwaitChain(region)
               \/ ~ IsAnonymous(settings) /\ ~ hasKeys /\ NotConnected("AuthenticationFailed")
               \/ hasKeys /\ Connected(region)

ChainBuilt == connecting = "credentials" /\ Connected(found)

DropConnect == connecting # "no" /\ NotConnected("dropped")

Disconnect ==
    /\ connecting = "no"
    /\ client' = NoClient /\ given' = Unset
    /\ Says(IF client = NoClient THEN "NotConnected" ELSE "disconnected")
    /\ UNCHANGED <<settings, connecting, found>>

SessionNext ==
    \/ \E setting \in Settable, value \in Value : Set(setting, value)
    \/ Connect \/ RegionFound \/ ChainBuilt \/ DropConnect \/ Disconnect

SessionSpec == SessionInit /\ [][SessionNext]_session

-----------------------------------------------------------------------------

\* An AwsS3Fs has a client exactly from a connect that said Ok to the next
\* disconnect that did, whatever was dropped or refused in between: a connect
\* that was dropped can be tried again (client.rs 320-350).
ConnectedAsTold == (client # NoClient) = up

\* The settings that make_client and load_credentials hand on as they are.
HandedOn == {"endpoint", "new_path_style", "access_key", "secret_key", "session_token"}

\* Whatever was set, dropped or refused before, a client has what the one call
\* of connect that made it was given: a region that was set is used, and an
\* owner who has given any credential never falls back on those of the
\* environment, nor on half of a pair (client.rs 208-267).  Of the profile and
\* the security token the next one speaks.
HonoursSettings ==
    client # NoClient =>
        /\ given["region"] \in {None, client.region}
        /\ \A s \in HandedOn : client[s] = given[s]
        /\ (\E c \in Credential : given[c] # None)
               => None \notin {client.access_key, client.secret_key}

\* "Set the AWS profile used to connect." (client.rs 107) and "Specify an AWS
\* security token." (client.rs 131): default credentials are those of the
\* profile that was set, and a security token is used unless a session token
\* is given, which is another name for it.
AllSettingsUsed ==
    client # NoClient =>
        /\ IsAnonymous(given) => client.profile = given["profile"]
        /\ given["session_token"] = None => client.session_token = given["security_token"]
=============================================================================
