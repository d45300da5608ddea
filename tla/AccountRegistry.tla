-------------------------- MODULE AccountRegistry --------------------------
(* Registration, and the usernames and addresses that accounts hold.  A name  *)
(* or an address is found free by one statement and taken by a later one of   *)
(* the same transaction: only a unique index stands between two transactions  *)
(* that both found it free.                                                   *)
EXTENDS Integers, FiniteSets

CONSTANTS
    Intents,     \* registration intents; an intent names the account it makes
    Names, Addresses,
    MaxWrong,    \* wrong codes before a code is dead
    MaxRenames   \* bound: username changes

ASSUME RegistryAssumption == "none" \notin Names

VARIABLES
    intent,      \* intent |-> what it asks for and how far it is
    mail,        \* intent |-> its active code
    holder,      \* account |-> the name and the address it holds
    rights,      \* account |-> what its owner has already used up
    partnered,   \* account |-> the name it was paired under, or none
    open,        \* intent or account |-> the transaction that holds its lock
    renames      \* username changes made

registryVars == <<intent, mail, holder, rights, partnered, open, renames>>

None == "none"
NoIntent == [state |-> "none"]
NoMail == [wrong |-> 0, expired |-> TRUE, recent |-> FALSE]
Mail == [wrong |-> 0, expired |-> FALSE, recent |-> TRUE]
Closed == [step |-> "none"]
Unused == [renamed |-> FALSE, corrected |-> FALSE]

Registered == {a \in Intents : holder[a] # [name |-> None, address |-> None]}

NameAvailable(name) == \A a \in Registered : holder[a].name # name

AddressAvailable(address, except) ==
    \A a \in Registered \ except : holder[a].address # address

RegistryInit ==
    /\ intent = [i \in Intents |-> NoIntent]
    /\ mail = [i \in Intents |-> NoMail]
    /\ holder = [a \in Intents |-> [name |-> None, address |-> None]]
    /\ rights = [a \in Intents |-> Unused]
    /\ partnered = [a \in Intents |-> None]
    /\ open = [i \in Intents |-> Closed]
    /\ renames = 0

-----------------------------------------------------------------------------
(* Registration *)

InsertRegistrationIntent(i, name, address) ==
    intent' = [intent EXCEPT ![i] = [state |-> "open", name |-> name, address |-> address]]

\* Nothing is reserved: two intents may ask for one name.
StartRegistration(i, name, address) ==
    /\ intent[i] = NoIntent
    /\ NameAvailable(name) /\ AddressAvailable(address, {})
    /\ InsertRegistrationIntent(i, name, address)
    /\ mail' = [mail EXCEPT ![i] = Mail]
    /\ UNCHANGED <<holder, rights, partnered, open, renames>>

LockRegistrationIntent(i) ==
    intent[i].state \in {"open", "expired"} /\ open[i] = Closed

ResendRegistration(i) ==
    /\ LockRegistrationIntent(i)
    /\ intent[i].state = "open" /\ ~mail[i].recent
    /\ mail' = [mail EXCEPT ![i] = Mail]
    /\ UNCHANGED <<intent, holder, rights, partnered, open, renames>>

MinutePasses(i) ==
    /\ mail[i].recent
    /\ mail' = [mail EXCEPT ![i].recent = FALSE]
    /\ UNCHANGED <<intent, holder, rights, partnered, open, renames>>

RegistrationCodeExpires(i) ==
    /\ ~mail[i].expired
    /\ mail' = [mail EXCEPT ![i].expired = TRUE, ![i].recent = FALSE]
    /\ UNCHANGED <<intent, holder, rights, partnered, open, renames>>

IntentExpires(i) ==
    /\ intent[i].state = "open"
    /\ intent' = [intent EXCEPT ![i].state = "expired"]
    /\ UNCHANGED <<mail, holder, rights, partnered, open, renames>>

\* The worker deletes what expired unfinished, and skips an intent that is locked.
DeleteExpiredIntents(i) ==
    /\ intent[i].state = "expired" /\ open[i] = Closed
    /\ intent' = [intent EXCEPT ![i] = NoIntent]
    /\ mail' = [mail EXCEPT ![i] = NoMail]
    /\ UNCHANGED <<holder, rights, partnered, open, renames>>

\* The failure is committed although the registration is refused.
RefuseRegistrationCode(i) ==
    /\ LockRegistrationIntent(i)
    /\ intent[i].state = "open" /\ ~mail[i].expired
    /\ mail' = [mail EXCEPT ![i].wrong = IF @ < MaxWrong THEN @ + 1 ELSE @]
    /\ UNCHANGED <<intent, holder, rights, partnered, open, renames>>

\* The code is right and the name and the address are free when they are read.
CheckRegistration(i) ==
    /\ LockRegistrationIntent(i)
    /\ intent[i].state = "open"
    /\ ~mail[i].expired /\ mail[i].wrong < MaxWrong
    /\ NameAvailable(intent[i].name) /\ AddressAvailable(intent[i].address, {})
    /\ open' = [open EXCEPT ![i] = [step |-> "verify"]]
    /\ UNCHANGED <<intent, mail, holder, rights, partnered, renames>>

\* The unique indexes of accounts and of current addresses.
NameIndexAdmits(a, name) == \A b \in Registered \ {a} : holder[b].name # name

AddressIndexAdmits(a, address) == \A b \in Registered \ {a} : holder[b].address # address

InsertAccount(a, name, address) ==
    holder' = [holder EXCEPT ![a] = [name |-> name, address |-> address]]

CompleteIntent(i) ==
    /\ intent' = [intent EXCEPT ![i].state = "completed"]
    /\ mail' = [mail EXCEPT ![i] = NoMail]

CommitRegistration(i) ==
    /\ open[i].step = "verify"
    /\ NameIndexAdmits(i, intent[i].name)
    /\ AddressIndexAdmits(i, intent[i].address)
    /\ InsertAccount(i, intent[i].name, intent[i].address)
    /\ CompleteIntent(i)
    /\ open' = [open EXCEPT ![i] = Closed]
    /\ UNCHANGED <<rights, partnered, renames>>

-----------------------------------------------------------------------------
(* Username, date of birth and address of an account *)

LockAccount(a) == a \in Registered /\ open[a] = Closed

\* Mutation: an occupied partnership is no obstacle.
UsernameChangeAllowed_Partnered(a) == ~rights[a].renamed

UsernameChangeAllowed(a) == ~rights[a].renamed /\ partnered[a] = None

CheckUsername(a, name) ==
    /\ renames < MaxRenames
    /\ LockAccount(a)
    /\ UsernameChangeAllowed(a)
    /\ NameAvailable(name)
    /\ open' = [open EXCEPT ![a] = [step |-> "rename", name |-> name]]
    /\ UNCHANGED <<intent, mail, holder, rights, partnered, renames>>

ChangeUsername(a) ==
    /\ open[a].step = "rename"
    /\ NameIndexAdmits(a, open[a].name)
    /\ holder' = [holder EXCEPT ![a].name = open[a].name]
    /\ rights' = [rights EXCEPT ![a].renamed = TRUE]
    /\ renames' = renames + 1
    /\ open' = [open EXCEPT ![a] = Closed]
    /\ UNCHANGED <<intent, mail, partnered>>

YearPasses(a) ==
    /\ rights[a].renamed
    /\ rights' = [rights EXCEPT ![a].renamed = FALSE]
    /\ UNCHANGED <<intent, mail, holder, partnered, open, renames>>

CorrectDateOfBirth(a) ==
    /\ LockAccount(a) /\ ~rights[a].corrected
    /\ rights' = [rights EXCEPT ![a].corrected = TRUE]
    /\ UNCHANGED <<intent, mail, holder, partnered, open, renames>>

CheckAddress(a, address) ==
    /\ LockAccount(a)
    /\ address # holder[a].address
    /\ AddressAvailable(address, {a})
    /\ open' = [open EXCEPT ![a] = [step |-> "move", address |-> address]]
    /\ UNCHANGED <<intent, mail, holder, rights, partnered, renames>>

\* The old address is released and the new one inserted in one transaction.
ChangeAddress(a) ==
    /\ open[a].step = "move"
    /\ AddressIndexAdmits(a, open[a].address)
    /\ holder' = [holder EXCEPT ![a].address = open[a].address]
    /\ open' = [open EXCEPT ![a] = Closed]
    /\ UNCHANGED <<intent, mail, rights, partnered, renames>>

\* A unique violation, or any other error, undoes the transaction.
RollBackRegistry(a) ==
    /\ open[a] # Closed
    /\ open' = [open EXCEPT ![a] = Closed]
    /\ UNCHANGED <<intent, mail, holder, rights, partnered, renames>>

\* A partnership is formed and released under the lock of the account.
Pair(a) ==
    /\ LockAccount(a) /\ partnered[a] = None
    /\ partnered' = [partnered EXCEPT ![a] = holder[a].name]
    /\ UNCHANGED <<intent, mail, holder, rights, open, renames>>

Part(a) ==
    /\ LockAccount(a) /\ partnered[a] # None
    /\ partnered' = [partnered EXCEPT ![a] = None]
    /\ UNCHANGED <<intent, mail, holder, rights, open, renames>>

RegistryNext ==
    \E i \in Intents :
        \/ \E name \in Names, address \in Addresses : StartRegistration(i, name, address)
        \/ ResendRegistration(i) \/ MinutePasses(i) \/ RegistrationCodeExpires(i)
        \/ IntentExpires(i) \/ DeleteExpiredIntents(i)
        \/ RefuseRegistrationCode(i) \/ CheckRegistration(i) \/ CommitRegistration(i)
        \/ \E name \in Names : CheckUsername(i, name)
        \/ ChangeUsername(i) \/ YearPasses(i) \/ CorrectDateOfBirth(i)
        \/ \E address \in Addresses : CheckAddress(i, address)
        \/ ChangeAddress(i) \/ RollBackRegistry(i)
        \/ Pair(i) \/ Part(i)

RegistrySpec == RegistryInit /\ [][RegistryNext]_registryVars

-----------------------------------------------------------------------------
(* Properties *)

RegistryTypeOK ==
    /\ \A a \in Registered : holder[a] \in [name : Names, address : Addresses]
    /\ \A i \in Intents : mail[i].wrong \in 0..MaxWrong
    /\ partnered \in [Intents -> Names \cup {None}]
    /\ rights \in [Intents -> [renamed : BOOLEAN, corrected : BOOLEAN]]
    /\ renames \in 0..MaxRenames

\* No two accounts hold one name or one address, however many transactions found
\* it free; an account exists exactly when its intent was completed, once; and a
\* member is known to the partner, as long as the pair lasts, by the name the
\* pair was formed under.
RegistryAccounted ==
    /\ \A a, b \in Registered : a # b =>
           holder[a].name # holder[b].name /\ holder[a].address # holder[b].address
    /\ \A i \in Intents : i \in Registered <=> intent[i].state = "completed"
    /\ \A a \in Intents : partnered[a] # None => partnered[a] = holder[a].name

=============================================================================
