------------------------------- MODULE Nostr -------------------------------
(***************************************************************************)
(* The Nostr side of the app: the inbox of a client, the chat with a       *)
(* shared key, the list of follows and the account file.  They share no    *)
(* state; a behaviour is of one of them, and the others stay as they       *)
(* started.                                                                *)
(***************************************************************************)
EXTENDS NostrInbox, NostrShared, NostrContacts, NostrAccount

VARIABLE parte      \* the part that moves

vars == <<parte, inbox, shared, contacts, account>>

Init ==
    /\ parte \in {"inbox", "shared", "contacts", "account"}
    /\ InboxInit /\ SharedInit /\ ContactsInit /\ AccountInit

Inbox(step) == parte = "inbox" /\ step /\ UNCHANGED <<parte, shared, contacts, account>>
Shared(step) == parte = "shared" /\ step /\ UNCHANGED <<parte, inbox, contacts, account>>

Next ==
    \/ Inbox(InboxNext)
    \/ Shared(SharedNext)
    \/ parte = "contacts" /\ ContactsNext /\ UNCHANGED <<parte, inbox, shared, account>>
    \/ parte = "account" /\ AccountNext /\ UNCHANGED <<parte, inbox, shared, contacts>>

Spec == Init /\ [][Next]_vars

\* Every variable of the four parts has its type.
TypeOK == InboxTypeOK /\ SharedTypeOK /\ ContactsTypeOK /\ AccountTypeOK
=============================================================================
