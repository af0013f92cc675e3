------------------------------- MODULE Lease -------------------------------
(***************************************************************************)
(* What a caller of LockingCRUD may rely on, without times, images or      *)
(* calls.  A key has contents, 0 when there is none, and at most one owner *)
(* at a time.  While a client owns a key it sees the latest contents and   *)
(* nobody else changes them.  Ownership may lapse at any moment (the lease *)
(* runs out, the client raises or crashes); a client that owned the key    *)
(* may still write it afterwards, but never while somebody else owns it.   *)
(***************************************************************************)
EXTENDS Naturals

CONSTANTS Client, Key, None

VARIABLES
    owner,    \* owner[k]: the client that owns k, or None
    content,  \* content[k]: the contents of k, 0 for none
    seen      \* seen[c][k]: the contents c knows of, for a key it owns

vars == <<owner, content, seen>>

Init ==
    /\ owner = [k \in Key |-> None]
    /\ content = [k \in Key |-> 0]
    /\ seen = [c \in Client |-> [k \in Key |-> 0]]

\* Only the contents of k change.
Rewrite(k) ==
    /\ content'[k] \in Nat \ {content[k]}
    /\ content' = [content EXCEPT ![k] = content'[k]]

\* c becomes the owner of an existing key.
Acquire(c, k) ==
    /\ owner[k] = None /\ content[k] # 0
    /\ owner' = [owner EXCEPT ![k] = c]
    /\ seen' = [seen EXCEPT ![c][k] = content[k]]
    /\ UNCHANGED content

\* A client that owns nothing of k, or never did, writes k while it has no owner;
\* it may own k afterwards.
WriteUnowned(k) ==
    /\ owner[k] = None
    /\ Rewrite(k)
    /\ \/ UNCHANGED <<owner, seen>>
       \/ \E c \in Client :
              /\ content'[k] # 0
              /\ owner' = [owner EXCEPT ![k] = c]
              /\ seen' = [seen EXCEPT ![c][k] = content'[k]]

\* The owner replaces the contents it has seen, or removes them, and keeps or
\* gives up the ownership.
WriteOwned(c, k) ==
    /\ owner[k] = c /\ seen[c][k] = content[k]
    /\ Rewrite(k)
    /\ \/ /\ content'[k] # 0
          /\ seen' = [seen EXCEPT ![c][k] = content'[k]]
          /\ UNCHANGED owner
       \/ /\ owner' = [owner EXCEPT ![k] = None]
          /\ seen' = [seen EXCEPT ![c][k] = 0]

\* The ownership of the keys in S ends without a write.
Lapse(S) ==
    /\ owner' = [k \in Key |-> IF k \in S THEN None ELSE owner[k]]
    /\ seen' = [c \in Client |-> [k \in Key |-> IF k \in S THEN 0 ELSE seen[c][k]]]
    /\ UNCHANGED content

Next ==
    \/ \E c \in Client, k \in Key : Acquire(c, k) \/ WriteOwned(c, k)
    \/ \E k \in Key : WriteUnowned(k)
    \/ \E S \in SUBSET Key : Lapse(S)

Spec == Init /\ [][Next]_vars
=============================================================================
