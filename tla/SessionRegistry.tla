-------------------------- MODULE SessionRegistry --------------------------
(***************************************************************************)
(* The lwiperf session registry (lwiperf.c): the singly linked list        *)
(* lwiperf_all_connections of every active session, the weak              *)
(* related_master_state reference of each session, the                     *)
(* deallocated_master_state_address it remembers when that master is       *)
(* removed, and lwiperf_abort, which walks the list closing a session and  *)
(* every session that names it as master.                                  *)
(*                                                                         *)
(* Sessions are identified by the address of their memory block, exactly   *)
(* as in the code: Addr is the set of blocks LWIPERF_ALLOC may return, and *)
(* a freed block may be returned again by a later allocation.  The callers *)
(* of the registry (the start functions, the accept and receive callbacks  *)
(* that spawn sessions, the close paths) are abstracted to Create, Close   *)
(* and Abort over every master the code may pass.                          *)
(*                                                                         *)
(* Two ghost variables record what the code cannot see: inc[a] counts the  *)
(* allocations of block a, and parent[a] is the identity <<block, inc>>    *)
(* of the master the session at a was created with.                        *)
(***************************************************************************)
EXTENDS Naturals, Sequences, SequencesExt, FiniteSets

CONSTANTS
    Addr,         \* memory blocks that can hold a session
    NULL,         \* the null pointer
    MaxCreates    \* bound on the number of sessions ever created

ASSUME NULL \notin Addr /\ MaxCreates \in Nat

VARIABLES
    list,         \* lwiperf_all_connections, head first
    used,         \* blocks currently allocated by LWIPERF_ALLOC
    master,       \* related_master_state of each block
    dealloc,      \* deallocated_master_state_address of each block
    inc,          \* ghost: number of allocations of each block
    parent,       \* ghost: identity of the master a session was created with
    aborted       \* ghost: the handle of the lwiperf_abort call of this step

vars == <<list, used, master, dealloc, inc, parent, aborted>>

NoId == <<NULL, 0>>
Id(a) == <<a, inc[a]>>
Ptr == Addr \cup {NULL}

Registered == Range(list)

(* The registry fields as one record, so that the abort loop can thread   *)
(* them through a recursion.                                               *)
Regs == [list |-> list, used |-> used, master |-> master, dealloc |-> dealloc]

-----------------------------------------------------------------------------
(* lwiperf_list_add: push the item at the head of the list.                *)
ListAdd(st, a) == [st EXCEPT !.list = <<a>> \o @]

(* lwiperf_list_remove: one pass over the list that clears every           *)
(* reference to the item, remembering its address, and unlinks the item.   *)
Orphans(st, a) == {x \in Range(st.list) : st.master[x] = a}

(* Faulty variants of the two steps, each a plausible slip in this code:   *)
(* unlinking only when the item is the head (no prev->next update), and    *)
(* unlinking without the fix-up of the other sessions' master pointers.    *)
ListRemoveHeadOnly(st, a) ==
    IF st.list # <<>> /\ Head(st.list) = a
    THEN [st EXCEPT !.list    = Tail(@),
                    !.master  = [x \in Addr |-> IF x \in Orphans(st, a) THEN NULL ELSE @[x]],
                    !.dealloc = [x \in Addr |-> IF x \in Orphans(st, a) THEN a ELSE @[x]]]
    ELSE [st EXCEPT !.master  = [x \in Addr |-> IF x \in Orphans(st, a) THEN NULL ELSE @[x]],
                    !.dealloc = [x \in Addr |-> IF x \in Orphans(st, a) THEN a ELSE @[x]]]

ListRemoveNoFixup(st, a) == [st EXCEPT !.list = Remove(@, a)]

ListRemove(st, a) ==
    [st EXCEPT !.list    = Remove(@, a),
               !.master  = [x \in Addr |-> IF x \in Orphans(st, a) THEN NULL ELSE @[x]],
               !.dealloc = [x \in Addr |-> IF x \in Orphans(st, a) THEN a ELSE @[x]]]

(* The registry part of lwiperf_tcp_close and lwiperf_udp_close: remove    *)
(* the session from the list, then LWIPERF_FREE its block.                 *)
SessionClose(st, a) ==
    LET r == ListRemove(st, a) IN [r EXCEPT !.used = @ \ {a}]

(* The abort test without the remembered-address clause.                  *)
AbortMatchesLive(st, i, h) == i = h \/ st.master[i] = h

(* The condition lwiperf_abort tests on every list item.                   *)
AbortMatches(st, i, h) ==
    \/ i = h
    \/ st.master[i] = h
    \/ st.dealloc[i] = h

(* The loop of lwiperf_abort.  It follows the next pointer it captured     *)
(* before closing an item, and closing one item never unlinks another, so  *)
(* visiting the items of the list as it was when the loop started is the   *)
(* same walk; the match is evaluated on the state as updated by the       *)
(* closes already made.                                                    *)
RECURSIVE AbortWalk(_, _, _)
AbortWalk(st, h, todo) ==
    IF todo = <<>> THEN st
    ELSE LET i == Head(todo)
         IN  AbortWalk(IF AbortMatches(st, i, h) THEN SessionClose(st, i) ELSE st,
                       h, Tail(todo))

SetRegs(st) ==
    /\ list' = st.list
    /\ used' = st.used
    /\ master' = st.master
    /\ dealloc' = st.dealloc

-----------------------------------------------------------------------------
Init ==
    /\ list = <<>>
    /\ used = {}
    /\ master = [a \in Addr |-> NULL]
    /\ dealloc = [a \in Addr |-> NULL]
    /\ inc = [a \in Addr |-> 0]
    /\ parent = [a \in Addr |-> NoId]
    /\ aborted = NULL

(* A session is created on a free block (LWIPERF_ALLOC + memset), with     *)
(* the master its creator passes (NULL, or a registered session), and     *)
(* registered with lwiperf_list_add.                                       *)
Create(a, m) ==
    /\ a \notin used
    /\ m \in Registered \cup {NULL}
    /\ SumFunction(inc) < MaxCreates
    /\ LET st == [Regs EXCEPT !.used = @ \cup {a},
                              !.master = [@ EXCEPT ![a] = m],
                              !.dealloc = [@ EXCEPT ![a] = NULL]]
       IN SetRegs(ListAdd(st, a))
    /\ inc' = [inc EXCEPT ![a] = @ + 1]
    /\ parent' = [parent EXCEPT ![a] = IF m = NULL THEN NoId ELSE Id(m)]
    /\ aborted' = NULL

(* A session ends on its own (test done, error, idle timeout).             *)
Close(a) ==
    /\ a \in Registered
    /\ SetRegs(SessionClose(Regs, a))
    /\ UNCHANGED <<inc, parent>>
    /\ aborted' = NULL

(* lwiperf_abort(h): the caller passes a handle it was given, which may    *)
(* be one whose session has already ended.                                 *)
Abort(h) ==
    /\ inc[h] > 0
    /\ SetRegs(AbortWalk(Regs, h, list))
    /\ UNCHANGED <<inc, parent>>
    /\ aborted' = h

Next ==
    \/ \E a \in Addr, m \in Ptr : Create(a, m)
    \/ \E a \in Addr : Close(a)
    \/ \E h \in Addr : Abort(h)

Spec == Init /\ [][Next]_vars

-----------------------------------------------------------------------------
TypeOK ==
    /\ list \in Seq(Addr)
    /\ used \subseteq Addr
    /\ master \in [Addr -> Ptr]
    /\ dealloc \in [Addr -> Ptr]
    /\ inc \in [Addr -> 0..MaxCreates]
    /\ aborted \in Ptr

(* The registry holds exactly the live sessions, each once: no block is    *)
(* listed after LWIPERF_FREE (a later walk would read freed memory), none  *)
(* is listed twice (the "duplicate entry" assertion of                     *)
(* lwiperf_list_remove), and none is allocated but unlisted (a session     *)
(* nobody can close).  It must survive every interleaving of creates,      *)
(* closes and aborts, including the unlinking lwiperf_abort does by hand   *)
(* before it calls the close function.                                     *)
RegistryIsExactlyLive ==
    /\ IsInjective(list)
    /\ Registered = used

(* No live session's related_master_state points at a block that is not a  *)
(* live session: lwiperf_list_remove clears every reference to a session   *)
(* before its block is freed, whatever order sessions end in.  The code    *)
(* dereferences this pointer (primary_a_client, lwiperf_udp_send_report,   *)
(* lwiperf_udp_tx_start) without further checks.                           *)
NoDanglingMaster ==
    \A x \in Registered : master[x] \in Registered \cup {NULL}

(* After lwiperf_abort(h) returns, no registered session is h or still     *)
(* names h as its live or remembered master: one call cancels the whole    *)
(* test, so a second call with the same handle is a no-op (spec section 8, *)
(* "calling abort twice ... must not double-free").                        *)
AbortLeavesNoMatch ==
    [][aborted' # NULL =>
         \A x \in Range(list') :
             aborted' \notin {x, master'[x], dealloc'[x]}]_vars

(* lwiperf_abort(h) closes only the session h was returned for and the     *)
(* sessions created with that session as master.  The code compares raw    *)
(* addresses, and the @todo at the head of lwiperf.c warns that a block    *)
(* reused by a new session makes it look like an old session's master.     *)
AbortOnlyOwnSessions ==
    [][aborted' # NULL =>
         \A x \in Registered \ Range(list') :
             x = aborted' \/ parent[x] = Id(aborted')]_vars

=============================================================================
