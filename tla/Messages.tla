------------------------------ MODULE Messages ------------------------------
(***************************************************************************)
(* Message handlers (src/messages.c, src/debug.c).  A message is posted by *)
(* the library at any time; the handlers of its type whose level is not    *)
(* above the message's are called one after the other, and a handler may   *)
(* itself add and delete handlers and call library functions that post.    *)
(* So the state of each post in progress is kept, innermost last.          *)
(***************************************************************************)
EXTENDS Arrays, FiniteSets

CONSTANTS
  Type,          \* PRF_MSG_DEBUG, ..., the types in use
  Level,         \* the levels of messages and handlers
  Func,          \* pairs of a function and its data
  HandlerSlots,  \* the size the tables are made with (4)
  MaxHandlers,   \* bound: handlers added in one session
  MaxDepth       \* bound: posts in progress at once

ASSUME MessageAssumption ==
  /\ Level \subseteq Nat /\ HandlerSlots \in Nat \ {0}
  /\ MaxHandlers \in Nat /\ MaxDepth \in Nat

VARIABLES
  prf_handlers,  \* type -> its table of handlers, NULL for a free slot
  handler,       \* handler -> level, func, type, whether it is allocated
  posts,         \* the posts in progress
  misused        \* auxiliary: a freed handler was called

msgvars == <<prf_handlers, handler, posts, misused>>

NoHandlers == [t \in Type |-> [size |-> 0, elemsize |-> 0, bytes |-> 0, elems |-> <<>>]]
MsgInit == prf_handlers = NoHandlers /\ handler = <<>> /\ posts = <<>> /\ misused = FALSE

Post0 == posts[Len(posts)]
\* The application's turn: nothing is being posted, or a handler runs.
Idle == posts # <<>> => Post0.calling

\* prf_messages_init, and the handler prf_init adds for errors.
prf_messages_init(t, level, func) ==
  /\ prf_handlers' =
       [u \in Type |-> LET new == prf_array_init(HandlerSlots, PointerSize)
                       IN IF u = t THEN prf_array_append(new, 1) ELSE new]
  /\ handler' = <<[type |-> t, level |-> level, func |-> func, live |-> TRUE]>>
  /\ posts' = <<>> /\ UNCHANGED misused

\* A new handler in the first free slot, or in a new one at the end.
prf_messages_add_handler(t, level, func) ==
  /\ Idle /\ Len(handler) < MaxHandlers
  /\ handler' = Append(handler, [type |-> t, level |-> level, func |-> func, live |-> TRUE])
  /\ LET new == Len(handler) + 1
         free == {i \in DOMAIN prf_handlers[t].elems : prf_handlers[t].elems[i] = NULL}
     IN prf_handlers' = [prf_handlers EXCEPT ![t] =
          IF free = {} THEN prf_array_append(@, new)
          ELSE [@ EXCEPT !.elems[CHOOSE i \in free : \A j \in free : i <= j] = new]]
  /\ UNCHANGED <<posts, misused>>

Is(h, level, func) == h # NULL /\ handler[h].level = level /\ handler[h].func = func
Deleted(t, level, func) ==
  {h \in DOMAIN handler : \E i \in DOMAIN prf_handlers[t].elems :
                            prf_handlers[t].elems[i] = h /\ Is(h, level, func)}
Free(hs) == [h \in DOMAIN handler |-> [handler[h] EXCEPT !.live = @ /\ h \notin hs]]
\* Mutation of prf_messages_del_handler: the pointer stays in its slot.
DelKeepsPointer(t, level, func) ==
  /\ Idle /\ Deleted(t, level, func) # {}
  /\ handler' = Free(Deleted(t, level, func))
  /\ UNCHANGED <<prf_handlers, posts, misused>>
\* All handlers with this function, data and level.
prf_messages_del_handler(t, level, func) ==
  /\ Idle /\ Deleted(t, level, func) # {}
  /\ handler' = Free(Deleted(t, level, func))
  /\ prf_handlers' = [prf_handlers EXCEPT ![t].elems =
                        [i \in DOMAIN @ |-> IF Is(@[i], level, func) THEN NULL ELSE @[i]]]
  /\ UNCHANGED <<posts, misused>>

Hears(h, level) == h # NULL /\ handler[h].level <= level
\* prf_messages_post_va: a message that somebody hears.  `due' (auxiliary) are
\* the handlers that hear it when it is posted, `told' those called so far.
prf_messages_post_va(t, level) ==
  /\ Idle /\ Len(posts) < MaxDepth
  /\ LET due == {h \in DOMAIN handler : \E i \in DOMAIN prf_handlers[t].elems :
                                          prf_handlers[t].elems[i] = h /\ Hears(h, level)}
     IN /\ due # {}
        /\ posts' = Append(posts, [type |-> t, level |-> level, i |-> 1, calling |-> FALSE,
                                   count |-> prf_array_count(prf_handlers[t]),
                                   due |-> due, told |-> <<>>])
  /\ UNCHANGED <<prf_handlers, handler, misused>>

Running == posts # <<>> /\ ~Post0.calling
Slot0 == prf_handlers[Post0.type].elems[Post0.i]
Become(p) == posts' = [posts EXCEPT ![Len(posts)] = p]
\* The loop: the table is read again for every slot, the count is not.
CallHandler ==
  /\ Running /\ Post0.i <= Post0.count /\ Hears(Slot0, Post0.level)
  /\ Become([Post0 EXCEPT !.calling = TRUE, !.told = Append(@, Slot0)])
  /\ misused' = (misused \/ ~handler[Slot0].live)
  /\ UNCHANGED <<prf_handlers, handler>>
PassSlot ==
  /\ Running /\ Post0.i <= Post0.count /\ ~Hears(Slot0, Post0.level)
  /\ Become([Post0 EXCEPT !.i = @ + 1])
  /\ UNCHANGED <<prf_handlers, handler, misused>>
HandlerReturns ==
  /\ posts # <<>> /\ Post0.calling
  /\ Become([Post0 EXCEPT !.calling = FALSE, !.i = @ + 1])
  /\ UNCHANGED <<prf_handlers, handler, misused>>
PostReturns ==
  /\ Running /\ Post0.i > Post0.count
  /\ posts' = SubSeq(posts, 1, Len(posts) - 1)
  /\ UNCHANGED <<prf_handlers, handler, misused>>

\* Every handler that is still in a table, and the tables.
prf_messages_exit ==
  /\ posts = <<>>
  /\ handler' = Free({h \in DOMAIN handler : \E t \in Type : \E i \in DOMAIN prf_handlers[t].elems :
                                               prf_handlers[t].elems[i] = h})
  /\ prf_handlers' = NoHandlers
  /\ UNCHANGED <<posts, misused>>

MsgCalls ==
  \/ \E t \in Type, l \in Level :
       \/ prf_messages_post_va(t, l)
       \/ \E f \in Func : prf_messages_add_handler(t, l, f) \/ prf_messages_del_handler(t, l, f)
  \/ CallHandler \/ PassSlot \/ HandlerReturns \/ PostReturns
-----------------------------------------------------------------------------
\* A message reaches every handler that heard it when it was posted exactly once,
\* whatever the handlers before it add, delete or post, unless it is deleted
\* before its turn.  No handler is told twice or told what it does not hear, and
\* none is called after it was deleted, not even by a post under way then.
Once(s) == \A i, j \in DOMAIN s : s[i] = s[j] => i = j
DeliveredOnce ==
  /\ ~misused
  /\ \A p \in 1..Len(posts) :
      /\ Once(posts[p].told)
      /\ \A i \in DOMAIN posts[p].told :
           LET h == handler[posts[p].told[i]] IN h.type = posts[p].type /\ h.level <= posts[p].level
      /\ posts[p].i > posts[p].count =>
           \A h \in posts[p].due : handler[h].live => \E i \in DOMAIN posts[p].told : posts[p].told[i] = h
=============================================================================
