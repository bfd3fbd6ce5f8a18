------------------------------ MODULE SecureSocket ------------------------------
(***************************************************************************)
(* SocketImplSecure below NetworkClientSecure: the WolfSSL library and the *)
(* one context all secure sockets share, which the first of them creates   *)
(* and the last one frees, and the descriptor connect() opens.  External:  *)
(* WolfSSL may fail to make a context, a session or a handshake.           *)
(***************************************************************************)
EXTENDS Integers, FiniteSets

CONSTANTS
  Socket,       \* SocketImplSecure objects
  MaxContexts   \* bound: contexts made

VARIABLES
  sockets,   \* the objects that exist
  wolf_ssl_counter,
  wolf_ctx,  \* the number of the context, 0 for nullptr
  contexts,  \* history: contexts made; those not freed
  inits,     \* calls of wolfSSL_Init() not undone by wolfSSL_Cleanup()
  ssl,       \* of each object, the context of its session, 0 for nullptr
  ssl_sock,  \* SocketImpl::sock: none (-1) or open
  ctxFailed  \* history: a context could not be made

secureSocketVars ==
  <<sockets, wolf_ssl_counter, wolf_ctx, contexts, inits, ssl, ssl_sock, ctxFailed>>
-----------------------------------------------------------------------------
SecureInit ==
  /\ sockets = {} /\ wolf_ssl_counter = 0 /\ wolf_ctx = 0 /\ inits = 0
  /\ contexts = [made |-> 0, live |-> {}]
  /\ ssl = [s \in Socket |-> 0] /\ ssl_sock = [s \in Socket |-> "none"]
  /\ ctxFailed = FALSE

(* The constructor: the first object, and one that finds no context, sets  *)
(* up the library and makes the context.                                   *)
SecureConstruct(s, ctxOk, sslOk) ==
  /\ s \notin sockets
  /\ sockets' = sockets \cup {s}
  /\ wolf_ssl_counter' = wolf_ssl_counter + 1
  /\ IF wolf_ssl_counter = 0 \/ wolf_ctx = 0
     THEN /\ contexts.made < MaxContexts
          /\ inits' = inits + 1
          /\ ctxFailed' = (ctxFailed \/ ~ctxOk)
          /\ wolf_ctx' = IF ctxOk THEN contexts.made + 1 ELSE 0
          /\ contexts' = IF ctxOk
                         THEN [made |-> contexts.made + 1,
                               live |-> contexts.live \cup {contexts.made + 1}]
                         ELSE [contexts EXCEPT !.made = @ + 1]
     ELSE UNCHANGED <<inits, ctxFailed, wolf_ctx, contexts>>
  /\ ssl' = [ssl EXCEPT ![s] = IF sslOk THEN wolf_ctx' ELSE 0]
  /\ ssl_sock' = [ssl_sock EXCEPT ![s] = "none"]

(* Mutation of SecureDestroy: the counter is tested before it is decremented. *)
DestroyTestsFirst(s) ==
  /\ s \in sockets
  /\ sockets' = sockets \ {s}
  /\ wolf_ssl_counter' = wolf_ssl_counter - 1
  /\ IF wolf_ssl_counter = 0 /\ wolf_ctx # 0
     THEN /\ contexts' = [contexts EXCEPT !.live = @ \ {wolf_ctx}]
          /\ wolf_ctx' = 0 /\ inits' = inits - 1
     ELSE UNCHANGED <<contexts, wolf_ctx, inits>>
  /\ ssl' = [ssl EXCEPT ![s] = 0]
  /\ ssl_sock' = [ssl_sock EXCEPT ![s] = "none"]
  /\ UNCHANGED ctxFailed

(* The destructor frees the session, and the last one the context and the  *)
(* library; then SocketImpl's closes the descriptor.                       *)
SecureDestroy(s) ==
  /\ s \in sockets
  /\ sockets' = sockets \ {s}
  /\ wolf_ssl_counter' = wolf_ssl_counter - 1
  /\ IF wolf_ssl_counter = 1 /\ wolf_ctx # 0
     THEN /\ contexts' = [contexts EXCEPT !.live = @ \ {wolf_ctx}]
          /\ wolf_ctx' = 0 /\ inits' = inits - 1
     ELSE UNCHANGED <<contexts, wolf_ctx, inits>>
  /\ ssl' = [ssl EXCEPT ![s] = 0]
  /\ ssl_sock' = [ssl_sock EXCEPT ![s] = "none"]
  /\ UNCHANGED ctxFailed

(* connect(): unlike SocketImpl::connect() it closes the descriptor and    *)
(* forgets its number when the connection or the handshake fails, and a    *)
(* session that was never made fails.  EthernetClient closes what is open  *)
(* before.                                                                 *)
connect(s, ok) ==
  /\ s \in sockets
  /\ ok => ssl[s] # 0
  /\ ssl_sock' = [ssl_sock EXCEPT ![s] = IF ok THEN "open" ELSE "none"]
  /\ UNCHANGED <<sockets, wolf_ssl_counter, wolf_ctx, contexts, inits, ssl, ctxFailed>>

SecureNext ==
  \/ \E s \in Socket, ctxOk, sslOk \in BOOLEAN : SecureConstruct(s, ctxOk, sslOk)
  \/ \E s \in Socket : SecureDestroy(s)
  \/ \E s \in Socket, ok \in BOOLEAN : connect(s, ok)

SecureSpec == SecureInit /\ [][SecureNext]_secureSocketVars
-----------------------------------------------------------------------------
(* Every session belongs to the context that is in use, which lives as     *)
(* long as a socket does and no longer; the library is set up and cleaned  *)
(* up in pairs as long as no context fails.                                *)
ContextServesAll ==
  /\ contexts.live = {wolf_ctx} \ {0}
  /\ \A s \in sockets : ssl[s] \in {0, wolf_ctx}
  /\ sockets = {} => wolf_ctx = 0
  /\ ~ctxFailed => inits = Cardinality(contexts.live)
=============================================================================
