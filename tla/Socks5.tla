------------------------------- MODULE Socks5 -------------------------------
(***************************************************************************)
(* The client's front end, for one accepted connection of an application:  *)
(* handleSocks5Client with socks5Handshake, performPasswordAuth and        *)
(* socks5ProcessRequest, and ServeForward, which starts at the dial.       *)
(*                                                                         *)
(* A message of the application is abstracted to what the code looks at.   *)
(* One that is cut short, an application that leaves and a read that fails *)
(* are all the same to io.ReadFull.  No read has a deadline: an            *)
(* application that sends nothing is waited for.                           *)
(***************************************************************************)
EXTENDS Naturals

VARIABLES
    stage,          \* what is waited for, or what is done next
    requireAuth,    \* the listening address has a user and a password
    proven,         \* ghost: the application has given both
    reply,          \* the last reply to the application
    target          \* the address to dial, as the server will see it

vars == <<stage, requireAuth, proven, reply, target>>

\* ServeForwardSocks5, with or without authentication, or ServeForward to the
\* address it was configured with.
Init ==
    /\ stage \in {"methods", "dial"}
    /\ requireAuth \in {FALSE, stage = "methods"}
    /\ proven = FALSE
    /\ reply = "none"
    /\ target = IF stage = "dial" THEN "host:port" ELSE "none"

\* handleSocks5Client returns, and closes the application's connection.
Refuse(answer) ==
    /\ stage' = "closed"
    /\ reply' = answer
    /\ UNCHANGED <<requireAuth, proven, target>>

Proceed(to, answer) ==
    /\ stage' = to
    /\ reply' = answer
    /\ UNCHANGED <<requireAuth, proven, target>>

\* Mutant of MethodFor: no authentication is preferred when it is offered.
MethodForAny(offered) == IF "noAuth" \in offered THEN "noAuth" ELSE "password"

\* The only method that will do; what else is offered does not matter.
MethodFor(offered) == IF requireAuth THEN "password" ELSE "noAuth"

\* socks5Handshake.
Handshake(version5, offered) ==
    /\ stage = "methods"
    /\ \/ ~version5 /\ Refuse(reply)
       \/ version5 /\ MethodFor(offered) \notin offered /\ Refuse("noAcceptable")
       \/ /\ version5
          /\ MethodFor(offered) \in offered
          /\ Proceed(IF MethodFor(offered) = "password" THEN "auth" ELSE "request",
                     MethodFor(offered))

\* performPasswordAuth.
PasswordAuth(version1, right) ==
    /\ stage = "auth"
    /\ \/ ~version1 /\ Refuse(reply)
       \/ version1 /\ ~right /\ Refuse("authFailure")
       \/ /\ version1 /\ right
          /\ stage' = "request"
          /\ reply' = "authSuccess"
          /\ proven' = TRUE
          /\ UNCHANGED <<requireAuth, target>>

\* The target is formatted as host:port.  An IPv6 host, which has colons of
\* its own, gets no brackets.
Address(atyp) == IF atyp = "ipv6" THEN "h:o:s:t:port" ELSE "host:port"

\* net.DialTimeout takes an address apart at its only colon.
Dialable == target = "host:port"

\* socks5ProcessRequest: it says success before anything is dialed, and does
\* not go on if the application has left before it could say so.
ProcessRequest(version5, connect, atyp) ==
    /\ stage = "request"
    /\ \/ ~version5 /\ Refuse(reply)
       \/ version5 /\ ~connect /\ Refuse("commandNotSupported")
       \/ version5 /\ connect /\ atyp = "other" /\ Refuse("addressTypeNotSupported")
       \/ /\ version5 /\ connect /\ atyp # "other"
          /\ stage' = "dial"
          /\ reply' = "success"
          /\ target' = Address(atyp)
          /\ UNCHANGED <<requireAuth, proven>>

\* A read, or the write of the success reply, fails.
Leave ==
    /\ stage \in {"methods", "auth", "request"}
    /\ Refuse(reply)

\* c.Dial(target), then biRelay.  Nothing looks at the negotiation any more,
\* and the model forgets it.
Dial ==
    /\ stage = "dial"
    /\ stage' = "relay"
    /\ reply' = "none"
    /\ requireAuth' = FALSE
    /\ proven' = FALSE
    /\ UNCHANGED target

Negotiate ==
    \/ \E version5 \in BOOLEAN :
         \/ \E offered \in SUBSET {"noAuth", "password"} : Handshake(version5, offered)
         \/ \E connect \in BOOLEAN, atyp \in {"ipv4", "domain", "ipv6", "other"} :
              ProcessRequest(version5, connect, atyp)
    \/ \E version1, right \in BOOLEAN : PasswordAuth(version1, right)
    \/ Leave
=============================================================================
