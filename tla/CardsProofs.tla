----------------------------- MODULE CardsProofs -----------------------------
(***************************************************************************)
(* Proofs about Cards, for any users, cards, requests and scripts, any of   *)
(* the operations and any of the faults.                                    *)
(***************************************************************************)
EXTENDS Cards, TLAPS

\* What the issuer has activated once; no call leads back out.
Activated == {"active", "stopped", "retired"}

\* Steps after the caller was found to hold the card, and after its row was found.
Served == {"pin", "activateRead", "activateIssuer", "activateInfo", "activateSave",
           "detailsRead", "cvvRead", "stopRead", "stopIssuer", "stopSave", "unstopRead",
           "unstopIssuer", "unstopSave", "unlinkRead", "unlinkIssuer", "unlinkSave",
           "scriptIssuer", "scriptSave"}
Found == Served \cup {"assignSave", "take"}

Virtual == {"virtualIssuer", "virtualSave"}
Scripting == {"scriptNext", "scriptIssuer", "scriptSave"}

Numbers(x) == {p[1] : p \in x.todo}

\* The cards whose rows a request is about to create.
Making(x) == {c \in CardIds : \/ x.pc \in Virtual /\ c = x.card
                              \/ x.pc \in Storing /\ c \in Numbers(x)}

\* What a request has established about the card it works on,
CardKnown(x) ==
    /\ x.pc \in Found \cup Virtual \cup {"own", "assignRead"} =>
            x.card \in CardIds /\ x.user \in Users
    /\ x.pc = "own" => x.op \in CardOperations
    /\ x.pc = "pin" => x.op \in {"details", "stop", "unstop"}
    /\ x.pc \in Found => cards[x.card].status # "ABSENT"
    /\ x.pc \in Served => <<x.user, x.card>> \in held
    /\ x.pc \in {"stopIssuer", "stopSave", "unstopIssuer", "unstopSave"} =>
            cards[x.card].prosperaCardId
    /\ x.pc \in {"activateInfo", "activateSave", "stopSave", "unstopSave", "scriptSave",
                 "virtualSave"} => issuer[x.card].state \in Activated
    /\ x.pc = "activateIssuer" => \A p \in x.todo : p[2] \in Users /\ <<p[2], x.card>> \in held
    /\ x.pc = "unlinkSave" => issuer[x.card].state = "retired"
    /\ x.pc = "virtualIssuer" => issuer[x.card].state = "none"
    /\ x.pc \in Virtual => x.card \notin Physical

\* about the cards and users on its list,
ListKnown(x) ==
    /\ x.pc = "available" => x.user \in Users
    /\ x.pc \in Scripting => \A p \in x.todo :
            /\ p[1] \in CardIds /\ cards[p[1]].status # "ABSENT"
            /\ p[2] \in Users => <<p[2], p[1]>> \in held
    /\ x.pc = "order" /\ x.op # "noUserScript" => \A p \in x.todo : p[2] \in Users
    /\ x.pc \in Storing => \A p \in x.todo : p[1] \in Physical /\ issuer[p[1]].state # "none"
    /\ x.pc \in {"saveBatch", "saveCards"} => \A p \in x.todo : p[2] \in Users
    /\ x.pc \in {"saveBatch", "saveCards"} => \A p, q \in x.todo : p = q
    /\ x.pc \in {"saveBatch", "saveAll", "notify"} => Numbers(x) \in orders

\* and that the rows it will create are not there yet.
RequestOK(x) ==
    /\ CardKnown(x) /\ ListKnown(x)
    /\ \A c \in Making(x) : cards[c].status = "ABSENT"

RowOK(c) ==
    /\ issuer[c].state = "none" => cards[c].status = "ABSENT"
    /\ cards[c].status = "ABSENT" => cards[c] = NoRow
    /\ cards[c].userId # None => <<cards[c].userId, c>> \in held

\* No two requests create the same row.
MakersApart ==
    \A r, s \in Requests : r # s => Making(req[r]) \cap Making(req[s]) = {}

IInv ==
    /\ TypeOK
    /\ \A r \in Requests : RequestOK(req[r])
    /\ \A c \in CardIds : RowOK(c)
    /\ MakersApart
    /\ ActiveOnlyIfActivated
    /\ SpendsForHolder
    /\ OrderedCardsRecorded

-----------------------------------------------------------------------------
\* What a step of r leaves of the things the other requests rely on.
Kept(r) ==
    /\ held \subseteq held' /\ batches \subseteq batches' /\ orders \subseteq orders'
    /\ \A c \in CardIds :
        /\ cards[c].status # "ABSENT" => cards'[c].status # "ABSENT"
        /\ cards[c].prosperaCardId => cards'[c].prosperaCardId
        /\ issuer[c].state \in Activated => issuer'[c].state \in Activated
        /\ issuer[c].state = "retired" => issuer'[c].state = "retired"
        /\ issuer[c].state # "none" => issuer'[c].state # "none"
        /\ cards[c].status = "ABSENT" /\ c \notin Making(req[r]) =>
                /\ cards'[c].status = "ABSENT"
                /\ c \notin Physical /\ issuer[c].state = "none" => issuer'[c].state = "none"

\* A request that does not move keeps what it knows.
LEMMA OthersKnow ==
    ASSUME NEW r, Kept(r), NEW x \in Request, RequestOK(x),
           Making(x) \cap Making(req[r]) = {}
    PROVE  RequestOK(x)'
<1>1. \A c \in Making(x) : c \in CardIds /\ c \notin Making(req[r]) /\ cards[c].status = "ABSENT"
  BY DEF RequestOK, Making
<1>2. \A c \in Making(x) : cards'[c].status = "ABSENT"
  BY <1>1 DEF Kept
<1>3. x.pc = "virtualIssuer" => x.card \in Making(x)
  BY DEF RequestOK, CardKnown, Making, Virtual
<1>4. x.pc = "virtualIssuer" => issuer'[x.card].state = "none"
  BY <1>1, <1>3 DEF RequestOK, CardKnown, Kept, Virtual
<1>5. CardKnown(x)'
  BY <1>4 DEF RequestOK, CardKnown, Kept, Found, Served, Virtual
<1>6. ListKnown(x)'
  <2>1. x.pc \in Scripting => \A p \in x.todo :
            /\ p[1] \in CardIds /\ cards'[p[1]].status # "ABSENT"
            /\ p[2] \in Users => <<p[2], p[1]>> \in held'
    BY Zenon DEF RequestOK, ListKnown, Kept
  <2>2. x.pc \in Storing => \A p \in x.todo : p[1] \in Physical /\ issuer'[p[1]].state # "none"
    BY ConstantsAssumption DEF RequestOK, ListKnown, Kept
  <2>3. x.pc \in {"saveBatch", "saveAll", "notify"} => Numbers(x) \in orders'
    BY DEF RequestOK, ListKnown, Kept
  <2> QED
    BY <2>1, <2>2, <2>3 DEF RequestOK, ListKnown, Numbers
<1> QED
  BY <1>2, <1>5, <1>6 DEF RequestOK, Making, Numbers

\* Request r moves to the record x, and makes rows no other request makes.
LEMMA RequestMoves ==
    ASSUME IInv, NEW r \in Requests, NEW x \in Request,
           req' = [req EXCEPT ![r] = x], Kept(r), RequestOK(x)',
           \A s \in Requests \ {r} : Making(x) \cap Making(req[s]) = {}
    PROVE  /\ req' \in [Requests -> Request]
           /\ \A s \in Requests : RequestOK(req[s])'
           /\ MakersApart'
<1>1. req' \in [Requests -> Request] /\ req'[r] = x /\ \A s \in Requests \ {r} : req'[s] = req[s]
  BY DEF IInv, TypeOK
<1>2. RequestOK(req[r])'
  <2>1. req'[r] = x /\ CardKnown(x)' /\ ListKnown(x)'
    BY <1>1 DEF RequestOK
  <2>2. CardKnown(req[r])'
    BY <2>1 DEF CardKnown
  <2>3. ListKnown(req[r])'
    BY <2>1, Zenon DEF ListKnown, Numbers
  <2>4. \A c \in Making(req[r])' : cards'[c].status = "ABSENT"
    BY <2>1 DEF RequestOK, Making, Numbers
  <2> QED
    BY <2>2, <2>3, <2>4 DEF RequestOK
<1>3. ASSUME NEW s \in Requests \ {r} PROVE RequestOK(req[s])'
  <2>1. PICK y \in Request : y = req[s] /\ y = req'[s]
    BY <1>1 DEF IInv, TypeOK
  <2>2. RequestOK(y) /\ Making(y) \cap Making(req[r]) = {}
    BY <2>1 DEF IInv, MakersApart
  <2>3. RequestOK(y)'
    BY <2>2, OthersKnow
  <2>4. CardKnown(req[s])'
    BY <2>1, <2>3 DEF RequestOK, CardKnown
  <2>5. ListKnown(req[s])'
    BY <2>1, <2>3 DEF RequestOK, ListKnown, Numbers
  <2>6. \A c \in Making(req[s])' : cards'[c].status = "ABSENT"
    BY <2>1, <2>3 DEF RequestOK, Making, Numbers
  <2> QED
    BY <2>4, <2>5, <2>6 DEF RequestOK
<1>4. MakersApart'
  <2>1. \A s \in Requests \ {r} : Making(req[s])' = Making(req[s])
    BY <1>1 DEF Making, Numbers
  <2>2. Making(req[r])' = Making(x)
    BY <1>1 DEF Making, Numbers
  <2> QED
    BY <2>1, <2>2 DEF IInv, MakersApart
<1> QED
  BY <1>1, <1>2, <1>3, <1>4

LEMMA IdleOK ==
    /\ IdleRequest \in Request /\ IdleRequest.pc = "idle"
    /\ RequestOK(IdleRequest) /\ RequestOK(IdleRequest)' /\ Making(IdleRequest) = {}
<1>1. IdleRequest \in Request /\ IdleRequest.pc = "idle"
  BY DEF IdleRequest, Request, PC
<1>2. Making(IdleRequest) = {}
  BY <1>1 DEF Making, Virtual, Storing
<1>3. CardKnown(IdleRequest) /\ CardKnown(IdleRequest)'
  BY <1>1 DEF CardKnown, Found, Served, Virtual
<1>4. ListKnown(IdleRequest) /\ ListKnown(IdleRequest)'
  BY <1>1 DEF ListKnown, Scripting, Storing
<1> QED
  BY <1>1, <1>2, <1>3, <1>4 DEF RequestOK, Making, IdleRequest, Numbers

\* No ordered card is forgotten by a step of r, if those that r was storing, or orders
\* now, are stored, given up with an error, or on its list.
LEMMA Recorded ==
    ASSUME IInv, NEW r \in Requests, NEW x \in Request, req' = [req EXCEPT ![r] = x],
           lost \subseteq lost',
           \A c \in Physical : cards[c].status # "ABSENT" => cards'[c].status # "ABSENT",
           \A c \in Physical : issuer[c].state = "none" =>
                \/ issuer'[c].state = "none" \/ c \in lost'
                \/ x.pc \in Storing /\ c \in Numbers(x),
           req[r].pc \in Storing => \A c \in Numbers(req[r]) :
                \/ cards'[c].status # "ABSENT" \/ c \in lost'
                \/ x.pc \in Storing /\ c \in Numbers(x)
    PROVE  OrderedCardsRecorded'
<1>1. req'[r] = x /\ \A s \in Requests \ {r} : req'[s] = req[s]
  BY DEF IInv, TypeOK
<1>2. \A s \in Requests : BatchOf(s) = Numbers(req[s]) /\ BatchOf(s)' = Numbers(req'[s])
  BY DEF BatchOf, Numbers
<1> SUFFICES ASSUME NEW c \in Physical, issuer'[c].state # "none", cards'[c].status = "ABSENT",
                    c \notin lost'
             PROVE  \E s \in Requests : req'[s].pc \in Storing /\ c \in Numbers(req'[s])
  BY <1>2, Zenon DEF OrderedCardsRecorded
<1>3. CASE issuer[c].state = "none"
  BY <1>1, <1>3
<1>4. CASE issuer[c].state # "none"
  <2>1. PICK s \in Requests : req[s].pc \in Storing /\ c \in Numbers(req[s])
    BY <1>2, <1>4 DEF IInv, OrderedCardsRecorded
  <2>2. CASE s = r
    BY <1>1, <2>1, <2>2
  <2>3. CASE s # r
    BY <1>1, <2>1, <2>3
  <2> QED
    BY <2>2, <2>3
<1> QED
  BY <1>3, <1>4

\* A step that only moves a request.
LEMMA OnlyRequestStep ==
    ASSUME IInv, NEW r \in Requests, NEW x \in Request,
           req' = [req EXCEPT ![r] = x], RequestOK(x), req[r].pc \notin Storing,
           \A s \in Requests \ {r} : Making(x) \cap Making(req[s]) = {},
           UNCHANGED <<cards, issuer, held, orderVars>>
    PROVE  IInv'
<1>1. UNCHANGED <<cards, issuer, held, batches, orders, lost>>
  BY DEF orderVars
<1>2. Kept(r)
  BY <1>1 DEF Kept
<1>3. RequestOK(x)'
  BY <1>1 DEF RequestOK, CardKnown, ListKnown, Making, Numbers
<1>4. /\ req' \in [Requests -> Request] /\ MakersApart'
      /\ \A s \in Requests : RequestOK(req[s])'
  BY <1>2, <1>3, RequestMoves, Zenon
<1>5. TypeOK'
  BY <1>1, <1>4 DEF IInv, TypeOK
<1>6. ActiveOnlyIfActivated' /\ SpendsForHolder' /\ \A c \in CardIds : RowOK(c)'
  BY <1>1 DEF IInv, ActiveOnlyIfActivated, SpendsForHolder, RowOK
<1>7. OrderedCardsRecorded'
  BY <1>1, Recorded
<1> QED
  BY <1>4, <1>5, <1>6, <1>7 DEF IInv

LEMMA FinishStep ==
    ASSUME IInv, NEW r \in Requests, Finish(r), UNCHANGED <<cards, issuer, held, orderVars>>,
           req[r].pc \notin Storing
    PROVE  IInv'
<1>1. req' = [req EXCEPT ![r] = IdleRequest]
  BY DEF Finish, Goto
<1> QED
  BY <1>1, IdleOK, OnlyRequestStep, Zenon

\* The record a request has after Goto.
LEMMA GotoRecord ==
    ASSUME IInv, NEW r \in Requests, NEW l \in PC \ {"idle"}, Goto(r, l)
    PROVE  \E x \in Request :
             /\ req' = [req EXCEPT ![r] = x]
             /\ x.pc = l /\ x.op = req[r].op /\ x.user = req[r].user
             /\ x.card = req[r].card /\ x.todo = req[r].todo
<1> DEFINE x == [req[r] EXCEPT !.pc = l]
<1>1. req[r] \in Request
  BY DEF IInv, TypeOK
<1>2. /\ x \in Request
      /\ x.pc = l /\ x.op = req[r].op /\ x.user = req[r].user
      /\ x.card = req[r].card /\ x.todo = req[r].todo
  BY <1>1 DEF Request
<1>3. req' = [req EXCEPT ![r] = x]
  BY DEF Goto
<1> QED
  BY <1>2, <1>3, Zenon

\* A step that only moves a request which makes no rows.
LEMMA MoveStep ==
    ASSUME IInv, NEW r \in Requests, NEW x \in Request, req' = [req EXCEPT ![r] = x],
           x.pc \notin Virtual \cup Storing, CardKnown(x), ListKnown(x),
           req[r].pc \notin Storing, UNCHANGED <<cards, issuer, held, orderVars>>
    PROVE  IInv'
<1>1. Making(x) = {}
  BY DEF Making
<1> QED
  BY <1>1, OnlyRequestStep, Zenon DEF RequestOK

\* Steps that need nothing of a list.
LEMMA NoList ==
    ASSUME NEW x, x.pc \notin Scripting \cup Storing \cup {"available", "order", "notify"}
    PROVE  ListKnown(x) /\ ListKnown(x)'
  BY DEF ListKnown, Storing

LEMMA KnownCard ==
    ASSUME IInv, NEW r \in Requests
    PROVE  req[r] \in Request /\ RequestOK(req[r]) /\ CardKnown(req[r]) /\ ListKnown(req[r])
  BY DEF IInv, TypeOK, RequestOK

\* A handler of r's card goes on to l.
LEMMA CardGoto ==
    ASSUME IInv, NEW r \in Requests,
           NEW l \in Found \ (Scripting \cup {"take"}), Goto(r, l),
           req[r].card \in CardIds, req[r].user \in Users,
           l = "pin" => req[r].op \in {"details", "stop", "unstop"},
           Card(r).status # "ABSENT",
           l # "assignSave" => <<req[r].user, req[r].card>> \in held,
           l \in {"stopIssuer", "unstopIssuer"} => Card(r).prosperaCardId,
           l \notin {"activateIssuer", "stopSave", "unstopSave", "unlinkSave", "activateInfo"},
           l = "activateSave" => IssuerState(r) \in Activated, req[r].pc \notin Storing,
           UNCHANGED <<cards, issuer, held, orderVars>>
    PROVE  IInv'
<1>1. l \in PC \ {"idle"}
  BY DEF Found, Served, PC
<1>2. PICK x \in Request :
        /\ req' = [req EXCEPT ![r] = x]
        /\ x.pc = l /\ x.op = req[r].op /\ x.user = req[r].user
        /\ x.card = req[r].card /\ x.todo = req[r].todo
  BY <1>1, GotoRecord
<1>3. x.pc \notin Virtual \cup Storing \cup Scripting \cup {"available", "order", "notify"}
  BY <1>2 DEF Found, Served, Virtual, Storing, Scripting
<1>4. CardKnown(x)
  BY <1>2, <1>3 DEF CardKnown, Card, IssuerState, Scripting, Found, Served, Virtual
<1> QED
  BY <1>2, <1>3, <1>4, NoList, MoveStep, Zenon

\* The records of requests about a card and of scripts.
CardStart(l, op, u, c) == [IdleRequest EXCEPT !.pc = l, !.op = op, !.user = u, !.card = c]
ScriptStart(l, op, todo) == [IdleRequest EXCEPT !.pc = l, !.op = op, !.todo = todo]

LEMMA NewCardRequest ==
    ASSUME NEW l \in PC, NEW op \in Operations, NEW u \in Users, NEW c \in CardIds
    PROVE  \E x \in Request :
             /\ x = CardStart(l, op, u, c)
             /\ x.pc = l /\ x.op = op /\ x.user = u /\ x.card = c
<1> DEFINE x == [IdleRequest EXCEPT !.pc = l, !.op = op, !.user = u, !.card = c]
<1>1. x \in Request /\ x.pc = l /\ x.op = op /\ x.user = u /\ x.card = c
  BY IdleOK, Zenon DEF Request
<1> QED
  BY <1>1, Zenon DEF CardStart

LEMMA NewScript ==
    ASSUME NEW l \in PC, NEW op \in Operations,
           NEW todo \in SUBSET ((CardIds \cup {None}) \X (Users \cup {None}))
    PROVE  \E x \in Request :
             /\ x = ScriptStart(l, op, todo)
             /\ x.pc = l /\ x.op = op /\ x.todo = todo
<1> DEFINE x == [IdleRequest EXCEPT !.pc = l, !.op = op, !.todo = todo]
<1>1. x \in Request /\ x.pc = l /\ x.op = op /\ x.todo = todo
  BY IdleOK, Zenon DEF Request
<1> QED
  BY <1>1, Zenon DEF ScriptStart

LEMMA CardRequestStep ==
    ASSUME IInv, NEW r \in Requests, NEW op \in CardOperations, NEW u \in Users,
           NEW c \in CardIds, CardRequest(r, op, u, c)
    PROVE  IInv'
<1>1. op \in Operations /\ UNCHANGED <<cards, issuer, held, orderVars>> /\ req[r].pc \notin Storing
  BY DEF CardRequest, At, Storing
<1>2. PICK x \in Request :
        /\ x = CardStart("own", op, u, c)
        /\ x.pc = "own" /\ x.op = op /\ x.user = u /\ x.card = c
  <2>1. "own" \in PC
    BY DEF PC
  <2> QED
    BY <1>1, <2>1, NewCardRequest
<1>3. req' = [req EXCEPT ![r] = x]
  BY <1>2 DEF CardRequest, FirstStep, CardStart
<1>4. x.pc \notin Virtual \cup Storing \cup Scripting \cup {"available", "order", "notify"}
  BY <1>2 DEF Virtual, Storing, Scripting
<1>5. CardKnown(x)
  BY <1>2 DEF CardKnown, Found, Served, Virtual
<1> QED
  BY <1>1, <1>2, <1>3, <1>4, <1>5, NoList, MoveStep, Zenon

\* The owner of a row is among its holders.
LEMMA OwnershipStep ==
    ASSUME IInv, NEW r \in Requests, validateCardOwnership(r)
    PROVE  IInv'
<1>1. At(r, "own") /\ UNCHANGED <<cards, issuer, held, orderVars>> /\ req[r].pc \notin Storing
  BY DEF validateCardOwnership, At, Storing
<1>2. req[r].card \in CardIds /\ req[r].user \in Users /\ req[r].op \in CardOperations
  BY <1>1, KnownCard, Zenon DEF CardKnown, At
<1>3. CASE Card(r).status # "ABSENT" /\ Card(r).userId = req[r].user
  <2>1. Goto(r, AfterOwnership(req[r].op))
    BY <1>3 DEF validateCardOwnership
  <2>2. <<req[r].user, req[r].card>> \in held
    BY <1>2, <1>3, ConstantsAssumption DEF IInv, RowOK, Card
  <2>3. PICK l : /\ l = AfterOwnership(req[r].op)
                 /\ l \in {"pin", "activateRead", "cvvRead", "unlinkRead"}
                 /\ l = "pin" => req[r].op \in {"details", "stop", "unstop"}
    BY <1>2 DEF AfterOwnership, CardOperations
  <2>4. l \in Found \ (Scripting \cup {"take"})
    BY <2>3 DEF Found, Served, Scripting
  <2> QED
    BY <1>1, <1>2, <1>3, <2>1, <2>2, <2>3, <2>4, CardGoto
<1>4. CASE Finish(r)
  BY <1>1, <1>4, FinishStep
<1> QED
  BY <1>3, <1>4 DEF validateCardOwnership

LEMMA PinStep ==
    ASSUME IInv, NEW r \in Requests, validateCardPin(r)
    PROVE  IInv'
<1>1. At(r, "pin") /\ UNCHANGED <<cards, issuer, held, orderVars>> /\ req[r].pc \notin Storing
  BY DEF validateCardPin, At, Storing
<1>2. /\ req[r].card \in CardIds /\ req[r].user \in Users /\ Card(r).status # "ABSENT"
      /\ req[r].op \in {"details", "stop", "unstop"} /\ <<req[r].user, req[r].card>> \in held
  BY <1>1, KnownCard DEF CardKnown, At, Card, Found, Served
<1>3. CASE Goto(r, AfterPin(req[r].op))
  <2>1. PICK l : l = AfterPin(req[r].op) /\ l \in {"detailsRead", "stopRead", "unstopRead"}
    BY <1>2 DEF AfterPin
  <2>2. l \in Found \ (Scripting \cup {"take"})
    BY <2>1 DEF Found, Served, Scripting
  <2> QED
    BY <1>1, <1>2, <1>3, <2>1, <2>2, CardGoto
<1>4. CASE Finish(r)
  BY <1>1, <1>4, FinishStep
<1> QED
  BY <1>3, <1>4 DEF validateCardPin

\* A handler that fails leaves the cards it was storing in `lost`.
LEMMA AbortStep ==
    ASSUME IInv, NEW r \in Requests, Abort(r)
    PROVE  IInv'
<1>1. /\ req' = [req EXCEPT ![r] = IdleRequest] /\ UNCHANGED <<cards, issuer, held, batches, orders>>
      /\ lost' = IF req[r].pc \in Storing THEN lost \cup Numbers(req[r]) ELSE lost
  BY DEF Abort, Finish, Goto, BatchOf, Numbers
<1>2. req[r].pc \in Storing => Numbers(req[r]) \subseteq CardIds
  <2>1. req[r].pc \in Storing => \A p \in req[r].todo : p[1] \in CardIds
    BY KnownCard, ConstantsAssumption DEF ListKnown
  <2> QED
    BY <2>1 DEF Numbers
<1>3. Kept(r)
  BY <1>1 DEF Kept
<1>4. /\ req' \in [Requests -> Request] /\ MakersApart'
      /\ \A s \in Requests : RequestOK(req[s])'
  BY <1>1, <1>3, IdleOK, RequestMoves, Zenon
<1>5. TypeOK'
  BY <1>1, <1>2, <1>4 DEF IInv, TypeOK
<1>6. ActiveOnlyIfActivated' /\ SpendsForHolder' /\ \A c \in CardIds : RowOK(c)'
  BY <1>1 DEF IInv, ActiveOnlyIfActivated, SpendsForHolder, RowOK
<1>7. OrderedCardsRecorded'
  BY <1>1, IdleOK, Recorded
<1> QED
  BY <1>4, <1>5, <1>6, <1>7 DEF IInv

-----------------------------------------------------------------------------
\* What SpendsForHolder asks of the issuer's record of a physical card.
SpendsOK(c, rec) == c \in Physical =>
    /\ \A u \in Users : u = rec.customer \/ u = rec.balance => <<u, c>> \in held
    /\ rec.balance = DefaultWallet => rec.customer \notin WithWallet

\* The issuer changes its record of a card r works on, never back to an earlier state.
LEMMA IssuerStep ==
    ASSUME IInv, NEW r \in Requests, req[r].pc \in Found,
           NEW rec \in IssuerCard, issuer' = [issuer EXCEPT ![req[r].card] = rec],
           UNCHANGED <<cards, held, orderVars>>,
           IssuerState(r) # "none" => rec.state # "none",
           IssuerState(r) \in Activated => rec.state \in Activated,
           IssuerState(r) = "retired" => rec.state = "retired", SpendsOK(req[r].card, rec),
           NEW x \in Request, req' = [req EXCEPT ![r] = x],
           x.pc \notin Virtual \cup Storing, CardKnown(x)', ListKnown(x)'
    PROVE  IInv'
<1>1. UNCHANGED <<cards, held, batches, orders, lost>>
  BY DEF orderVars
<1>2. req[r].card \in CardIds /\ Card(r).status # "ABSENT" /\ IssuerState(r) # "none"
  BY KnownCard, Zenon DEF CardKnown, Card, IssuerState, IInv, RowOK
<1>3. /\ issuer' \in [CardIds -> IssuerCard] /\ issuer'[req[r].card] = rec
      /\ \A c \in CardIds \ {req[r].card} : issuer'[c] = issuer[c]
  BY <1>2 DEF IInv, TypeOK
<1>4. Kept(r)
  BY <1>1, <1>2, <1>3 DEF Kept, Card, IssuerState
<1>5. Making(x) = {} /\ RequestOK(x)'
  BY DEF RequestOK, Making
<1>6. /\ req' \in [Requests -> Request] /\ MakersApart'
      /\ \A s \in Requests : RequestOK(req[s])'
  BY <1>4, <1>5, RequestMoves, Zenon
<1>7. TypeOK'
  BY <1>1, <1>3, <1>6 DEF IInv, TypeOK
<1>8. \A c \in CardIds : RowOK(c)'
  BY <1>1, <1>2, <1>3 DEF IInv, RowOK, IssuerState
<1>9. ActiveOnlyIfActivated'
  BY <1>1, <1>2, <1>3 DEF IInv, ActiveOnlyIfActivated, IssuerState, Activated
<1>10. SpendsForHolder'
  BY <1>1, <1>2, <1>3, ConstantsAssumption DEF IInv, SpendsForHolder, SpendsOK
<1>11. OrderedCardsRecorded'
  <2>1. req[r].pc \notin Storing
    BY DEF Found, Served, Storing
  <2>2. \A c \in Physical : issuer[c].state = "none" => issuer'[c].state = "none"
    BY <1>2, <1>3, ConstantsAssumption DEF IssuerState
  <2> QED
    BY <1>1, <2>1, <2>2, Recorded
<1> QED
  BY <1>6, <1>7, <1>8, <1>9, <1>10, <1>11 DEF IInv

\* The row of a card is written: it was there, or r is the one to create it.
LEMMA RowStep ==
    ASSUME IInv, NEW r \in Requests, NEW c \in CardIds, NEW row \in Row,
           cards' = [cards EXCEPT ![c] = row],
           held \subseteq held', held' \subseteq Users \X CardIds,
           row.userId # None => <<row.userId, c>> \in held',
           UNCHANGED <<issuer, orderVars>>,
           row.status # "ABSENT",
           cards[c].status = "ABSENT" => c \in Making(req[r]) /\ issuer[c].state # "none",
           cards[c].prosperaCardId => row.prosperaCardId,
           row.status \in {"ACTIVE", "BLOCKED"} =>
                row.prosperaCardId /\ issuer[c].state \in Activated,
           req[r].pc \in Storing => \A d \in Numbers(req[r]) : d = c,
           NEW x \in Request, req' = [req EXCEPT ![r] = x],
           Making(x) \subseteq Making(req[r]), RequestOK(x)'
    PROVE  IInv'
<1>1. UNCHANGED <<issuer, batches, orders, lost>>
  BY DEF orderVars
<1>2. /\ cards' \in [CardIds -> Row] /\ cards'[c] = row
      /\ \A d \in CardIds \ {c} : cards'[d] = cards[d]
  BY DEF IInv, TypeOK
<1>3. issuer[c].state # "none"
  BY Zenon DEF IInv, RowOK
<1>4. Kept(r)
  BY <1>1, <1>2 DEF Kept
<1>5. \A s \in Requests \ {r} : Making(x) \cap Making(req[s]) = {}
  BY DEF IInv, MakersApart
<1>6. /\ req' \in [Requests -> Request] /\ MakersApart'
      /\ \A s \in Requests : RequestOK(req[s])'
  BY <1>4, <1>5, RequestMoves, Zenon
<1>7. TypeOK'
  BY <1>1, <1>2, <1>6 DEF IInv, TypeOK
<1>8. \A d \in CardIds : RowOK(d)'
  BY <1>1, <1>2, <1>3 DEF IInv, RowOK
<1>9. ActiveOnlyIfActivated'
  BY <1>1, <1>2 DEF IInv, ActiveOnlyIfActivated, Activated
<1>10. SpendsForHolder'
  BY <1>1 DEF IInv, SpendsForHolder
<1>11. OrderedCardsRecorded'
  <2>1. \A d \in Physical : cards[d].status # "ABSENT" => cards'[d].status # "ABSENT"
    BY <1>2, ConstantsAssumption
  <2> QED
    BY <1>1, <1>2, <2>1, Recorded
<1> QED
  BY <1>6, <1>7, <1>8, <1>9, <1>10, <1>11 DEF IInv

\* Save of a row that was there, then the end of the handler or a step without demands.
LEMMA SaveStep ==
    ASSUME IInv, NEW r \in Requests, req[r].pc \in Found, NEW row \in Row,
           NEW l \in {"idle", "pickup", "scriptNext"}, Save(r, row, l),
           l = "scriptNext" => req[r].pc \in Scripting,
           UNCHANGED <<issuer, orderVars>>,
           row.status # "ABSENT",
           Card(r).prosperaCardId => row.prosperaCardId,
           row.status \in {"ACTIVE", "BLOCKED"} =>
                row.prosperaCardId /\ IssuerState(r) \in Activated
    PROVE  IInv'
<1>1. PICK c \in CardIds : c = req[r].card
  BY KnownCard, Zenon DEF CardKnown
<1>2. /\ cards' = [cards EXCEPT ![c] = row] /\ cards[c].status # "ABSENT"
      /\ held' = IF row.userId = None THEN held ELSE held \cup {<<row.userId, c>>}
  BY <1>1, KnownCard, Zenon DEF Save, CardKnown
<1>3. /\ held \subseteq held' /\ (row.userId # None => <<row.userId, c>> \in held')
      /\ held' \subseteq Users \X CardIds
  BY <1>2 DEF IInv, TypeOK, Row
<1>4. cards'[c] = row /\ \A d \in CardIds \ {c} : cards'[d] = cards[d]
  BY <1>2 DEF IInv, TypeOK
<1>5. \E x \in Request : /\ req' = [req EXCEPT ![r] = x] /\ Making(x) = {}
                        /\ RequestOK(x)'
  <2>1. CASE l = "idle"
    BY <2>1, IdleOK, Zenon DEF Save, Goto
  <2>2. CASE l # "idle"
    <3>1. l \in PC \ {"idle"}
      BY <2>2 DEF PC
    <3>2. PICK x \in Request :
            /\ req' = [req EXCEPT ![r] = x]
            /\ x.pc = l /\ x.op = req[r].op /\ x.user = req[r].user
            /\ x.card = req[r].card /\ x.todo = req[r].todo
      BY <3>1, GotoRecord DEF Save
    <3>3. Making(x) = {} /\ CardKnown(x)'
      BY <2>2, <3>2 DEF Making, CardKnown, Found, Served, Virtual, Storing
    <3>4. ListKnown(x)'
      <4>1. x.pc \in Scripting => \A p \in x.todo :
              /\ p[1] \in CardIds /\ cards[p[1]].status # "ABSENT"
              /\ p[2] \in Users => <<p[2], p[1]>> \in held
        BY <2>2, <3>2, KnownCard, Zenon DEF ListKnown, Scripting
      <4>2. x.pc \in Scripting => \A p \in x.todo :
              /\ p[1] \in CardIds /\ cards'[p[1]].status # "ABSENT"
              /\ p[2] \in Users => <<p[2], p[1]>> \in held'
        BY <1>3, <1>4, <4>1, Zenon
      <4>3. x.pc \notin Storing \cup {"available", "order", "notify"}
        BY <2>2, <3>2 DEF Storing
      <4> QED
        BY <4>2, <4>3 DEF ListKnown, Storing
    <3> QED
      BY <3>2, <3>3, <3>4, Zenon DEF RequestOK, Making
  <2> QED
    BY <2>1, <2>2
<1>6. /\ cards[c].prosperaCardId => row.prosperaCardId
      /\ row.status \in {"ACTIVE", "BLOCKED"} => row.prosperaCardId /\ issuer[c].state \in Activated
      /\ req[r].pc \notin Storing
  BY <1>1 DEF Card, IssuerState, Found, Served, Storing
<1> QED
  BY <1>2, <1>3, <1>5, <1>6, RowStep, Zenon

\* After a call to the issuer about its card, r goes on to l.
LEMMA AfterCall ==
    ASSUME IInv, NEW r \in Requests, req[r].pc \in Served,
           NEW rec \in IssuerCard, issuer' = [issuer EXCEPT ![req[r].card] = rec],
           UNCHANGED <<cards, held, orderVars>>,
           IssuerState(r) # "none" => rec.state # "none",
           IssuerState(r) \in Activated => rec.state \in Activated,
           IssuerState(r) = "retired" => rec.state = "retired", SpendsOK(req[r].card, rec),
           NEW l \in {"idle", "scriptNext", "activateInfo", "stopSave", "unstopSave",
                      "unlinkSave", "scriptSave"}, Goto(r, l),
           l \in {"scriptNext", "scriptSave"} => req[r].pc \in Scripting,
           l \in {"activateInfo", "stopSave", "unstopSave", "scriptSave"} =>
                rec.state \in Activated,
           l = "unlinkSave" => rec.state = "retired",
           l \in {"stopSave", "unstopSave"} => Card(r).prosperaCardId
    PROVE  IInv'
<1>1. /\ req[r].pc \in Found /\ req[r].card \in CardIds /\ req[r].user \in Users
      /\ Card(r).status # "ABSENT" /\ <<req[r].user, req[r].card>> \in held
  BY KnownCard DEF CardKnown, Found, Card
<1>2. UNCHANGED <<cards, held, batches, orders>> /\ issuer'[req[r].card] = rec
  BY <1>1 DEF orderVars, IInv, TypeOK
<1>3. \E x \in Request : /\ req' = [req EXCEPT ![r] = x] /\ x.pc \notin Virtual \cup Storing
                        /\ CardKnown(x)' /\ ListKnown(x)'
  <2>1. CASE l = "idle"
    BY <2>1, IdleOK, Zenon DEF Goto, RequestOK, Virtual, Storing
  <2>2. CASE l # "idle"
    <3>1. l \in PC \ {"idle"}
      BY <2>2 DEF PC
    <3>2. PICK x \in Request :
            /\ req' = [req EXCEPT ![r] = x]
            /\ x.pc = l /\ x.op = req[r].op /\ x.user = req[r].user
            /\ x.card = req[r].card /\ x.todo = req[r].todo
      BY <3>1, GotoRecord
    <3>3. x.pc \notin Virtual \cup Storing
            /\ x.pc \notin {"available", "order", "notify", "saveBatch", "saveCards", "saveAll"}
      BY <2>2, <3>2 DEF Virtual, Storing
    <3>4. CardKnown(x)'
      BY <1>1, <1>2, <2>2, <3>2, <3>3 DEF CardKnown, Card, Found, Served
    <3>5. x.pc \in Scripting => \A p \in x.todo :
              /\ p[1] \in CardIds /\ cards[p[1]].status # "ABSENT"
              /\ p[2] \in Users => <<p[2], p[1]>> \in held
      BY <2>2, <3>2, KnownCard, Zenon DEF ListKnown, Scripting
    <3>6. ListKnown(x)'
      BY <1>2, <3>3, <3>5 DEF ListKnown
    <3> QED
      BY <3>2, <3>3, <3>4, <3>6, Zenon
  <2> QED
    BY <2>1, <2>2
<1> QED
  BY <1>1, <1>3, IssuerStep, Zenon

\* A record that keeps the customer and the wallet.
LEMMA SpendsKept ==
    ASSUME IInv, NEW c, NEW rec,
           rec.customer = issuer[c].customer, rec.balance = issuer[c].balance
    PROVE  SpendsOK(c, rec)
  BY DEF IInv, SpendsForHolder, SpendsOK

\* The three outcomes of a call: done, done with its answer lost, refused or lost.
LEMMA IssuerCallStep ==
    ASSUME IInv, NEW r \in Requests, req[r].pc \in Served,
           NEW accepts \in BOOLEAN, NEW rec \in IssuerCard,
           NEW next \in {"idle", "activateInfo", "stopSave", "unstopSave", "unlinkSave",
                         "scriptSave"},
           NEW failed \in {"idle", "scriptNext"},
           IssuerCall(r, accepts, rec, next, failed),
           accepts /\ IssuerState(r) # "none" => rec.state # "none",
           accepts /\ IssuerState(r) \in Activated => rec.state \in Activated,
           accepts /\ IssuerState(r) = "retired" => rec.state = "retired",
           SpendsOK(req[r].card, rec),
           next = "scriptSave" \/ failed = "scriptNext" => req[r].pc \in Scripting,
           next # "idle" => rec.state \in Activated,
           next = "unlinkSave" => rec.state = "retired",
           next \in {"stopSave", "unstopSave"} => Card(r).prosperaCardId
    PROVE  IInv'
<1>1. UNCHANGED <<cards, held, orderVars>>
  BY DEF IssuerCall
<1>2. CASE accepts /\ issuer' = [issuer EXCEPT ![req[r].card] = rec] /\ Goto(r, next)
  BY <1>1, <1>2, AfterCall, Zenon
<1>3. CASE accepts /\ issuer' = [issuer EXCEPT ![req[r].card] = rec] /\ Goto(r, failed)
  BY <1>1, <1>3, AfterCall, Zenon
<1>4. CASE UNCHANGED issuer /\ Goto(r, failed)
  <2>1. req[r].card \in CardIds
    BY KnownCard, Zenon DEF CardKnown, Found
  <2>2. PICK old \in IssuerCard : old = issuer[req[r].card]
    BY <2>1 DEF IInv, TypeOK
  <2>3. issuer' = [issuer EXCEPT ![req[r].card] = old]
    BY <1>4, <2>1, <2>2 DEF IInv, TypeOK
  <2>4. SpendsOK(req[r].card, old)
    BY <2>2, SpendsKept
  <2> QED
    BY <1>1, <1>4, <2>2, <2>3, <2>4, AfterCall, Zenon DEF IssuerState
<1> QED
  BY <1>2, <1>3, <1>4 DEF IssuerCall

-----------------------------------------------------------------------------
\* A request past the ownership check, with what it knows of its card.
LEMMA ServedKnows ==
    ASSUME IInv, NEW r \in Requests, req[r].pc \in Served
    PROVE  /\ req[r].card \in CardIds /\ req[r].user \in Users /\ req[r].pc \in Found
           /\ Card(r) \in Row /\ issuer[req[r].card] \in IssuerCard
           /\ Card(r).status # "ABSENT" /\ <<req[r].user, req[r].card>> \in held
           /\ req[r].pc \notin Storing
<1>1. req[r].card \in CardIds /\ req[r].user \in Users /\ req[r].pc \in Found
  BY KnownCard, Zenon DEF CardKnown, Found
<1>3. req[r].pc \notin Storing
  BY DEF Served, Storing
<1>2. Card(r).status # "ABSENT" /\ <<req[r].user, req[r].card>> \in held
  BY <1>1, KnownCard DEF CardKnown, Card
<1> QED
  BY <1>1, <1>2, <1>3 DEF IInv, TypeOK, Card

LEMMA ActivateCardStep ==
    ASSUME IInv, NEW r \in Requests, activateCard(r)
    PROVE  IInv'
<1>1. At(r, "activateRead") /\ UNCHANGED <<cards, issuer, held, orderVars>>
  BY DEF activateCard
<1>2. req[r].pc \in Served
  BY <1>1 DEF At, Served
<1>3. CASE Finish(r)
  BY <1>1, <1>2, <1>3, ServedKnows, FinishStep
<1>4. CASE /\ Card(r).userId \in WithWallet
           /\ req' = [req EXCEPT ![r] = [@ EXCEPT !.pc = "activateIssuer",
                                           !.todo = {<<req[r].card, Card(r).userId>>}]]
  <2> DEFINE x == [req[r] EXCEPT !.pc = "activateIssuer",
                                 !.todo = {<<req[r].card, Card(r).userId>>}]
  <2>1. {<<req[r].card, Card(r).userId>>} \in SUBSET ((CardIds \cup {None}) \X (Users \cup {None}))
    <3>1. Card(r) \in Row /\ req[r].card \in CardIds
      BY <1>2, ServedKnows, Zenon
    <3>2. Card(r).userId \in Users \cup {None}
      BY <3>1 DEF Row
    <3> QED
      BY <3>1, <3>2
  <2>2. /\ x \in Request
        /\ x.pc = "activateIssuer" /\ x.user = req[r].user /\ x.card = req[r].card
        /\ x.todo = {<<req[r].card, Card(r).userId>>}
    <3>1. req[r] \in Request /\ "activateIssuer" \in PC
      BY KnownCard DEF PC
    <3> QED
      BY <2>1, <3>1, Zenon DEF Request
  <2>3. req' = [req EXCEPT ![r] = x]
    BY <1>4
  <2> HIDE DEF x
  <2>4. x.pc \notin Virtual \cup Storing \cup Scripting \cup {"available", "order", "notify"}
    BY <2>2 DEF Virtual, Storing, Scripting
  <2>5. \A p \in x.todo : p[2] \in Users /\ <<p[2], x.card>> \in held
    <3>1. Card(r).userId \in Users /\ Card(r).userId # None
      BY <1>4, ConstantsAssumption
    <3>2. <<Card(r).userId, req[r].card>> \in held
      BY <1>2, <3>1, ServedKnows, Zenon DEF IInv, RowOK, Card
    <3> QED
      BY <2>2, <3>1, <3>2
  <2>6. CardKnown(x)
    BY <1>2, <2>2, <2>4, <2>5, ServedKnows DEF CardKnown, Card
  <2> QED
    BY <1>1, <1>2, <2>2, <2>3, <2>4, <2>6, ServedKnows, NoList, MoveStep, Zenon
<1> QED
  BY <1>3, <1>4 DEF activateCard

LEMMA ActivateAtIssuerStep ==
    ASSUME IInv, NEW r \in Requests, ActivateAtIssuer(r)
    PROVE  IInv'
<1>1. req[r].pc = "activateIssuer" /\ req[r].pc \in Served
  BY DEF ActivateAtIssuer, At, Served
<1>2. PICK p \in req[r].todo :
        IssuerCall(r, IssuerState(r) = "ordered",
                   [state |-> "active", customer |-> req[r].user, balance |-> p[2]],
                   "activateInfo", "idle")
  BY DEF ActivateAtIssuer
<1>3. p[2] \in Users /\ <<p[2], req[r].card>> \in held
  BY <1>1, KnownCard DEF CardKnown
<1>4. PICK rec \in IssuerCard :
        /\ rec = [state |-> "active", customer |-> req[r].user, balance |-> p[2]]
        /\ rec.state = "active" /\ rec.customer = req[r].user /\ rec.balance = p[2]
  <2> DEFINE rec == [state |-> "active", customer |-> req[r].user, balance |-> p[2]]
  <2>1. req[r].user \in Users
    BY <1>1, ServedKnows, Zenon
  <2>2. /\ rec \in IssuerCard
        /\ rec.state = "active" /\ rec.customer = req[r].user /\ rec.balance = p[2]
    BY <1>3, <2>1 DEF IssuerCard
  <2> QED
    BY <2>2
<1>5. PICK a \in BOOLEAN : a <=> IssuerState(r) = "ordered"
  BY Zenon
<1>6. IssuerCall(r, a, rec, "activateInfo", "idle")
  BY <1>2, <1>4, <1>5 DEF IssuerCall
<1>7. SpendsOK(req[r].card, rec)
  BY <1>1, <1>3, <1>4, ServedKnows, ConstantsAssumption DEF SpendsOK
<1> QED
  BY <1>1, <1>4, <1>5, <1>6, <1>7, IssuerCallStep, Zenon DEF Activated

LEMMA ActivateInfoStep ==
    ASSUME IInv, NEW r \in Requests, ActivateInfo(r)
    PROVE  IInv'
<1>1. /\ req[r].pc = "activateInfo" /\ req[r].pc \in Served
      /\ UNCHANGED <<cards, issuer, held, orderVars>>
  BY DEF ActivateInfo, At, Served
<1>2. CASE Finish(r)
  BY <1>1, <1>2, ServedKnows, FinishStep
<1>3. CASE Goto(r, "activateSave")
  <2>1. IssuerState(r) \in Activated
    BY <1>1, KnownCard, Zenon DEF CardKnown, IssuerState
  <2>2. PICK l \in Found \ (Scripting \cup {"take"}) : l = "activateSave"
    BY DEF Found, Served, Scripting
  <2> QED
    BY <1>1, <1>3, <2>1, <2>2, ServedKnows, CardGoto, Zenon
<1> QED
  BY <1>2, <1>3 DEF ActivateInfo

\* The row becomes ACTIVE after the issuer's activation, whoever wrote it meanwhile.
LEMMA ActivateSaveStep ==
    ASSUME IInv, NEW r \in Requests, ActivateSave(r)
    PROVE  IInv'
<1>1. req[r].pc = "activateSave" /\ req[r].pc \in Served /\ UNCHANGED <<issuer, orderVars>>
  BY DEF ActivateSave, At, Served
<1>2. PICK row \in Row :
        /\ row = [Card(r) EXCEPT !.status = "ACTIVE", !.prosperaCardId = TRUE]
        /\ row.status = "ACTIVE" /\ row.prosperaCardId /\ row.batch = Card(r).batch
  <2> DEFINE row == [Card(r) EXCEPT !.status = "ACTIVE", !.prosperaCardId = TRUE]
  <2>1. Card(r) \in Row
    BY <1>1, ServedKnows, Zenon
  <2>2. row \in Row /\ row.status = "ACTIVE" /\ row.prosperaCardId /\ row.batch = Card(r).batch
    BY <2>1, Zenon DEF Row
  <2> QED
    BY <2>2, Zenon
<1>3. Save(r, row, "idle")
  BY <1>2 DEF ActivateSave
<1>4. IssuerState(r) \in Activated
  BY <1>1, KnownCard, Zenon DEF CardKnown, IssuerState
<1> QED
  BY <1>1, <1>2, <1>3, <1>4, ServedKnows, SaveStep, Zenon

LEMMA AskIssuerStep ==
    ASSUME IInv, NEW r \in Requests, NEW l \in {"detailsRead", "cvvRead"}, AskIssuer(r, l)
    PROVE  IInv'
<1>1. req[r].pc \in Served
  BY DEF AskIssuer, At, Served
<1>2. CASE Finish(r) /\ UNCHANGED <<cards, issuer, held, orderVars>>
  BY <1>1, <1>2, ServedKnows, FinishStep
<1>3. CASE IssuerCall(r, TRUE, issuer[req[r].card], "idle", "idle")
  <2>1. SpendsOK(req[r].card, issuer[req[r].card])
    BY SpendsKept
  <2> QED
    BY <1>1, <1>3, <2>1, ServedKnows, IssuerCallStep, Zenon DEF IssuerState
<1> QED
  BY <1>2, <1>3, Zenon DEF AskIssuer

LEMMA ReadIssuedStep ==
    ASSUME IInv, NEW r \in Requests, NEW l \in {"stopRead", "unstopRead"},
           NEW next \in {"stopIssuer", "unstopIssuer"}, ReadIssued(r, l, next)
    PROVE  IInv'
<1>1. req[r].pc \in Served /\ UNCHANGED <<cards, issuer, held, orderVars>>
  BY DEF ReadIssued, At, Served
<1>2. CASE Finish(r)
  BY <1>1, <1>2, ServedKnows, FinishStep
<1>3. CASE Card(r).prosperaCardId /\ Goto(r, next)
  <2>1. next \in Found \ (Scripting \cup {"take"})
    BY DEF Found, Served, Scripting
  <2> QED
    BY <1>1, <1>3, <2>1, ServedKnows, CardGoto, Zenon
<1> QED
  BY <1>2, <1>3 DEF ReadIssued

\* Stopped and active cards are told apart by neither the row nor the other handlers.
LEMMA ToggleStep ==
    ASSUME IInv, NEW r \in Requests, req[r].pc \in {"stopIssuer", "unstopIssuer"},
           NEW s \in {"stopped", "active"}, NEW next \in {"stopSave", "unstopSave"},
           IssuerCall(r, IssuerState(r) \in {"active", "stopped"},
                      [issuer[req[r].card] EXCEPT !.state = s], next, "idle")
    PROVE  IInv'
<1>1. req[r].pc \in Served
  BY DEF Served
<1>2. PICK rec \in IssuerCard :
        /\ rec = [issuer[req[r].card] EXCEPT !.state = s] /\ rec.state = s
        /\ rec.customer = issuer[req[r].card].customer /\ rec.balance = issuer[req[r].card].balance
  <2> DEFINE rec == [issuer[req[r].card] EXCEPT !.state = s]
  <2>1. issuer[req[r].card] \in IssuerCard
    BY <1>1, ServedKnows, Zenon
  <2>2. /\ rec \in IssuerCard /\ rec.state = s
        /\ rec.customer = issuer[req[r].card].customer /\ rec.balance = issuer[req[r].card].balance
    BY <2>1 DEF IssuerCard
  <2> QED
    BY <2>2, Zenon
<1>3. PICK a \in BOOLEAN : a <=> IssuerState(r) \in {"active", "stopped"}
  BY Zenon
<1>4. IssuerCall(r, a, rec, next, "idle")
  BY <1>2, <1>3 DEF IssuerCall
<1>5. Card(r).prosperaCardId
  BY KnownCard, Zenon DEF CardKnown, Card
<1>6. SpendsOK(req[r].card, rec)
  BY <1>2, SpendsKept
<1> QED
  BY <1>1, <1>2, <1>3, <1>4, <1>5, <1>6, IssuerCallStep, Zenon DEF Activated

LEMMA ToggleSaveStep ==
    ASSUME IInv, NEW r \in Requests, req[r].pc \in {"stopSave", "unstopSave"},
           NEW status \in {"BLOCKED", "ACTIVE"},
           Save(r, [Card(r) EXCEPT !.status = status], "idle"), UNCHANGED <<issuer, orderVars>>
    PROVE  IInv'
<1>1. req[r].pc \in Served
  BY DEF Served
<1>2. Card(r).prosperaCardId /\ IssuerState(r) \in Activated
  BY KnownCard, Zenon DEF CardKnown, Card, IssuerState
<1>3. PICK row \in Row :
        /\ row = [Card(r) EXCEPT !.status = status] /\ row.status = status
        /\ row.prosperaCardId = Card(r).prosperaCardId /\ row.batch = Card(r).batch
  <2> DEFINE row == [Card(r) EXCEPT !.status = status]
  <2>1. Card(r) \in Row
    BY <1>1, ServedKnows, Zenon
  <2>2. /\ row \in Row /\ row.status = status
        /\ row.prosperaCardId = Card(r).prosperaCardId /\ row.batch = Card(r).batch
    BY <2>1 DEF Row
  <2> QED
    BY <2>2, Zenon
<1>4. Save(r, row, "idle")
  BY <1>3
<1> QED
  BY <1>1, <1>2, <1>3, <1>4, ServedKnows, SaveStep, Zenon

LEMMA StopStep ==
    ASSUME IInv, NEW r \in Requests, stopCard(r) \/ unstopCard(r)
    PROVE  IInv'
  BY ReadIssuedStep, ToggleStep, ToggleSaveStep DEF stopCard, unstopCard, At

\* A card is given up by unlinkSave, which finds it retired.
LEMMA UnlinkStep ==
    ASSUME IInv, NEW r \in Requests, unlinkCard(r)
    PROVE  IInv'
<1>1. CASE UnlinkRead(r, "unlinkIssuer")
  <2>1. req[r].pc \in Served /\ UNCHANGED <<cards, issuer, held, orderVars>>
    BY <1>1 DEF UnlinkRead, At, Served
  <2>2. PICK l \in Found \ (Scripting \cup {"take"}) : l = "unlinkIssuer"
    BY DEF Found, Served, Scripting
  <2>3. CASE Goto(r, "unlinkIssuer")
    BY <2>1, <2>2, <2>3, ServedKnows, CardGoto, Zenon
  <2>4. CASE Finish(r)
    BY <2>1, <2>4, ServedKnows, FinishStep
  <2> QED
    BY <1>1, <2>3, <2>4 DEF UnlinkRead
<1>2. CASE RetireCard(r, "unlinkSave")
  <2>1. req[r].pc \in Served
    BY <1>2 DEF RetireCard, At, Served
  <2>2. PICK rec \in IssuerCard :
          /\ rec = [issuer[req[r].card] EXCEPT !.state = "retired"] /\ rec.state = "retired"
          /\ rec.customer = issuer[req[r].card].customer
          /\ rec.balance = issuer[req[r].card].balance
    <3> DEFINE rec == [issuer[req[r].card] EXCEPT !.state = "retired"]
    <3>1. issuer[req[r].card] \in IssuerCard
      BY <2>1, ServedKnows, Zenon
    <3>2. /\ rec \in IssuerCard /\ rec.state = "retired"
          /\ rec.customer = issuer[req[r].card].customer
          /\ rec.balance = issuer[req[r].card].balance
      BY <3>1 DEF IssuerCard
    <3> QED
      BY <3>2, Zenon
  <2>3. PICK a \in BOOLEAN : a <=> IssuerState(r) # "retired"
    BY Zenon
  <2>4. IssuerCall(r, a, rec, "unlinkSave", "idle")
    BY <1>2, <2>2, <2>3 DEF RetireCard, IssuerCall
  <2>5. SpendsOK(req[r].card, rec)
    BY <2>2, SpendsKept
  <2> QED
    BY <2>1, <2>2, <2>3, <2>4, <2>5, IssuerCallStep, Zenon DEF Activated
<1>3. CASE UnlinkSave(r, "idle")
  <2>1. req[r].pc \in Served /\ UNCHANGED <<issuer, orderVars>>
    BY <1>3 DEF UnlinkSave, At, Served
  <2>2. PICK row \in Row :
          /\ row = [Card(r) EXCEPT !.userId = None, !.status = "INACTIVE"]
          /\ row.status = "INACTIVE"
          /\ row.prosperaCardId = Card(r).prosperaCardId /\ row.batch = Card(r).batch
    <3> DEFINE row == [Card(r) EXCEPT !.userId = None, !.status = "INACTIVE"]
    <3>1. Card(r) \in Row
      BY <2>1, ServedKnows, Zenon
    <3>2. /\ row \in Row /\ row.status = "INACTIVE"
          /\ row.prosperaCardId = Card(r).prosperaCardId /\ row.batch = Card(r).batch
      BY <3>1, Zenon DEF Row
    <3> QED
      BY <3>2, Zenon
  <2>3. Save(r, row, "idle")
    BY <1>3, <2>2 DEF UnlinkSave
  <2> QED
    BY <2>1, <2>2, <2>3, ServedKnows, SaveStep, Zenon
<1> QED
  BY <1>1, <1>2, <1>3 DEF unlinkCard

-----------------------------------------------------------------------------
LEMMA AssignRequestStep ==
    ASSUME IInv, NEW r \in Requests, NEW u \in Users, NEW c \in CardIds, AssignRequest(r, u, c)
    PROVE  IInv'
<1>1. "assign" \in Operations /\ UNCHANGED <<cards, issuer, held, orderVars>>
      /\ req[r].pc \notin Storing
  BY DEF AssignRequest, At, Storing
<1>2. PICK x \in Request :
        /\ x = CardStart("assignRead", "assign", u, c)
        /\ x.pc = "assignRead" /\ x.user = u /\ x.card = c
  <2>1. "assignRead" \in PC
    BY DEF PC
  <2> QED
    BY <1>1, <2>1, NewCardRequest
<1>3. req' = [req EXCEPT ![r] = x]
  BY <1>2 DEF AssignRequest, CardStart
<1>4. x.pc \notin Virtual \cup Storing \cup Scripting \cup {"available", "order", "notify"}
  BY <1>2 DEF Virtual, Storing, Scripting
<1>5. CardKnown(x)
  BY <1>2 DEF CardKnown, Found, Served, Virtual
<1> QED
  BY <1>1, <1>2, <1>3, <1>4, <1>5, NoList, MoveStep, Zenon

\* A row gets another owner, who becomes one of its holders.
LEMMA GiveCardStep ==
    ASSUME IInv, NEW r \in Requests, req[r].pc \in {"assignSave", "take"},
           NEW l \in {"idle", "pickup"}, Save(r, [Card(r) EXCEPT !.userId = req[r].user], l),
           UNCHANGED <<issuer, orderVars>>
    PROVE  IInv'
<1>1. req[r].pc \in Found
  BY DEF Found
<1>2. /\ req[r].card \in CardIds /\ req[r].user \in Users
      /\ Card(r).status # "ABSENT" /\ Card(r) \in Row
  <2>1. req[r].card \in CardIds /\ req[r].user \in Users /\ Card(r).status # "ABSENT"
    BY <1>1, KnownCard, Zenon DEF CardKnown, Card
  <2> QED
    BY <2>1 DEF IInv, TypeOK, Card
<1>3. PICK row \in Row :
        /\ row = [Card(r) EXCEPT !.userId = req[r].user]
        /\ row.status = Card(r).status /\ row.prosperaCardId = Card(r).prosperaCardId
        /\ row.batch = Card(r).batch
  <2> DEFINE row == [Card(r) EXCEPT !.userId = req[r].user]
  <2>1. /\ row \in Row
        /\ row.status = Card(r).status /\ row.prosperaCardId = Card(r).prosperaCardId
        /\ row.batch = Card(r).batch
    BY <1>2 DEF Row
  <2> QED
    BY <2>1, Zenon
<1>4. Save(r, row, l)
  BY <1>3
<1>5. row.status \in {"ACTIVE", "BLOCKED"} => row.prosperaCardId /\ IssuerState(r) \in Activated
  BY <1>2, <1>3 DEF IInv, ActiveOnlyIfActivated, Card, IssuerState, Activated
<1> QED
  BY <1>1, <1>2, <1>3, <1>4, <1>5, SaveStep, Zenon

LEMMA AssignStep ==
    ASSUME IInv, NEW r \in Requests, assignCard(r)
    PROVE  IInv'
<1>1. CASE At(r, "assignRead")
  <2>1. UNCHANGED <<cards, issuer, held, orderVars>> /\ req[r].pc \notin Storing
    BY <1>1 DEF assignCard, At, Storing
  <2>2. CASE Finish(r)
    BY <2>1, <2>2, FinishStep
  <2>3. CASE Card(r).status # "ABSENT" /\ Goto(r, "assignSave")
    <3>1. req[r].card \in CardIds /\ req[r].user \in Users
      BY <1>1, KnownCard, Zenon DEF CardKnown, At
    <3>2. PICK l \in Found \ (Scripting \cup {"take"}) : l = "assignSave"
      BY DEF Found, Served, Scripting
    <3> QED
      BY <2>1, <2>3, <3>1, <3>2, CardGoto, Zenon
  <2> QED
    BY <1>1, <2>2, <2>3 DEF assignCard, At
<1>2. CASE At(r, "assignSave")
  BY <1>2, GiveCardStep DEF assignCard, At
<1> QED
  BY <1>1, <1>2 DEF assignCard

LEMMA RequestPhysicalCardStep ==
    ASSUME IInv, NEW r \in Requests, NEW u \in Users, requestPhysicalCard(r, u)
    PROVE  IInv'
<1> DEFINE x == [IdleRequest EXCEPT !.pc = "available", !.op = "request", !.user = u]
<1>1. /\ "request" \in Operations /\ req' = [req EXCEPT ![r] = x]
      /\ UNCHANGED <<cards, issuer, held, orderVars>> /\ req[r].pc \notin Storing
  BY DEF requestPhysicalCard, At, Storing
<1>2. x \in Request /\ x.pc = "available" /\ x.user = u
  BY <1>1, IdleOK, Zenon DEF Request, PC
<1> HIDE DEF x
<1>3. x.pc \notin Virtual \cup Storing /\ CardKnown(x)
  BY <1>2 DEF CardKnown, Found, Served, Virtual, Storing
<1>4. ListKnown(x)
  BY <1>2 DEF ListKnown, Scripting, Storing
<1> QED
  BY <1>1, <1>2, <1>3, <1>4, MoveStep, Zenon

LEMMA InventoryStep ==
    ASSUME IInv, NEW r \in Requests, PickFromInventory(r)
    PROVE  IInv'
<1>1. /\ req[r].pc = "available" /\ req[r].user \in Users /\ req[r] \in Request
      /\ UNCHANGED <<cards, issuer, held, orderVars>> /\ req[r].pc \notin Storing
  <2>1. req[r].pc = "available" /\ UNCHANGED <<cards, issuer, held, orderVars>>
    BY DEF PickFromInventory, At
  <2> QED
    BY <2>1, KnownCard DEF ListKnown, Storing
<1>2. CASE req' = [req EXCEPT ![r] = [@ EXCEPT !.pc = "order", !.todo = {<<None, req[r].user>>}]]
  <2> DEFINE x == [req[r] EXCEPT !.pc = "order", !.todo = {<<None, req[r].user>>}]
  <2>1. req' = [req EXCEPT ![r] = x]
    BY <1>2
  <2>2. {<<None, req[r].user>>} \in SUBSET ((CardIds \cup {None}) \X (Users \cup {None}))
    BY <1>1
  <2>3. x \in Request /\ x.pc = "order" /\ x.todo = {<<None, req[r].user>>}
    BY <1>1, <2>2, Zenon DEF Request, PC
  <2> HIDE DEF x
  <2>4. x.pc \notin Virtual \cup Storing /\ CardKnown(x)
    BY <2>3 DEF CardKnown, Found, Served, Virtual, Storing
  <2>5. ListKnown(x)
    BY <1>1, <2>3 DEF ListKnown, Scripting, Storing
  <2> QED
    BY <1>1, <2>1, <2>3, <2>4, <2>5, MoveStep, Zenon
<1>3. ASSUME NEW c \in findAvailablePhysicalCards,
             req' = [req EXCEPT ![r] = [@ EXCEPT !.pc = "take", !.card = c]]
      PROVE  IInv'
  <2> DEFINE x == [req[r] EXCEPT !.pc = "take", !.card = c]
  <2>1. req' = [req EXCEPT ![r] = x]
    BY <1>3
  <2>2. c \in CardIds /\ cards[c].status # "ABSENT"
    BY ConstantsAssumption DEF findAvailablePhysicalCards
  <2>3. x \in Request /\ x.pc = "take" /\ x.card = c /\ x.user = req[r].user
    BY <1>1, <2>2, Zenon DEF Request, PC
  <2> HIDE DEF x
  <2>4. x.pc \notin Virtual \cup Storing \cup Scripting \cup {"available", "order", "notify"}
    BY <2>3 DEF Virtual, Storing, Scripting
  <2>5. CardKnown(x)
    BY <1>1, <2>2, <2>3, <2>4 DEF CardKnown, Served
  <2> QED
    BY <1>1, <2>1, <2>3, <2>4, <2>5, NoList, MoveStep, Zenon
<1> QED
  BY <1>2, <1>3, Zenon DEF PickFromInventory

LEMMA TakeStep ==
    ASSUME IInv, NEW r \in Requests, TakeFromInventory(r) \/ createPickup(r)
    PROVE  IInv'
  BY GiveCardStep, FinishStep DEF TakeFromInventory, createPickup, At, Storing

\* Cards without a row are not in the way of others: a new virtual card is fresh and no
\* other request works on it.
LEMMA VirtualStep ==
    ASSUME IInv, NEW r \in Requests, NEW u \in Users, createVirtualCard(r, u)
    PROVE  IInv'
<1>1. ASSUME At(r, "idle"), "virtual" \in Operations, NEW c \in Fresh \ Physical,
             \A s \in Requests : req[s].card # c,
             req' = [req EXCEPT ![r] = [IdleRequest EXCEPT !.pc = "virtualIssuer",
                                          !.op = "virtual", !.user = u, !.card = c]],
             UNCHANGED <<cards, issuer, held, orderVars>>
      PROVE  IInv'
  <2>1. c \in CardIds /\ issuer[c].state = "none" /\ cards[c].status = "ABSENT"
    BY Zenon DEF Fresh, IInv, RowOK
  <2>2. PICK x \in Request :
          /\ x = CardStart("virtualIssuer", "virtual", u, c)
          /\ x.pc = "virtualIssuer" /\ x.user = u /\ x.card = c
    <3>1. "virtualIssuer" \in PC
      BY DEF PC
    <3> QED
      BY <1>1, <2>1, <3>1, NewCardRequest
  <2>3. req' = [req EXCEPT ![r] = x]
    BY <1>1, <2>2 DEF CardStart
  <2>4. Making(x) \subseteq {c}
    BY <2>2 DEF Making, Storing
  <2>5. CardKnown(x) /\ ListKnown(x)
    <3>1. x.pc \notin Storing \cup Scripting \cup {"available", "order", "notify"}
      BY <2>2 DEF Storing, Scripting
    <3> QED
      BY <1>1, <2>1, <2>2, <3>1, NoList DEF CardKnown, Found, Served, Virtual
  <2>6. \A s \in Requests \ {r} : c \notin Making(req[s])
    <3>1. \A s \in Requests : req[s].pc \in Storing => c \notin Numbers(req[s])
      <4>1. ASSUME NEW s \in Requests, req[s].pc \in Storing
            PROVE  \A p \in req[s].todo : p[1] \in Physical
        BY <4>1, KnownCard DEF ListKnown
      <4> QED
        BY <1>1, <4>1 DEF Numbers
    <3> QED
      BY <1>1, <3>1 DEF Making
  <2>7. RequestOK(x) /\ \A s \in Requests \ {r} : Making(x) \cap Making(req[s]) = {}
    BY <2>1, <2>4, <2>5, <2>6 DEF RequestOK
  <2>8. req[r].pc \notin Storing
    BY <1>1 DEF At, Storing
  <2> QED
    BY <1>1, <2>3, <2>7, <2>8, OnlyRequestStep, Zenon
<1>2. ASSUME At(r, "virtualIssuer"), req[r].user = u,
             issuer' = [issuer EXCEPT ![req[r].card] =
                          [state |-> "active", customer |-> u, balance |-> u]],
             Goto(r, "virtualSave") \/ Finish(r), UNCHANGED <<cards, held, orderVars>>
      PROVE  IInv'
  <2>1. PICK c \in CardIds : c = req[r].card /\ c \notin Physical
    BY <1>2, KnownCard, Zenon DEF CardKnown, At, Virtual
  <2>2. c \in Making(req[r]) /\ cards[c].status = "ABSENT" /\ cards[c] = NoRow
        /\ issuer[c].state = "none"
    <3>1. c \in Making(req[r]) /\ issuer[c].state = "none"
      BY <1>2, <2>1, KnownCard, Zenon DEF Making, Virtual, At, CardKnown
    <3> QED
      BY <3>1, KnownCard, Zenon DEF RequestOK, IInv, RowOK
  <2>3. PICK rec \in IssuerCard : /\ rec = [state |-> "active", customer |-> u, balance |-> u]
                                  /\ rec.state = "active"
    <3>1. [state |-> "active", customer |-> u, balance |-> u] \in IssuerCard
      BY DEF IssuerCard
    <3> QED
      BY <3>1
  <2>4. /\ UNCHANGED <<cards, held, batches, orders, lost>>
        /\ issuer' \in [CardIds -> IssuerCard] /\ issuer'[c].state = "active"
        /\ \A d \in CardIds \ {c} : issuer'[d] = issuer[d]
    BY <1>2, <2>1, <2>3 DEF orderVars, IInv, TypeOK
  <2>5. Kept(r)
    BY <2>2, <2>4 DEF Kept, Activated
  <2>6. \E x \in Request : /\ req' = [req EXCEPT ![r] = x] /\ RequestOK(x)'
                          /\ Making(x) \subseteq Making(req[r])
    <3>1. CASE Finish(r)
      BY <3>1, IdleOK, Zenon DEF Finish, Goto
    <3>2. CASE Goto(r, "virtualSave")
      <4>1. "virtualSave" \in PC \ {"idle"}
        BY DEF PC
      <4>2. PICK x \in Request :
              /\ req' = [req EXCEPT ![r] = x]
              /\ x.pc = "virtualSave" /\ x.user = req[r].user /\ x.card = req[r].card
        BY <3>2, <4>1, GotoRecord
      <4>3. Making(x) = {c}
        BY <2>1, <4>2 DEF Making, Virtual, Storing
      <4>4. CardKnown(x)'
        BY <1>2, <2>1, <2>4, <4>2 DEF CardKnown, Found, Served, Activated
      <4>5. x.pc \notin Storing \cup Scripting \cup {"available", "order", "notify"}
        BY <4>2 DEF Storing, Scripting
      <4>6. Making(x)' = Making(x) /\ ListKnown(x)'
        BY <4>5, NoList DEF Making, Numbers
      <4> QED
        BY <2>2, <2>4, <4>2, <4>3, <4>4, <4>6, Zenon DEF RequestOK
    <3> QED
      BY <1>2, <3>1, <3>2
  <2>7. /\ req' \in [Requests -> Request] /\ MakersApart'
        /\ \A s \in Requests : RequestOK(req[s])'
    <3>1. PICK x \in Request : /\ req' = [req EXCEPT ![r] = x] /\ RequestOK(x)'
                               /\ Making(x) \subseteq Making(req[r])
      BY <2>6, Zenon
    <3>2. \A s \in Requests \ {r} : Making(x) \cap Making(req[s]) = {}
      BY <3>1 DEF IInv, MakersApart
    <3> QED
      BY <2>5, <3>1, <3>2, RequestMoves, Zenon
  <2>8. TypeOK'
    BY <2>4, <2>7 DEF IInv, TypeOK
  <2>9. \A d \in CardIds : RowOK(d)'
    BY <2>2, <2>4 DEF IInv, RowOK
  <2>10. ActiveOnlyIfActivated' /\ SpendsForHolder'
    BY <2>1, <2>2, <2>4, ConstantsAssumption DEF IInv, ActiveOnlyIfActivated, SpendsForHolder
  <2>11. OrderedCardsRecorded'
    <3>1. req[r].pc \notin Storing /\ \A d \in Physical : issuer'[d] = issuer[d]
      BY <1>2, <2>1, <2>4, ConstantsAssumption DEF At, Storing
    <3> QED
      BY <2>4, <2>6, <3>1, Recorded
  <2> QED
    BY <2>7, <2>8, <2>9, <2>10, <2>11 DEF IInv
<1>3. ASSUME At(r, "virtualSave"), req[r].user = u,
             Save(r, [NoRow EXCEPT !.status = "ACTIVE", !.userId = u,
                                   !.prosperaCardId = TRUE], "idle"),
             UNCHANGED <<issuer, orderVars>>
      PROVE  IInv'
  <2>1. PICK c \in CardIds : c = req[r].card /\ issuer[c].state \in Activated
    BY <1>3, KnownCard, Zenon DEF CardKnown, At, Virtual
  <2>2. c \in Making(req[r])
    BY <1>3, <2>1 DEF Making, Virtual, At
  <2>3. PICK row \in Row :
          /\ row = [NoRow EXCEPT !.status = "ACTIVE", !.userId = u, !.prosperaCardId = TRUE]
          /\ row.status = "ACTIVE" /\ row.userId = u /\ row.prosperaCardId /\ ~row.batch
    <3> DEFINE row == [NoRow EXCEPT !.status = "ACTIVE", !.userId = u, !.prosperaCardId = TRUE]
    <3>1. NoRow \in Row /\ ~NoRow.batch
      BY DEF NoRow, Row
    <3>2. row \in Row /\ row.status = "ACTIVE" /\ row.userId = u /\ row.prosperaCardId /\ ~row.batch
      BY <3>1, Zenon DEF Row
    <3> QED
      BY <3>2, Zenon
  <2>4. /\ cards' = [cards EXCEPT ![c] = row] /\ held' = held \cup {<<u, c>>}
        /\ req' = [req EXCEPT ![r] = IdleRequest]
    BY <1>3, <2>1, <2>3, ConstantsAssumption DEF Save, Goto
  <2>5. /\ held \subseteq held' /\ held' \subseteq Users \X CardIds
        /\ <<row.userId, c>> \in held' /\ issuer[c].state # "none" /\ req[r].pc \notin Storing
    BY <1>3, <2>1, <2>3, <2>4 DEF IInv, TypeOK, Activated, At, Storing
  <2> QED
    BY <1>3, <2>1, <2>2, <2>3, <2>4, <2>5, IdleOK, RowStep, Zenon
<1> QED
  BY <1>1, <1>2, <1>3, Zenon DEF createVirtualCard

-----------------------------------------------------------------------------
\* New orders are for fresh cards, which have no row and which nobody else makes.
LEMMA NumberedFresh ==
    ASSUME IInv, NEW u, NEW P \in NumberedFor(u)
    PROVE  /\ \A p \in P : /\ p[1] \in Physical /\ p[1] \in CardIds /\ p[2] = u
                           /\ issuer[p[1]].state = "none" /\ cards[p[1]].status = "ABSENT"
           /\ u # None => \A p, q \in P : p = q
<1>1. P \subseteq (Fresh \cap Physical) \X {u} /\ (u # None => \E p \in P : P = {p})
  BY DEF NumberedFor
<1>2. \A p \in P : p[1] \in Fresh /\ p[1] \in Physical /\ p[2] = u
  BY <1>1
<1>3. u # None => \A p, q \in P : p = q
  BY <1>1
<1> QED
  BY <1>2, <1>3, Zenon DEF Fresh, IInv, RowOK

LEMMA BulkOrderStep ==
    ASSUME IInv, NEW r \in Requests, bulkOrderCard(r)
    PROVE  IInv'
<1>1. req[r].pc = "order" /\ req[r] \in Request /\ UNCHANGED <<cards, held, batches>>
  BY KnownCard, Zenon DEF bulkOrderCard, At
<1>2. CASE Finish(r) /\ UNCHANGED <<issuer, orders, lost>>
  <2>1. req[r].pc \notin Storing
    BY <1>1 DEF Storing
  <2> QED
    BY <1>1, <1>2, <2>1, FinishStep DEF orderVars
<1>3. ASSUME NEW t \in req[r].todo, NEW P \in NumberedFor(t[2]), NEW made,
             made = {p[1] : p \in P},
             issuer' = [c \in CardIds |-> IF c \in made
                            THEN [issuer[c] EXCEPT !.state = "ordered"] ELSE issuer[c]],
             orders' = orders \cup {made},
             \/ /\ UNCHANGED lost
                /\ req' = [req EXCEPT ![r] = [@ EXCEPT !.todo = P, !.pc =
                                IF req[r].op = "noUserScript" THEN "saveAll" ELSE "saveBatch"]]
             \/ Finish(r) /\ lost' = lost \cup made
      PROVE  IInv'
  <2>1. /\ \A p \in P : /\ p[1] \in Physical /\ p[1] \in CardIds /\ p[2] = t[2]
                        /\ issuer[p[1]].state = "none" /\ cards[p[1]].status = "ABSENT"
        /\ t[2] # None => \A p, q \in P : p = q
    BY NumberedFresh
  <2>2. /\ made \subseteq CardIds
        /\ \A c \in made : /\ c \in Physical /\ issuer[c].state = "none"
                           /\ cards[c].status = "ABSENT"
    BY <1>3, <2>1
  <2>3. /\ issuer' \in [CardIds -> IssuerCard]
        /\ \A c \in made : issuer'[c].state = "ordered"
        /\ \A c \in CardIds \ made : issuer'[c] = issuer[c]
        /\ \A c \in CardIds : /\ issuer'[c].customer = issuer[c].customer
                             /\ issuer'[c].balance = issuer[c].balance
    <3>1. \A c \in CardIds : /\ issuer[c] \in IssuerCard
                             /\ [issuer[c] EXCEPT !.state = "ordered"] \in IssuerCard
                             /\ [issuer[c] EXCEPT !.state = "ordered"].state = "ordered"
                             /\ [issuer[c] EXCEPT !.state = "ordered"].customer = issuer[c].customer
                             /\ [issuer[c] EXCEPT !.state = "ordered"].balance = issuer[c].balance
      BY DEF IInv, TypeOK, IssuerCard
    <3> QED
      BY <1>3, <2>2, <3>1
  <2>4. Kept(r)
    BY <1>1, <1>3, <2>2, <2>3 DEF Kept, Activated
  <2>5. PICK x \in Request : /\ req' = [req EXCEPT ![r] = x] /\ RequestOK(x)'
                            /\ Making(x) \subseteq made
                            /\ \/ made \subseteq lost'
                               \/ x.pc \in Storing /\ made = Numbers(x)
    <3>1. CASE Finish(r) /\ lost' = lost \cup made
      <4>1. made \subseteq lost' /\ Making(IdleRequest) \subseteq made
        BY <3>1, IdleOK
      <4> QED
        BY <3>1, <4>1, IdleOK, Zenon DEF Finish, Goto
    <3>2. CASE req' = [req EXCEPT ![r] = [@ EXCEPT !.todo = P, !.pc =
                                IF req[r].op = "noUserScript" THEN "saveAll" ELSE "saveBatch"]]
      <4>5. PICK l \in {"saveAll", "saveBatch"} :
              l = IF req[r].op = "noUserScript" THEN "saveAll" ELSE "saveBatch"
        OBVIOUS
      <4>1. P \in SUBSET ((CardIds \cup {None}) \X (Users \cup {None}))
        <5>1. t[2] \in Users \cup {None}
          BY <1>1, <1>3 DEF Request
        <5>2. P \subseteq (Fresh \cap Physical) \X {t[2]}
          BY DEF NumberedFor
        <5>3. Fresh \subseteq CardIds /\ {t[2]} \subseteq Users \cup {None}
          BY <5>1 DEF Fresh
        <5> QED
          BY <5>2, <5>3
      <4>2. PICK x \in Request :
              /\ x = [req[r] EXCEPT !.todo = P, !.pc = l]
              /\ x.pc = l /\ x.op = req[r].op /\ x.todo = P
        <5> DEFINE x == [req[r] EXCEPT !.todo = P, !.pc = l]
        <5>1. l \in PC
          BY <4>5 DEF PC
        <5>2. x \in Request /\ x.pc = l /\ x.op = req[r].op /\ x.todo = P
          BY <1>1, <4>1, <5>1 DEF Request
        <5> QED
          BY <5>2, Zenon
      <4>3. req' = [req EXCEPT ![r] = x]
        BY <3>2, <4>2, <4>5
      <4>4. l = "saveBatch" => (\A p \in P : p[2] \in Users) /\ \A p, q \in P : p = q
        <5>1. l = "saveBatch" => t[2] \in Users
          BY <1>1, <4>5, KnownCard DEF ListKnown
        <5> QED
          BY <2>1, <5>1, ConstantsAssumption
      <4>6. Numbers(x) = made /\ Making(x) \subseteq made
        <5>1. Numbers(x) = made
          BY <1>3, <4>2 DEF Numbers
        <5> QED
          BY <4>2, <4>5, <5>1 DEF Making, Virtual
      <4>7. CardKnown(x)'
        BY <4>2, <4>5 DEF CardKnown, Found, Served, Virtual
      <4>8. ListKnown(x)'
        <5>1. \A p \in x.todo : p[1] \in Physical /\ issuer'[p[1]].state # "none"
          <6>1. \A p \in P : p[1] \in made
            BY <1>3
          <6> QED
            BY <2>1, <2>3, <4>2, <6>1
        <5>2. Numbers(x)' \in orders'
          BY <1>3, <4>6, Zenon DEF Numbers
        <5> QED
          BY <4>2, <4>4, <4>5, <5>1, <5>2 DEF ListKnown, Scripting
      <4>9. \A c \in Making(x)' : cards'[c].status = "ABSENT"
        <5>1. Making(x)' = Making(x)
          BY DEF Making, Numbers
        <5> QED
          BY <1>1, <2>2, <4>6, <5>1
      <4>10. x.pc \in Storing
        BY <4>2, <4>5 DEF Storing
      <4> QED
        BY <4>2, <4>3, <4>6, <4>7, <4>8, <4>9, <4>10, Zenon DEF RequestOK
    <3> QED
      BY <1>3, <3>1, <3>2
  <2>6. \A s \in Requests \ {r} : made \cap Making(req[s]) = {}
    <3>1. ASSUME NEW s \in Requests \ {r}, NEW c \in made, c \in Making(req[s]) PROVE FALSE
      <4>1. CASE req[s].pc \in Virtual /\ c = req[s].card
        BY <2>2, <3>1, <4>1, KnownCard, Zenon DEF CardKnown
      <4>2. CASE req[s].pc \in Storing /\ c \in Numbers(req[s])
        <5>1. PICK p \in req[s].todo : c = p[1]
          BY <4>2 DEF Numbers
        <5> QED
          BY <2>2, <3>1, <4>2, <5>1, KnownCard DEF ListKnown
      <4> QED
        BY <3>1, <4>1, <4>2 DEF Making
    <3> QED
      BY <3>1
  <2>7. /\ req' \in [Requests -> Request] /\ MakersApart'
        /\ \A s \in Requests : RequestOK(req[s])'
    <3>1. \A s \in Requests \ {r} : Making(x) \cap Making(req[s]) = {}
      BY <2>5, <2>6
    <3> QED
      BY <2>4, <2>5, <3>1, RequestMoves, Zenon
  <2>8. TypeOK'
    BY <1>1, <1>3, <2>2, <2>3, <2>7 DEF IInv, TypeOK
  <2>9. \A d \in CardIds : RowOK(d)'
    BY <1>1, <2>2, <2>3 DEF IInv, RowOK
  <2>10. ActiveOnlyIfActivated'
    BY <1>1, <2>2, <2>3 DEF IInv, ActiveOnlyIfActivated
  <2>11. SpendsForHolder'
    BY <1>1, <2>3, ConstantsAssumption DEF IInv, SpendsForHolder
  <2>12. OrderedCardsRecorded'
    <3>2. req[r].pc \notin Storing /\ lost \subseteq lost'
      BY <1>1, <1>3 DEF Storing
    <3>3. \A c \in Physical : c \notin made => issuer'[c].state = issuer[c].state
      BY <2>3, ConstantsAssumption
    <3> QED
      BY <1>1, <2>5, <3>2, <3>3, Recorded
  <2> QED
    BY <2>7, <2>8, <2>9, <2>10, <2>11, <2>12 DEF IInv
<1> QED
  BY <1>2, <1>3, ZenonT(60) DEF bulkOrderCard

LEMMA BatchCards ==
    ASSUME IInv, NEW r \in Requests, req[r].pc \in {"saveBatch", "saveAll", "notify"}
    PROVE  BatchOf(r) \in orders /\ BatchOf(r) \subseteq CardIds /\ BatchOf(r) = Numbers(req[r])
<1>1. BatchOf(r) = Numbers(req[r])
  BY DEF BatchOf, Numbers
<1>2. Numbers(req[r]) \in orders
  BY KnownCard DEF ListKnown
<1>3. \A b \in orders : b \subseteq CardIds
  BY DEF IInv, TypeOK
<1> QED
  BY <1>1, <1>2, <1>3, Zenon

\* createBulkBatch of an ordered batch, by the handler, the script or the notification.
LEMMA BatchRecorded ==
    ASSUME IInv, NEW r \in Requests, req[r].pc \in {"saveBatch", "saveAll", "notify"},
           NEW l \in {"saveCards", "idle"}, NEW U \in SUBSET CardIds, createBulkBatch(r, l, U)
    PROVE  /\ BatchOf(r) \in orders /\ BatchOf(r) \subseteq CardIds
           /\ BatchOf(r) = Numbers(req[r])
           /\ batches \subseteq batches' /\ batches' \subseteq SUBSET CardIds
           /\ BatchOf(r) \notin batches => BatchOf(r) \in batches' /\ Goto(r, l)
           /\ BatchOf(r) \in batches => Finish(r) /\ U \subseteq lost'
           /\ lost \subseteq lost' /\ lost' \subseteq CardIds
<1>1. BatchOf(r) \in orders /\ BatchOf(r) \subseteq CardIds /\ BatchOf(r) = Numbers(req[r])
  BY BatchCards
<1> QED
  BY <1>1 DEF createBulkBatch, IInv, TypeOK

LEMMA SaveBatchStep ==
    ASSUME IInv, NEW r \in Requests, SaveBatch(r)
    PROVE  IInv'
<1>1. /\ req[r].pc = "saveBatch" /\ createBulkBatch(r, "saveCards", BatchOf(r))
      /\ UNCHANGED <<cards, issuer, held, orders>>
  BY DEF SaveBatch, At
<1> DEFINE U == BatchOf(r)
<1>8. U \in SUBSET CardIds
  BY <1>1, BatchCards
<1>2. /\ BatchOf(r) \in orders /\ BatchOf(r) = Numbers(req[r])
      /\ batches \subseteq batches' /\ batches' \subseteq SUBSET CardIds
      /\ BatchOf(r) \notin batches => BatchOf(r) \in batches' /\ Goto(r, "saveCards")
      /\ BatchOf(r) \in batches => Finish(r) /\ BatchOf(r) \subseteq lost'
      /\ lost \subseteq lost' /\ lost' \subseteq CardIds
  BY <1>1, <1>8, BatchRecorded
<1>3. Kept(r)
  BY <1>1, <1>2 DEF Kept
<1>4. \E x \in Request : /\ req' = [req EXCEPT ![r] = x] /\ RequestOK(x)'
                        /\ Making(x) \subseteq Making(req[r])
                        /\ \/ Numbers(req[r]) \subseteq lost'
                           \/ x.pc \in Storing /\ Numbers(x) = Numbers(req[r])
  <2>1. CASE BatchOf(r) \in batches
    BY <1>2, <2>1, IdleOK DEF Finish, Goto
  <2>2. CASE BatchOf(r) \notin batches
    <3>1. "saveCards" \in PC \ {"idle"}
      BY DEF PC
    <3>2. PICK x \in Request :
            /\ req' = [req EXCEPT ![r] = x]
            /\ x.pc = "saveCards" /\ x.todo = req[r].todo
      BY <1>2, <2>2, <3>1, GotoRecord
    <3>3. Numbers(x) = Numbers(req[r])
      BY <3>2 DEF Numbers
    <3>4. Making(x) = Making(req[r])
      BY <1>1, <3>2, <3>3 DEF Making, Storing, Virtual
    <3>5. CardKnown(x)'
      BY <3>2 DEF CardKnown, Found, Served, Virtual
    <3>6. ListKnown(x)'
      <4>1. /\ \A p \in x.todo : /\ p[1] \in Physical /\ issuer'[p[1]].state # "none"
                                 /\ p[2] \in Users
            /\ \A p, q \in x.todo : p = q
        BY <1>1, <3>2, KnownCard, Zenon DEF ListKnown, Storing
      <4> QED
        BY <3>2, <4>1 DEF ListKnown, Scripting
    <3>7. \A c \in Making(x)' : cards'[c].status = "ABSENT"
      <4>1. Making(x)' = Making(x)
        BY DEF Making, Numbers
      <4> QED
        BY <1>1, <3>4, <4>1, KnownCard DEF RequestOK
    <3>8. x.pc \in Storing
      BY <3>2 DEF Storing
    <3> QED
      BY <3>2, <3>3, <3>4, <3>5, <3>6, <3>7, <3>8, Zenon DEF RequestOK
  <2> QED
    BY <2>1, <2>2
<1>5. /\ req' \in [Requests -> Request] /\ MakersApart'
      /\ \A s \in Requests : RequestOK(req[s])'
  <2>1. PICK x \in Request : /\ req' = [req EXCEPT ![r] = x] /\ RequestOK(x)'
                             /\ Making(x) \subseteq Making(req[r])
    BY <1>4, Zenon
  <2>2. \A s \in Requests \ {r} : Making(x) \cap Making(req[s]) = {}
    BY <2>1 DEF IInv, MakersApart
  <2> QED
    BY <1>3, <2>1, <2>2, RequestMoves, Zenon
<1>6. TypeOK'
  BY <1>1, <1>2, <1>5 DEF IInv, TypeOK
<1>7. ActiveOnlyIfActivated' /\ SpendsForHolder' /\ \A c \in CardIds : RowOK(c)'
  BY <1>1 DEF IInv, ActiveOnlyIfActivated, SpendsForHolder, RowOK
<1>9. OrderedCardsRecorded'
  BY <1>1, <1>2, <1>4, Recorded
<1> QED
  BY <1>5, <1>6, <1>7, <1>9 DEF IInv

\* The ordered card is stored.
LEMMA StoreStep ==
    ASSUME IInv, NEW r \in Requests, req[r].pc = "saveCards", NEW p \in req[r].todo,
           NEW status \in {"PENDING", "INACTIVE"},
           cards' = [cards EXCEPT ![p[1]] = OrderedRow(p[2], status)],
           held' = held \cup {<<p[2], p[1]>>}, UNCHANGED <<issuer, orderVars>>,
           NEW x \in Request, req' = [req EXCEPT ![r] = x], x.pc \in {"idle", "pickup"}
    PROVE  IInv'
<1>1. /\ \A q \in req[r].todo : /\ q[1] \in Physical /\ issuer[q[1]].state # "none"
                                /\ q[2] \in Users /\ q[1] \in Numbers(req[r])
      /\ \A q1, q2 \in req[r].todo : q1 = q2
  BY KnownCard, Zenon DEF ListKnown, Storing, Numbers
<1>2. PICK c \in CardIds : c = p[1]
  BY <1>1, ConstantsAssumption
<1>3. \A d \in Numbers(req[r]) : d = c
  BY <1>1, <1>2 DEF Numbers
<1>4. c \in Making(req[r]) /\ issuer[c].state # "none" /\ p[2] \in Users
  BY <1>1, <1>2 DEF Making, Storing
<1>5. cards[c].status = "ABSENT" /\ ~cards[c].prosperaCardId
  <2>1. cards[c].status = "ABSENT"
    BY <1>4, KnownCard DEF RequestOK
  <2>2. cards[c] = NoRow
    BY <2>1, Zenon DEF IInv, RowOK
  <2> QED
    <3>1. ~NoRow.prosperaCardId
      BY DEF NoRow
    <3> QED
      BY <2>1, <2>2, <3>1, Zenon
<1>6. PICK row \in Row :
        /\ row = OrderedRow(p[2], status)
        /\ row.status = status /\ row.userId = p[2]
  <2> DEFINE row == [NoRow EXCEPT !.status = status, !.userId = p[2], !.batch = TRUE]
  <2>1. NoRow \in Row
    BY DEF NoRow, Row
  <2>2. row \in Row /\ row.status = status /\ row.userId = p[2]
    BY <1>4, <2>1, Zenon DEF Row
  <2> QED
    BY <2>2, Zenon DEF OrderedRow
<1>7. /\ cards' = [cards EXCEPT ![c] = row] /\ held \subseteq held'
      /\ held' \subseteq Users \X CardIds /\ <<row.userId, c>> \in held'
  <2>1. held \subseteq Users \X CardIds
    BY DEF IInv, TypeOK
  <2> QED
    BY <1>2, <1>4, <1>6, <2>1
<1>8. Making(x) = {} /\ Making(x)' = {}
  BY DEF Making, Virtual, Storing
<1>9. RequestOK(x)'
  <2>1. CardKnown(x)'
    BY DEF CardKnown, Found, Served, Virtual
  <2>2. ListKnown(x)'
    BY Zenon DEF ListKnown, Scripting, Storing
  <2> QED
    BY <1>8, <2>1, <2>2 DEF RequestOK
<1>10. row.status # "ABSENT" /\ row.status \notin {"ACTIVE", "BLOCKED"}
  BY <1>6
<1> QED
  BY <1>3, <1>4, <1>5, <1>7, <1>8, <1>9, <1>10, RowStep, ZenonT(30)

LEMMA CreateCardStep ==
    ASSUME IInv, NEW r \in Requests, createCard(r)
    PROVE  IInv'
<1>1. req[r].pc = "saveCards" /\ req[r] \in Request /\ UNCHANGED <<issuer, orderVars>>
  BY KnownCard DEF createCard, StoreCard, At
<1>2. PICK p \in req[r].todo :
        /\ cards' = [cards EXCEPT ![p[1]] = OrderedRow(p[2], "PENDING")]
        /\ held' = held \cup {<<p[2], p[1]>>}
        /\ req' = [req EXCEPT ![r] = [req[r] EXCEPT !.pc = "pickup", !.card = p[1], !.todo = {}]]
  BY Zenon DEF createCard, StoreCard
<1>3. PICK x \in Request :
        /\ x = [req[r] EXCEPT !.pc = "pickup", !.card = p[1], !.todo = {}]
        /\ x.pc = "pickup"
  <2> DEFINE x == [req[r] EXCEPT !.pc = "pickup", !.card = p[1], !.todo = {}]
  <2>1. p[1] \in CardIds \cup {None}
    BY <1>1 DEF Request
  <2>2. x \in Request /\ x.pc = "pickup"
    BY <1>1, <2>1, Zenon DEF Request, PC
  <2> QED
    BY <2>2, Zenon
<1> QED
  BY <1>1, <1>2, <1>3, StoreStep, Zenon

LEMMA SaveForUsersStep ==
    ASSUME IInv, NEW r \in Requests, SaveCardsForUsers(r)
    PROVE  IInv'
<1>1. req[r].pc = "saveCards" /\ req[r] \in Request /\ UNCHANGED <<issuer, orderVars>>
  BY KnownCard DEF SaveCardsForUsers, StoreCard, At
<1>2. PICK p \in req[r].todo :
        /\ cards' = [cards EXCEPT ![p[1]] = OrderedRow(p[2], "INACTIVE")]
        /\ held' = held \cup {<<p[2], p[1]>>}
        /\ req' = [req EXCEPT ![r] = IdleRequest]
  BY Zenon DEF SaveCardsForUsers, StoreCard
<1> QED
  BY <1>1, <1>2, IdleOK, StoreStep, Zenon

\* Several rows are written at once, by the notification or the script without users: rows
\* that are there keep all but their prosperaCardId, rows that r makes become INACTIVE.
LEMMA ManyRowsStep ==
    ASSUME IInv, NEW r \in Requests, cards' \in [CardIds -> Row],
           batches \subseteq batches', batches' \subseteq SUBSET CardIds,
           UNCHANGED <<issuer, held, orders>>, req' = [req EXCEPT ![r] = IdleRequest],
           \A c \in CardIds :
             \/ cards'[c] = cards[c]
             \/ /\ cards[c].status # "ABSENT" /\ cards'[c].prosperaCardId
                /\ cards'[c].status = cards[c].status /\ cards'[c].userId = cards[c].userId
             \/ /\ c \in Making(req[r]) /\ cards'[c] = OrderedRow(None, "INACTIVE")
                /\ issuer[c].state # "none",
           lost \subseteq lost', lost' \subseteq CardIds,
           req[r].pc \in Storing => \A c \in Numbers(req[r]) :
                cards'[c].status # "ABSENT" \/ c \in lost'
    PROVE  IInv'
<1>1. /\ OrderedRow(None, "INACTIVE").status = "INACTIVE"
      /\ OrderedRow(None, "INACTIVE").userId = None
  BY DEF OrderedRow, NoRow
<1>2. ~NoRow.prosperaCardId
  BY Zenon DEF NoRow
<1>3. \A c \in Making(req[r]) : cards[c].status = "ABSENT" /\ ~cards[c].prosperaCardId
  <2>1. \A c \in Making(req[r]) : cards[c].status = "ABSENT" /\ c \in CardIds
    BY KnownCard, Zenon DEF RequestOK, Making
  <2> QED
    BY <1>2, <2>1, Zenon DEF IInv, RowOK
<1>4. Kept(r)
  BY <1>1, <1>3 DEF Kept
<1>5. /\ req' \in [Requests -> Request] /\ MakersApart'
      /\ \A s \in Requests : RequestOK(req[s])'
  BY <1>4, IdleOK, RequestMoves, Zenon
<1>6. TypeOK'
  BY <1>5 DEF IInv, TypeOK
<1>7. \A c \in CardIds : RowOK(c)'
  BY <1>1 DEF IInv, RowOK
<1>8. ActiveOnlyIfActivated'
  BY <1>1 DEF IInv, ActiveOnlyIfActivated
<1>9. SpendsForHolder'
  BY DEF IInv, SpendsForHolder
<1>10. OrderedCardsRecorded'
  <2>1. \A c \in Physical : cards[c].status # "ABSENT" => cards'[c].status # "ABSENT"
    BY <1>1, ConstantsAssumption
  <2> QED
    BY <2>1, IdleOK, Recorded
<1> QED
  BY <1>5, <1>6, <1>7, <1>8, <1>9, <1>10, Zenon DEF IInv

LEMMA NotifyStep ==
    ASSUME IInv, NEW r \in Requests, handleBulkOrderCardNotification(r)
    PROVE  IInv'
<1>1. /\ req[r].pc = "notify" /\ createBulkBatch(r, "idle", {}) /\ UNCHANGED <<issuer, held, orders>>
      /\ cards' = [c \in CardIds |->
                    IF BatchOf(r) \notin batches /\ c \in BatchOf(r) /\ cards[c].status # "ABSENT"
                    THEN [cards[c] EXCEPT !.prosperaCardId = TRUE] ELSE cards[c]]
  BY DEF handleBulkOrderCardNotification, At
<1>2. /\ batches \subseteq batches' /\ batches' \subseteq SUBSET CardIds
      /\ req' = [req EXCEPT ![r] = IdleRequest] /\ lost \subseteq lost' /\ lost' \subseteq CardIds
  <2>1. PICK U \in SUBSET CardIds : U = {}
    OBVIOUS
  <2> QED
    BY <1>1, <2>1, BatchRecorded DEF Finish, Goto
<1>3. \A c \in CardIds :
        LET row == [cards[c] EXCEPT !.prosperaCardId = TRUE] IN
        /\ row \in Row /\ cards[c] \in Row /\ row.prosperaCardId /\ row.status = cards[c].status
        /\ row.userId = cards[c].userId /\ row.batch = cards[c].batch
  <2> SUFFICES ASSUME NEW c \in CardIds
               PROVE  LET row == [cards[c] EXCEPT !.prosperaCardId = TRUE] IN
                      /\ row \in Row /\ cards[c] \in Row /\ row.prosperaCardId
                      /\ row.status = cards[c].status
                      /\ row.userId = cards[c].userId /\ row.batch = cards[c].batch
    OBVIOUS
  <2>1. cards[c] \in Row
    BY DEF IInv, TypeOK
  <2> QED
    BY <2>1, Zenon DEF Row
<1>4. cards' \in [CardIds -> Row]
  BY <1>1, <1>3
<1>5. \A c \in CardIds :
        \/ cards'[c] = cards[c]
        \/ /\ cards[c].status # "ABSENT" /\ cards'[c].prosperaCardId
           /\ cards'[c].status = cards[c].status /\ cards'[c].userId = cards[c].userId
  BY <1>1, <1>3
<1>6. req[r].pc \notin Storing
  BY <1>1 DEF Storing
<1> QED
  BY <1>1, <1>2, <1>4, <1>5, <1>6, ManyRowsStep, Zenon

LEMMA SaveBulkStep ==
    ASSUME IInv, NEW r \in Requests, SaveBulkCards(r)
    PROVE  IInv'
<1>1. /\ req[r].pc = "saveAll" /\ createBulkBatch(r, "idle", BatchOf(r)) /\ UNCHANGED <<issuer, held, orders>>
      /\ cards' = [c \in CardIds |-> IF c \in BatchOf(r) /\ BatchOf(r) \notin batches
                                     THEN OrderedRow(None, "INACTIVE") ELSE cards[c]]
  BY DEF SaveBulkCards, At
<1>2. /\ batches \subseteq batches' /\ batches' \subseteq SUBSET CardIds
      /\ req' = [req EXCEPT ![r] = IdleRequest]
      /\ BatchOf(r) = Numbers(req[r]) /\ lost \subseteq lost' /\ lost' \subseteq CardIds
      /\ BatchOf(r) \in batches => BatchOf(r) \subseteq lost' /\ BatchOf(r) \subseteq CardIds
      /\ BatchOf(r) \subseteq CardIds
  <2>1. PICK U \in SUBSET CardIds : U = BatchOf(r)
    BY <1>1, BatchCards
  <2> QED
    BY <1>1, <2>1, BatchRecorded DEF Finish, Goto
<1>3. \A c \in CardIds : c \in BatchOf(r) => c \in Making(req[r]) /\ issuer[c].state # "none"
  <2>1. \A p \in req[r].todo : issuer[p[1]].state # "none"
    BY <1>1, KnownCard, Zenon DEF ListKnown, Storing
  <2> QED
    BY <1>1, <1>2, <2>1, Zenon DEF Making, Storing, Numbers
<1>4. OrderedRow(None, "INACTIVE") \in Row
  BY Zenon DEF OrderedRow, NoRow, Row
<1>5. cards' \in [CardIds -> Row]
  BY <1>1, <1>4 DEF IInv, TypeOK
<1>6. \A c \in CardIds :
        \/ cards'[c] = cards[c]
        \/ /\ c \in Making(req[r]) /\ cards'[c] = OrderedRow(None, "INACTIVE")
           /\ issuer[c].state # "none"
  BY <1>1, <1>2, <1>3
<1>7. \A c \in Numbers(req[r]) : cards'[c].status # "ABSENT" \/ c \in lost'
  <2>1. OrderedRow(None, "INACTIVE").status = "INACTIVE"
    BY DEF OrderedRow, NoRow
  <2> QED
    BY <1>1, <1>2, <2>1
<1> QED
  BY <1>1, <1>2, <1>5, <1>6, <1>7, ManyRowsStep, Zenon

-----------------------------------------------------------------------------
LEMMA ScriptStarts ==
    ASSUME IInv, NEW r \in Requests, NEW op \in Operations,
           NEW l \in {"order", "scriptNext", "notify"},
           NEW todo \in SUBSET ((CardIds \cup {None}) \X (Users \cup {None})),
           req' = [req EXCEPT ![r] = [IdleRequest EXCEPT !.pc = l, !.op = op, !.todo = todo]],
           UNCHANGED <<cards, issuer, held, orderVars>>,
           l = "order" /\ op # "noUserScript" => \A p \in todo : p[2] \in Users,
           l = "scriptNext" => \A p \in todo :
                /\ p[1] \in CardIds /\ cards[p[1]].status # "ABSENT"
                /\ p[2] \in Users => <<p[2], p[1]>> \in held,
           l = "notify" => {p[1] : p \in todo} \in orders, At(r, "idle")
    PROVE  IInv'
<1>1. PICK x \in Request : /\ x = ScriptStart(l, op, todo)
                           /\ x.pc = l /\ x.op = op /\ x.todo = todo
  <2>1. l \in PC
    BY DEF PC
  <2> QED
    BY <2>1, NewScript
<1>2. req' = [req EXCEPT ![r] = x]
  BY <1>1 DEF ScriptStart
<1>3. x.pc \notin Virtual \cup Storing
  BY <1>1 DEF Virtual, Storing
<1>4. CardKnown(x)
  BY <1>1 DEF CardKnown, Found, Served, Virtual
<1>5. ListKnown(x)
  BY <1>1, <1>3 DEF ListKnown, Scripting, Storing, Numbers
<1>6. req[r].pc \notin Storing
  BY DEF At, Storing
<1> QED
  BY <1>1, <1>2, <1>3, <1>4, <1>5, <1>6, MoveStep, Zenon

LEMMA NotificationStep ==
    ASSUME IInv, NEW r \in Requests, NEW b \in SUBSET CardIds, Notification(r, b)
    PROVE  IInv'
<1>1. /\ b \in orders /\ "notification" \in Operations /\ At(r, "idle")
      /\ UNCHANGED <<cards, issuer, held, orderVars>>
      /\ req' = [req EXCEPT ![r] = [IdleRequest EXCEPT !.pc = "notify", !.op = "notification",
                                                       !.todo = b \X {None}]]
  BY DEF Notification
<1>2. PICK todo \in SUBSET ((CardIds \cup {None}) \X (Users \cup {None})) :
        todo = b \X {None}
  BY Zenon
<1>3. {p[1] : p \in todo} = b
  <2>1. \A c \in b : <<c, None>> \in todo /\ <<c, None>>[1] = c
    BY <1>2
  <2>2. \A p \in todo : p[1] \in b
    BY <1>2
  <2>3. \A c \in b : c \in {p[1] : p \in todo}
    BY <2>1, Zenon
  <2> QED
    BY <2>2, <2>3
<1>4. req' = [req EXCEPT ![r] = [IdleRequest EXCEPT !.pc = "notify", !.op = "notification",
                                                    !.todo = todo]]
  BY <1>1, <1>2
<1>5. {p[1] : p \in todo} \in orders
  BY <1>1, <1>3
<1> QED
  BY <1>1, <1>4, <1>5, ScriptStarts, Zenon

LEMMA OrderScriptsStep ==
    ASSUME IInv, NEW r \in Requests,
           requestBulkCardsNoUser(r) \/ requestPhysicalCardsForUsers(r)
    PROVE  IInv'
<1>1. CASE requestBulkCardsNoUser(r)
  <2>1. {<<None, None>>} \in SUBSET ((CardIds \cup {None}) \X (Users \cup {None}))
    OBVIOUS
  <2>2. StartScript(r, "noUserScript", "order", {<<None, None>>})
    BY <1>1 DEF requestBulkCardsNoUser
  <2> QED
    BY <2>1, <2>2, ScriptStarts, Zenon DEF StartScript
<1>2. CASE requestPhysicalCardsForUsers(r)
  <2>1. PICK todo \in SUBSET ((CardIds \cup {None}) \X (Users \cup {None})) :
          todo = {<<None, ScriptUser>>} /\ \A p \in todo : p[2] \in Users
    <3> DEFINE start == {<<None, ScriptUser>>}
    <3>1. /\ start \in SUBSET ((CardIds \cup {None}) \X (Users \cup {None}))
          /\ \A p \in start : p[2] \in Users
      BY ConstantsAssumption
    <3> QED
      BY <3>1, Zenon
  <2>2. StartScript(r, "usersScript", "order", todo)
    BY <1>2, <2>1 DEF requestPhysicalCardsForUsers
  <2> QED
    BY <2>1, <2>2, ScriptStarts, Zenon DEF StartScript
<1> QED
  BY <1>1, <1>2

LEMMA ActivateScriptStep ==
    ASSUME IInv, NEW r \in Requests, activatePhysicalCards(r)
    PROVE  IInv'
<1> DEFINE S == {d \in Physical : cards[d].status = "INACTIVE" /\ cards[d].batch}
           todo == {<<c, cards[c].userId>> : c \in S}
<1>1. StartScript(r, "activateScript", "scriptNext", todo)
  BY DEF activatePhysicalCards
<1>2. \A c \in S : /\ c \in CardIds /\ cards[c].userId \in Users \cup {None}
                   /\ cards[c].status # "ABSENT"
                   /\ cards[c].userId # None => <<cards[c].userId, c>> \in held
  BY ConstantsAssumption DEF IInv, TypeOK, Row, RowOK
<1>3. todo \in SUBSET ((CardIds \cup {None}) \X (Users \cup {None}))
  <2>1. \A c \in S : <<c, cards[c].userId>> \in (CardIds \cup {None}) \X (Users \cup {None})
    BY <1>2, Zenon
  <2> HIDE DEF S
  <2> QED
    BY <2>1
<1>4. \A p \in todo : /\ p[1] \in CardIds /\ cards[p[1]].status # "ABSENT"
                      /\ p[2] \in Users => <<p[2], p[1]>> \in held
  BY <1>2, ConstantsAssumption
<1> HIDE DEF todo
<1>5. PICK t \in SUBSET ((CardIds \cup {None}) \X (Users \cup {None})) : t = todo
  BY <1>3
<1> QED
  BY <1>1, <1>4, <1>5, ScriptStarts, Zenon DEF StartScript

LEMMA ScriptNextStep ==
    ASSUME IInv, NEW r \in Requests, ScriptNext(r)
    PROVE  IInv'
<1>1. /\ req[r].pc = "scriptNext" /\ req[r] \in Request
      /\ UNCHANGED <<cards, issuer, held, orderVars>>
      /\ \A p \in req[r].todo : /\ p[1] \in CardIds /\ cards[p[1]].status # "ABSENT"
                                /\ p[2] \in Users => <<p[2], p[1]>> \in held
  BY KnownCard, Zenon DEF ScriptNext, At, ListKnown, Scripting
<1>5. req[r].pc \notin Storing
  BY <1>1 DEF Storing
<1>2. CASE Finish(r)
  BY <1>1, <1>2, <1>5, FinishStep
<1>3. ASSUME NEW p \in req[r].todo, p[2] \in WithProfile,
             req' = [req EXCEPT ![r] = [req[r] EXCEPT !.pc = "scriptIssuer", !.card = p[1],
                                                      !.user = p[2], !.todo = @ \ {p}]]
      PROVE  IInv'
  <2>1. p[1] \in CardIds /\ p[2] \in Users
    BY <1>1, <1>3, ConstantsAssumption, Zenon
  <2>2. PICK x \in Request :
          /\ x = [req[r] EXCEPT !.pc = "scriptIssuer", !.card = p[1], !.user = p[2],
                                !.todo = @ \ {p}]
          /\ x.pc = "scriptIssuer" /\ x.card = p[1] /\ x.user = p[2]
          /\ x.todo = req[r].todo \ {p}
    <3> DEFINE x == [req[r] EXCEPT !.pc = "scriptIssuer", !.card = p[1], !.user = p[2],
                                   !.todo = @ \ {p}]
    <3>1. /\ x \in Request /\ x.pc = "scriptIssuer" /\ x.card = p[1] /\ x.user = p[2]
          /\ x.todo = req[r].todo \ {p}
      BY <1>1, <2>1, Zenon DEF Request, PC
    <3> QED
      BY <3>1, Zenon
  <2>3. req' = [req EXCEPT ![r] = x]
    BY <1>3, <2>2
  <2>4. x.pc \notin Virtual \cup Storing
    BY <2>2 DEF Virtual, Storing
  <2>5. CardKnown(x)
    BY <1>1, <2>1, <2>2 DEF CardKnown, Found, Served, Virtual
  <2>6. ListKnown(x)
    BY <1>1, <2>2, <2>4 DEF ListKnown, Storing
  <2> QED
    BY <1>1, <1>5, <2>2, <2>3, <2>4, <2>5, <2>6, MoveStep, Zenon
<1>4. ASSUME NEW p \in req[r].todo, req' = [req EXCEPT ![r] = [req[r] EXCEPT !.todo = @ \ {p}]]
      PROVE  IInv'
  <2>1. PICK x \in Request : /\ x = [req[r] EXCEPT !.todo = @ \ {p}]
                             /\ x.pc = "scriptNext" /\ x.todo = req[r].todo \ {p}
    <3> DEFINE x == [req[r] EXCEPT !.todo = @ \ {p}]
    <3>1. x \in Request /\ x.pc = "scriptNext" /\ x.todo = req[r].todo \ {p}
      BY <1>1 DEF Request
    <3> QED
      BY <3>1, Zenon
  <2>2. req' = [req EXCEPT ![r] = x]
    BY <1>4, <2>1
  <2>3. x.pc \notin Virtual \cup Storing
    BY <2>1 DEF Virtual, Storing
  <2>4. CardKnown(x)
    BY <2>1 DEF CardKnown, Found, Served, Virtual
  <2>5. ListKnown(x)
    BY <1>1, <2>1, <2>3 DEF ListKnown, Storing
  <2> QED
    BY <1>1, <1>5, <2>1, <2>2, <2>3, <2>4, <2>5, MoveStep, Zenon
<1> QED
  BY <1>2, <1>3, <1>4, Zenon DEF ScriptNext

LEMMA ScriptActivateStep ==
    ASSUME IInv, NEW r \in Requests, ScriptActivate(r)
    PROVE  IInv'
<1>1. req[r].pc = "scriptIssuer" /\ req[r].pc \in Served /\ req[r].pc \in Scripting
  BY DEF ScriptActivate, At, Served, Scripting
<1> DEFINE m == IF req[r].user \in WithCustomer THEN req[r].user ELSE None
           w == IF req[r].user \in WithWallet THEN req[r].user ELSE DefaultWallet
<1>2. /\ m \in Users \cup {None} /\ w \in Users \cup {None, DefaultWallet}
      /\ m \in Users => m = req[r].user
      /\ w \in Users => w = req[r].user
      /\ w = DefaultWallet => m \notin WithWallet
  <2>1. req[r].user \in Users
    BY <1>1, ServedKnows, Zenon
  <2> QED
    BY <2>1, ConstantsAssumption
<1>3. PICK rec \in IssuerCard :
        /\ rec = [state |-> "active", customer |-> m, balance |-> w]
        /\ rec.state = "active" /\ rec.customer = m /\ rec.balance = w
  <2> HIDE DEF m, w
  <2> DEFINE new == [state |-> "active", customer |-> m, balance |-> w]
  <2>1. /\ new \in IssuerCard /\ new.state = "active"
        /\ new.customer = m /\ new.balance = w
    BY <1>2 DEF IssuerCard
  <2> QED
    BY <2>1, Zenon
<1>4. PICK a \in BOOLEAN : a <=> IssuerState(r) = "ordered"
  BY Zenon
<1>5. IssuerCall(r, a, rec, "scriptSave", "scriptNext")
  BY <1>3, <1>4 DEF ScriptActivate, IssuerCall
<1>6. SpendsOK(req[r].card, rec)
  <2>1. <<req[r].user, req[r].card>> \in held
    BY <1>1, ServedKnows, Zenon
  <2> HIDE DEF m, w
  <2> QED
    BY <1>2, <1>3, <2>1 DEF SpendsOK
<1> QED
  BY <1>1, <1>3, <1>4, <1>5, <1>6, IssuerCallStep DEF Activated

LEMMA ScriptSaveStep ==
    ASSUME IInv, NEW r \in Requests, ScriptSave(r)
    PROVE  IInv'
<1>1. /\ req[r].pc = "scriptSave" /\ req[r].pc \in Served /\ req[r].pc \in Scripting
      /\ UNCHANGED <<issuer, orderVars>>
  BY DEF ScriptSave, At, Served, Scripting
<1>2. CASE Save(r, [Card(r) EXCEPT !.status = "ACTIVE", !.prosperaCardId = TRUE], "scriptNext")
  <2>1. PICK row \in Row :
          /\ row = [Card(r) EXCEPT !.status = "ACTIVE", !.prosperaCardId = TRUE]
          /\ row.status = "ACTIVE" /\ row.prosperaCardId /\ row.batch = Card(r).batch
    <3> DEFINE row == [Card(r) EXCEPT !.status = "ACTIVE", !.prosperaCardId = TRUE]
    <3>1. Card(r) \in Row
      BY <1>1, ServedKnows, Zenon
    <3>2. /\ row \in Row /\ row.status = "ACTIVE" /\ row.prosperaCardId
          /\ row.batch = Card(r).batch
      BY <3>1, Zenon DEF Row
    <3> QED
      BY <3>2, Zenon
  <2>2. Save(r, row, "scriptNext")
    BY <1>2, <2>1
  <2>3. IssuerState(r) \in Activated
    BY <1>1, KnownCard, Zenon DEF CardKnown, IssuerState
  <2> QED
    BY <1>1, <2>1, <2>2, <2>3, ServedKnows, SaveStep, Zenon
<1>3. CASE Goto(r, "scriptNext") /\ UNCHANGED <<cards, held>>
  <2>1. PICK rec \in IssuerCard : rec = issuer[req[r].card]
    BY <1>1, ServedKnows, Zenon
  <2>2. issuer' = [issuer EXCEPT ![req[r].card] = rec]
    BY <1>1, <2>1, ServedKnows DEF IInv, TypeOK
  <2>3. SpendsOK(req[r].card, rec)
    BY <2>1, SpendsKept
  <2> QED
    BY <1>1, <1>3, <2>1, <2>2, <2>3, AfterCall, Zenon DEF IssuerState
<1> QED
  BY <1>2, <1>3 DEF ScriptSave

-----------------------------------------------------------------------------
LEMMA InitIInv == Init => IInv
<1> SUFFICES ASSUME Init PROVE IInv
  OBVIOUS
<1>1. /\ \A r \in Requests : req[r] = IdleRequest
      /\ \A c \in CardIds : cards[c] = NoRow /\ issuer[c] = NewCard
  BY DEF Init
<1>2. NoRow \in Row /\ NoRow.status = "ABSENT" /\ NoRow.userId = None /\ ~NoRow.batch
  BY DEF NoRow, Row
<1>3. /\ NewCard \in IssuerCard /\ NewCard.state = "none"
      /\ NewCard.customer = None /\ NewCard.balance = None
  BY DEF NewCard, IssuerCard
<1>4. TypeOK
  BY <1>2, <1>3, IdleOK DEF Init, TypeOK
<1>5. \A r \in Requests : RequestOK(req[r]) /\ Making(req[r]) = {}
  BY <1>1, IdleOK
<1>6. \A c \in CardIds : RowOK(c)
  BY <1>1, <1>2 DEF RowOK
<1>7. ActiveOnlyIfActivated /\ SpendsForHolder /\ OrderedCardsRecorded
  BY <1>1, <1>2, <1>3, ConstantsAssumption
  DEF ActiveOnlyIfActivated, SpendsForHolder, OrderedCardsRecorded
<1> QED
  BY <1>4, <1>5, <1>6, <1>7 DEF IInv, MakersApart

LEMMA HandlerIInv ==
    ASSUME IInv, NEW r \in Requests, Handler(r)
    PROVE  IInv'
<1>1. CASE validateCardOwnership(r) \/ validateCardPin(r)
  BY <1>1, OwnershipStep, PinStep
<1>2. CASE activateCard(r) \/ ActivateAtIssuer(r) \/ ActivateInfo(r) \/ ActivateSave(r)
  BY <1>2, ActivateCardStep, ActivateAtIssuerStep, ActivateInfoStep, ActivateSaveStep
<1>3. CASE getCardDetailsById(r) \/ showCardCvv(r) \/ stopCard(r) \/ unstopCard(r)
  BY <1>3, AskIssuerStep, StopStep DEF getCardDetailsById, showCardCvv
<1>4. CASE unlinkCard(r) \/ assignCard(r)
  BY <1>4, UnlinkStep, AssignStep
<1>5. CASE PickFromInventory(r) \/ TakeFromInventory(r) \/ createPickup(r)
  BY <1>5, InventoryStep, TakeStep
<1>6. CASE bulkOrderCard(r) \/ SaveBatch(r) \/ createCard(r)
  BY <1>6, BulkOrderStep, SaveBatchStep, CreateCardStep
<1>7. CASE handleBulkOrderCardNotification(r) \/ SaveBulkCards(r) \/ SaveCardsForUsers(r)
  BY <1>7, NotifyStep, SaveBulkStep, SaveForUsersStep
<1>8. CASE ScriptNext(r) \/ ScriptActivate(r) \/ ScriptSave(r)
  BY <1>8, ScriptNextStep, ScriptActivateStep, ScriptSaveStep
<1> QED
  BY <1>1, <1>2, <1>3, <1>4, <1>5, <1>6, <1>7, <1>8 DEF Handler

LEMMA NextIInv == IInv /\ [Next]_vars => IInv'
<1> SUFFICES ASSUME IInv, [Next]_vars PROVE IInv'
  OBVIOUS
<1>1. ASSUME NEW r \in Requests, NEW u \in Users, NEW c \in CardIds,
             AssignRequest(r, u, c) \/ \E op \in CardOperations : CardRequest(r, op, u, c)
      PROVE  IInv'
  BY <1>1, AssignRequestStep, CardRequestStep
<1>2. ASSUME NEW r \in Requests, NEW u \in Users,
             createVirtualCard(r, u) \/ requestPhysicalCard(r, u)
      PROVE  IInv'
  BY <1>2, VirtualStep, RequestPhysicalCardStep
<1>3. ASSUME NEW r \in Requests, NEW b \in SUBSET CardIds, Notification(r, b) PROVE IInv'
  BY <1>3, NotificationStep
<1>4. ASSUME NEW r \in Requests,
             \/ requestBulkCardsNoUser(r) \/ requestPhysicalCardsForUsers(r)
             \/ activatePhysicalCards(r) \/ Handler(r) \/ Abort(r)
      PROVE  IInv'
  BY <1>4, OrderScriptsStep, ActivateScriptStep, HandlerIInv, AbortStep
<1>5. CASE UNCHANGED vars
  <2>1. UNCHANGED <<cards, batches, issuer, orders, held, lost, req>>
    BY <1>5 DEF vars
  <2>2. \A r \in Requests : CardKnown(req[r])'
    BY <2>1, KnownCard, Zenon DEF CardKnown
  <2>3. \A r \in Requests : ListKnown(req[r])'
    BY <2>1, KnownCard, Zenon DEF ListKnown, Numbers
  <2>4. \A r \in Requests : Making(req[r])' = Making(req[r])
    BY <2>1 DEF Making, Numbers
  <2>5. \A r \in Requests : RequestOK(req[r])'
    BY <2>1, <2>2, <2>3, <2>4, KnownCard, Zenon DEF RequestOK
  <2>6. MakersApart' /\ \A c \in CardIds : RowOK(c)'
    BY <2>1, <2>4, Zenon DEF IInv, MakersApart, RowOK
  <2>7. TypeOK' /\ ActiveOnlyIfActivated' /\ SpendsForHolder' /\ OrderedCardsRecorded'
    BY <2>1 DEF IInv, TypeOK, ActiveOnlyIfActivated, SpendsForHolder, OrderedCardsRecorded, BatchOf
  <2> QED
    BY <2>5, <2>6, <2>7 DEF IInv
<1> QED
  BY <1>1, <1>2, <1>3, <1>4, <1>5 DEF Next

\* However requests, scripts and lost answers interleave, the issuer is asked to serve a
\* card only for a user who held it.
THEOREM OnlyHoldersServedThm == Spec => []OnlyHoldersServed
<1>1. IInv => OnlyHoldersServed
  BY KnownCard, Zenon DEF CardKnown, OnlyHoldersServed, Served
<1> QED
  BY <1>1, InitIInv, NextIInv, PTL DEF Spec

\* The type invariant of Cards.
THEOREM TypeCorrect == Spec => []TypeOK
<1>1. IInv => TypeOK
  BY DEF IInv
<1> QED
  BY <1>1, InitIInv, NextIInv, PTL DEF Spec

\* A card is shown as ACTIVE or BLOCKED only after the issuer activated it, whichever
\* handler wrote the row last.
THEOREM ActiveOnlyIfActivatedThm == Spec => []ActiveOnlyIfActivated
<1>1. IInv => ActiveOnlyIfActivated
  BY DEF IInv
<1> QED
  BY <1>1, InitIInv, NextIInv, PTL DEF Spec

\* A physical card is activated for, and spends from the wallet of, someone who held it;
\* on wallet 1 only by the script, for an owner without wallet.
THEOREM SpendsForHolderThm == Spec => []SpendsForHolder
<1>1. IInv => SpendsForHolder
  BY DEF IInv
<1> QED
  BY <1>1, InitIInv, NextIInv, PTL DEF Spec

\* No card is ordered and then forgotten without an error, whichever of handler, script and
\* notification creates its batch record first.
THEOREM OrderedCardsRecordedThm == Spec => []OrderedCardsRecorded
<1>1. IInv => OrderedCardsRecorded
  BY DEF IInv
<1> QED
  BY <1>1, InitIInv, NextIInv, PTL DEF Spec

\* What a step may do to the owner of a card.
OwnersKept ==
    \A c \in CardIds : cards[c].userId # None /\ cards'[c].userId = None
                            => issuer[c].state = "retired"

LEMMA SaveKeepsOwner ==
    ASSUME IInv, NEW r \in Requests, NEW row, NEW l, Save(r, row, l),
           req[r].card \in CardIds,
           row.userId = None => Card(r).userId = None \/ IssuerState(r) = "retired"
    PROVE  OwnersKept
<1>1. cards' = [cards EXCEPT ![req[r].card] = row]
  BY Zenon DEF Save
<1> QED
  BY <1>1 DEF OwnersKept, Card, IssuerState, IInv, TypeOK

LEMMA FoundTyped ==
    ASSUME IInv, NEW r \in Requests, req[r].pc \in Found \cup Virtual
    PROVE  req[r].card \in CardIds /\ req[r].user \in Users /\ Card(r) \in Row
<1>1. req[r].card \in CardIds /\ req[r].user \in Users
  BY KnownCard, Zenon DEF CardKnown
<1> QED
  BY <1>1, Zenon DEF Card, IInv, TypeOK

\* Handlers that write the row of a card they found, or the row of a new virtual card.
LEMMA SavesKeepOwner ==
    ASSUME IInv, NEW r \in Requests,
           \/ ActivateSave(r) \/ stopCard(r) \/ unstopCard(r) \/ unlinkCard(r) \/ assignCard(r)
           \/ TakeFromInventory(r) \/ ScriptSave(r) \/ \E u \in Users : createVirtualCard(r, u)
    PROVE  OwnersKept
<1>1. CASE UNCHANGED cards
  BY <1>1, Zenon DEF OwnersKept
<1>2. ASSUME NEW row, NEW l, Save(r, row, l), req[r].pc \in Served,
             \/ row = [Card(r) EXCEPT !.status = "ACTIVE", !.prosperaCardId = TRUE]
             \/ row = [Card(r) EXCEPT !.status = "ACTIVE"]
             \/ row = [Card(r) EXCEPT !.status = "BLOCKED"]
      PROVE  OwnersKept
  <2>1. Card(r) \in Row /\ req[r].card \in CardIds
    BY <1>2, FoundTyped DEF Found
  <2>2. row.userId = Card(r).userId
    BY <1>2, <2>1, Zenon DEF Row
  <2> QED
    BY <1>2, <2>1, <2>2, SaveKeepsOwner
<1>3. ASSUME NEW l, Save(r, [Card(r) EXCEPT !.userId = req[r].user], l),
             req[r].pc \in {"assignSave", "take"}
      PROVE  OwnersKept
  <2>1. Card(r) \in Row /\ req[r].card \in CardIds /\ req[r].user \in Users
    BY <1>3, FoundTyped DEF Found
  <2>2. [Card(r) EXCEPT !.userId = req[r].user].userId # None
    BY <2>1, ConstantsAssumption DEF Row
  <2> QED
    BY <1>3, <2>1, <2>2, SaveKeepsOwner, Zenon
<1>4. CASE UnlinkSave(r, "idle")
  <2>1. req[r].pc = "unlinkSave" /\ req[r].pc \in Found
    BY <1>4 DEF UnlinkSave, At, Found, Served
  <2>2. IssuerState(r) = "retired" /\ req[r].card \in CardIds
    BY <2>1, KnownCard, FoundTyped, Zenon DEF CardKnown, IssuerState
  <2> QED
    BY <1>4, <2>2, SaveKeepsOwner DEF UnlinkSave
<1>5. ASSUME NEW u \in Users, At(r, "virtualSave"),
             Save(r, [NoRow EXCEPT !.status = "ACTIVE", !.userId = u,
                                   !.prosperaCardId = TRUE], "idle")
      PROVE  OwnersKept
  <2>1. [NoRow EXCEPT !.status = "ACTIVE", !.userId = u, !.prosperaCardId = TRUE].userId # None
    BY ConstantsAssumption DEF NoRow
  <2>2. req[r].card \in CardIds
    BY <1>5, FoundTyped DEF At, Virtual
  <2> QED
    BY <1>5, <2>1, <2>2, SaveKeepsOwner, Zenon
<1>6. CASE ActivateSave(r) \/ ScriptSave(r)
  BY <1>1, <1>2, <1>6 DEF ActivateSave, ScriptSave, At, Served
<1>7. CASE stopCard(r) \/ unstopCard(r)
  BY <1>1, <1>2, <1>7 DEF stopCard, unstopCard, ReadIssued, IssuerCall, At, Served
<1>8. CASE unlinkCard(r)
  BY <1>1, <1>4, <1>8 DEF unlinkCard, UnlinkRead, RetireCard, IssuerCall
<1>9. CASE assignCard(r) \/ TakeFromInventory(r)
  BY <1>1, <1>3, <1>9 DEF assignCard, TakeFromInventory, At
<1>10. CASE \E u \in Users : createVirtualCard(r, u)
  BY <1>1, <1>5, <1>10, Zenon DEF createVirtualCard
<1> QED
  BY <1>6, <1>7, <1>8, <1>9, <1>10

\* Handlers that write rows of orders.
LEMMA StoresKeepOwner ==
    ASSUME IInv, NEW r \in Requests,
           \/ createCard(r) \/ SaveCardsForUsers(r)
           \/ handleBulkOrderCardNotification(r) \/ SaveBulkCards(r)
    PROVE  OwnersKept
<1>1. CASE createCard(r) \/ SaveCardsForUsers(r)
  <2>1. PICK p \in req[r].todo, status \in {"PENDING", "INACTIVE"} :
          At(r, "saveCards") /\ cards' = [cards EXCEPT ![p[1]] = OrderedRow(p[2], status)]
    <3>1. CASE createCard(r)
      BY <3>1, Zenon DEF createCard, StoreCard
    <3>2. CASE SaveCardsForUsers(r)
      BY <3>2, Zenon DEF SaveCardsForUsers, StoreCard
    <3> QED
      BY <1>1, <3>1, <3>2
  <2>2. p[2] # None
    <3>1. p[2] \in Users
      BY <2>1, KnownCard, Zenon DEF ListKnown, At
    <3> QED
      BY <3>1, ConstantsAssumption
  <2>3. OrderedRow(p[2], status).userId = p[2]
    BY DEF OrderedRow, NoRow
  <2> QED
    BY <2>1, <2>2, <2>3, Zenon DEF OwnersKept, IInv, TypeOK
<1>2. CASE handleBulkOrderCardNotification(r)
  <2>1. \A c \in CardIds : [cards[c] EXCEPT !.prosperaCardId = TRUE].userId = cards[c].userId
    <3>1. \A c \in CardIds : cards[c] \in Row
      BY DEF IInv, TypeOK
    <3> QED
      BY <3>1 DEF Row
  <2> QED
    BY <1>2, <2>1 DEF handleBulkOrderCardNotification, OwnersKept
<1>3. CASE SaveBulkCards(r)
  <2>1. /\ req[r].pc = "saveAll" /\ createBulkBatch(r, "idle", BatchOf(r))
        /\ cards' = [c \in CardIds |-> IF c \in BatchOf(r) /\ BatchOf(r) \notin batches
                                       THEN OrderedRow(None, "INACTIVE") ELSE cards[c]]
    BY <1>3 DEF SaveBulkCards, At
  <2>2. \A c \in CardIds : c \in BatchOf(r) => c \in Making(req[r])
    BY <2>1, BatchCards DEF Making, Storing
  <2>3. \A c \in CardIds : c \in BatchOf(r) => cards[c] = NoRow
    BY <2>2, KnownCard, Zenon DEF RequestOK, IInv, RowOK
  <2>4. \A c \in CardIds : c \in BatchOf(r) => cards[c].userId = None
    <3>1. NoRow.userId = None
      BY DEF NoRow
    <3> QED
      BY <2>3, <3>1
  <2> QED
    BY <2>1, <2>4 DEF OwnersKept
<1> QED
  BY <1>1, <1>2, <1>3

\* All other steps leave the rows alone.
LEMMA OthersKeepRows ==
    ASSUME NEW r \in Requests, Handler(r)
    PROVE  \/ UNCHANGED cards
           \/ ActivateSave(r) \/ stopCard(r) \/ unstopCard(r) \/ unlinkCard(r) \/ assignCard(r)
           \/ TakeFromInventory(r) \/ ScriptSave(r)
           \/ createCard(r) \/ SaveCardsForUsers(r)
           \/ handleBulkOrderCardNotification(r) \/ SaveBulkCards(r)
<1>1. validateCardOwnership(r) \/ validateCardPin(r) \/ activateCard(r) \/ ActivateInfo(r)
        => UNCHANGED cards
  BY DEF validateCardOwnership, validateCardPin, activateCard, ActivateInfo
<1>2. ActivateAtIssuer(r) \/ ScriptActivate(r) \/ getCardDetailsById(r) \/ showCardCvv(r)
        => UNCHANGED cards
  BY Zenon DEF ActivateAtIssuer, ScriptActivate, getCardDetailsById, showCardCvv, AskIssuer,
     IssuerCall
<1>3. PickFromInventory(r) \/ createPickup(r) \/ bulkOrderCard(r) \/ SaveBatch(r) \/ ScriptNext(r)
        => UNCHANGED cards
  BY Zenon DEF PickFromInventory, createPickup, bulkOrderCard, SaveBatch, ScriptNext
<1> QED
  BY <1>1, <1>2, <1>3 DEF Handler

\* A card is given up only after the issuer retired it, whatever other handlers write the
\* row meanwhile.
THEOREM UnlinkedIsRetiredThm == Spec => UnlinkedIsRetired
<1>1. IInv /\ [Next]_vars => [OwnersKept]_vars
  <2> SUFFICES ASSUME IInv, Next PROVE OwnersKept
    OBVIOUS
  <2>1. ASSUME NEW r \in Requests, Handler(r) PROVE OwnersKept
    BY <2>1, OthersKeepRows, SavesKeepOwner, StoresKeepOwner, Zenon DEF OwnersKept
  <2>2. ASSUME NEW r \in Requests, NEW u \in Users, createVirtualCard(r, u) PROVE OwnersKept
    BY <2>2, SavesKeepOwner
  <2>3. CASE UNCHANGED cards
    BY <2>3 DEF OwnersKept
  <2>4. ASSUME NEW r \in Requests,
               \/ \E op \in CardOperations, u \in Users, c \in CardIds : CardRequest(r, op, u, c)
               \/ \E u \in Users, c \in CardIds : AssignRequest(r, u, c)
               \/ \E u \in Users : requestPhysicalCard(r, u)
               \/ \E b \in SUBSET CardIds : Notification(r, b)
               \/ requestBulkCardsNoUser(r) \/ requestPhysicalCardsForUsers(r)
               \/ activatePhysicalCards(r) \/ Abort(r)
        PROVE  UNCHANGED cards
    BY <2>4, Zenon DEF CardRequest, AssignRequest, requestPhysicalCard, Notification,
       requestBulkCardsNoUser, requestPhysicalCardsForUsers, activatePhysicalCards, StartScript,
       Abort
  <2> QED
    BY <2>1, <2>2, <2>3, <2>4 DEF Next
<1> QED
  BY <1>1, InitIInv, NextIInv, PTL DEF Spec, UnlinkedIsRetired, OwnersKept
=============================================================================
