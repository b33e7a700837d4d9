-------------------------- MODULE BoundedQueueProofs --------------------------
(***************************************************************************)
(* Proofs about BoundedQueue: its inductive invariant, that it implements  *)
(* Exchange, the assertions of the source, the capacity and the size, for  *)
(* any sets of threads, any capacity, any number of micro queues that 3    *)
(* does not divide, and pages of any size.  Where a thread aborts, at most *)
(* one pops (LoneAborts).                                                  *)
(***************************************************************************)
EXTENDS BoundedQueue, FiniteSetTheorems, TLAPS

(* Tickets, turns and pages. *)

\* Division with remainder is unique.
LEMMA Division ==
    ASSUME NEW b \in Nat \ {0}, NEW a \in Int
    PROVE  /\ a \div b \in Int /\ a % b \in 0 .. b - 1
           /\ a = b * (a \div b) + (a % b)
    OBVIOUS

LEMMA DivisionUnique ==
    ASSUME NEW a \in Int, NEW b \in Nat \ {0}, NEW q \in Int, NEW r \in 0 .. b - 1, a = b * q + r
    PROVE  a \div b = q /\ a % b = r
    OBVIOUS

LEMMA Divided ==
    ASSUME NEW b \in Nat \ {0}, NEW a \in Int
    PROVE  \E q \in Int, r \in 0 .. b - 1 : a = b * q + r /\ a \div b = q /\ a % b = r
    BY Division

LEMMA Monotone ==
    ASSUME NEW b \in Nat \ {0}, NEW p \in Int, NEW q \in Int
    PROVE  /\ b * p <= b * q <=> p <= q
           /\ b * p = b * q <=> p = q
           /\ b * (p + 1) = b * p + b
           /\ b * p \in Int
    OBVIOUS

LEMMA Distribute ==
    ASSUME NEW b \in Int, NEW x \in Int, NEW y \in Int
    PROVE  /\ b * (x + y) = b * x + b * y
           /\ (b * x) * y = b * (x * y) /\ b * (x * y) = (b * x) * y
           /\ b * x = x * b
    OBVIOUS

\* A ticket is its round and its place in the round.
LEMMA RoundOf ==
    ASSUME NEW t \in Nat
    PROVE  \E r \in Nat, i \in 0 .. NQueue - 1 :
              /\ t = NQueue * r + i /\ t \div NQueue = r /\ t % NQueue = i
              /\ Turn(t) = NQueue * r /\ Slot(t) = r % PerPage
<1>1. NQueue \in Nat \ {0}
    BY QueueAssumption
<1> DEFINE r == t \div NQueue
           i == t % NQueue
<1>2. r \in Int /\ i \in 0 .. NQueue - 1 /\ t = NQueue * r + i
    BY <1>1, Division
<1>3. r \in Nat
    <2>1. NQueue * r > NQueue * (-1)
        BY <1>1, <1>2
    <2> QED BY <2>1, <1>1, <1>2, Monotone
<1> QED BY <1>1, <1>2, <1>3 DEF Turn, Slot

LEMMA IndexTyped ==
    ASSUME NEW t \in Nat
    PROVE  Queue(t) \in 0 .. NQueue - 1
    BY QueueAssumption, Division DEF Queue

\* index() of a ticket is index() of its place in the round.
LEMMA IndexOfPlace ==
    ASSUME NEW r \in Nat, NEW i \in 0 .. NQueue - 1
    PROVE  \E j \in 0 .. 2 : 3 * i = NQueue * j + Queue(NQueue * r + i)
<1>1. NQueue \in Nat \ {0}
    BY QueueAssumption
<1> DEFINE j == (3 * i) \div NQueue
           m == (3 * i) % NQueue
<1>2. j \in Int /\ m \in 0 .. NQueue - 1 /\ 3 * i = NQueue * j + m
    BY <1>1, Division
<1>3. j \in 0 .. 2
    <2>1. NQueue * j > NQueue * (-1) /\ NQueue * j < NQueue * 3
        BY <1>1, <1>2
    <2> QED BY <2>1, <1>1, <1>2, Monotone
<1>4. (NQueue * r + i) * 3 = NQueue * (3 * r + j) + m
    <2>1. NQueue * (3 * r + j) = NQueue * (3 * r) + NQueue * j
        BY <1>1, <1>2, Distribute
    <2>2. NQueue * (r * 3) = (NQueue * r) * 3 /\ NQueue * r \in Int /\ NQueue * j \in Int
        BY <1>1, <1>2, Distribute
    <2> QED BY <2>1, <2>2, <1>1, <1>2
<1>5. (NQueue * r + i) * 3 \in Int /\ 3 * r + j \in Int
    BY <1>1, <1>2
<1>6. Queue(NQueue * r + i) = m
    BY <1>1, <1>2, <1>4, <1>5, DivisionUnique DEF Queue
<1> QED BY <1>2, <1>3, <1>6

LEMMA IndexIs ==
    ASSUME NEW t \in Nat, NEW x \in Int, NEW q \in 0 .. NQueue - 1, t * 3 = NQueue * x + q
    PROVE  Queue(t) = q
<1>1. NQueue \in Nat \ {0} /\ t * 3 \in Int
    BY QueueAssumption
<1> QED BY <1>1, DivisionUnique DEF Queue

LEMMA NotThrice ==
    ASSUME NEW x \in Int
    PROVE  NQueue # 3 * x /\ 2 * NQueue # 3 * x
    BY QueueAssumption

\* A micro queue and a turn belong to one ticket.
LEMMA OneTicket ==
    ASSUME NEW t \in Nat, NEW u \in Nat, Queue(t) = Queue(u), Turn(t) = Turn(u)
    PROVE  t = u
<1>1. NQueue \in Nat \ {0}
    BY QueueAssumption
<1>2. PICK r \in Nat, i \in 0 .. NQueue - 1 : t = NQueue * r + i /\ Turn(t) = NQueue * r
    BY RoundOf
<1>3. PICK s \in Nat, l \in 0 .. NQueue - 1 : u = NQueue * s + l /\ Turn(u) = NQueue * s
    BY RoundOf
<1>4. r = s
    BY <1>1, <1>2, <1>3, Monotone
<1>5. PICK j \in 0 .. 2 : 3 * i = NQueue * j + Queue(t)
    BY <1>2, IndexOfPlace
<1>6. PICK m \in 0 .. 2 : 3 * l = NQueue * m + Queue(u)
    BY <1>3, IndexOfPlace
<1>7. Queue(t) \in Int
    BY IndexTyped
<1>8. i - l \in Int /\ l - i \in Int
    OBVIOUS
<1>9. NQueue # 3 * (i - l) /\ 2 * NQueue # 3 * (i - l) /\ NQueue # 3 * (l - i) /\ 2 * NQueue # 3 * (l - i)
    BY <1>8, NotThrice
<1>10. j = m
    BY <1>1, <1>5, <1>6, <1>7, <1>9
<1> QED BY <1>1, <1>2, <1>3, <1>4, <1>5, <1>6, <1>7, <1>10

\* Every micro queue has a ticket in every round.
LEMMA TicketOf ==
    ASSUME NEW q \in 0 .. NQueue - 1, NEW m \in Nat, m % NQueue = 0
    PROVE  \E t \in Nat : Queue(t) = q /\ Turn(t) = m
<1>1. NQueue \in Nat \ {0}
    BY QueueAssumption
<1>2. PICK j \in 0 .. 2, i \in Nat : 3 * i = NQueue * j + q
    <2>1. PICK j \in 0 .. 2 : (NQueue * j + q) % 3 = 0
        BY QueueAssumption
    <2>2. NQueue * j + q \in Nat
        BY QueueAssumption
    <2>3. 3 * ((NQueue * j + q) \div 3) = NQueue * j + q /\ (NQueue * j + q) \div 3 \in Nat
        BY <2>1, <2>2
    <2> QED BY <2>3
<1>3. i < NQueue
    BY <1>1, <1>2
<1>4. PICK r \in Int : m = NQueue * r
    <2>1. m \in Int
        OBVIOUS
    <2>2. m \div NQueue \in Int /\ m = NQueue * (m \div NQueue) + (m % NQueue)
        BY <2>1, <1>1, Division
    <2>3. m = NQueue * (m \div NQueue)
        BY <2>2, <1>1
    <2> QED BY <2>2, <2>3, Zenon
<1>5. PICK t \in Nat : t = m + i
    OBVIOUS
<1>6. t % NQueue = i
    <2>1. t = NQueue * r + i /\ t \in Nat /\ r \in Int /\ i \in 0 .. NQueue - 1
        BY <1>1, <1>2, <1>3, <1>4, <1>5
    <2> QED BY <2>1, <1>1, <1>2, <1>3, <1>4, DivisionUnique
<1>7. Turn(t) = m
    BY <1>5, <1>6, <1>2 DEF Turn
<1>8. t * 3 \in Int /\ 3 * r + j \in Int /\ q \in 0 .. NQueue - 1
    BY <1>1, <1>2, <1>4, <1>5
<1>9. t * 3 = NQueue * (3 * r + j) + q
    <2>1. NQueue * (3 * r + j) = NQueue * (3 * r) + NQueue * j
        BY <1>1, <1>2, <1>4, Distribute
    <2>2. NQueue * (r * 3) = (NQueue * r) * 3 /\ NQueue * r \in Int /\ NQueue * j \in Int
        BY <1>1, <1>2, <1>4, Distribute
    <2> QED BY <2>1, <2>2, <1>1, <1>2, <1>4, <1>5
<1>10. Queue(t) = q
    BY <1>8, <1>9, IndexIs
<1> QED BY <1>7, <1>10

LEMMA TicketTyped ==
    ASSUME NEW t \in Nat
    PROVE  /\ Queue(t) \in 0 .. NQueue - 1
           /\ Turn(t) \in Nat /\ Turn(t) <= t /\ Turn(t) % NQueue = 0
           /\ Slot(t) \in 0 .. PerPage - 1
<1>1. NQueue \in Nat \ {0} /\ PerPage \in Nat \ {0}
    BY QueueAssumption
<1>2. PICK r \in Nat, i \in 0 .. NQueue - 1 :
          t = NQueue * r + i /\ Turn(t) = NQueue * r /\ Slot(t) = r % PerPage
    BY RoundOf
<1>3. Turn(t) % NQueue = 0
    <2>1. Turn(t) = NQueue * r + 0 /\ Turn(t) \in Int /\ r \in Int /\ 0 \in 0 .. NQueue - 1
        BY <1>1, <1>2
    <2> HIDE DEF Turn
    <2> QED BY <2>1, <1>1, DivisionUnique, Zenon
<1>4. Turn(t) \in Nat /\ Turn(t) <= t
    <2>1. NQueue * r >= NQueue * 0
        BY <1>1, Monotone
    <2> QED BY <2>1, <1>1, <1>2
<1>5. Slot(t) \in 0 .. PerPage - 1
    BY <1>1, <1>2, Division
<1> QED BY <1>3, <1>4, <1>5, IndexTyped

\* Turns are apart by the number of micro queues.
LEMMA TurnsApart ==
    ASSUME NEW a \in Int, NEW b \in Int, a % NQueue = 0, b % NQueue = 0
    PROVE  /\ a < b => a + NQueue <= b
           /\ (a + NQueue) % NQueue = 0
<1>1. NQueue \in Nat \ {0}
    BY QueueAssumption
<1>2. PICK x \in Int, y \in Int : a = NQueue * x /\ b = NQueue * y
    <2>1. /\ a = NQueue * (a \div NQueue) /\ a \div NQueue \in Int
          /\ b = NQueue * (b \div NQueue) /\ b \div NQueue \in Int
        BY <1>1, Division
    <2> QED BY <2>1
<1>3. a + NQueue = NQueue * (x + 1) + 0
    BY <1>1, <1>2
<1>4. a < b => x + 1 <= y
    BY <1>1, <1>2, Monotone
<1> QED BY <1>1, <1>2, <1>3, <1>4, Monotone, DivisionUnique

LEMMA PageNoTyped ==
    ASSUME NEW a \in Int, NEW b \in Int, a <= b
    PROVE  PageNo(a) \in Int /\ PageNo(a) <= PageNo(b)
<1> DEFINE d == NQueue * PerPage
<1>1. d \in Nat \ {0}
    BY QueueAssumption
<1> HIDE DEF d
<1>2. /\ a \div d \in Int /\ a % d \in 0 .. d - 1 /\ a = d * (a \div d) + (a % d)
      /\ b \div d \in Int /\ b % d \in 0 .. d - 1 /\ b = d * (b \div d) + (b % d)
    BY <1>1, Division
<1>3. d * (b \div d + 1) > d * (a \div d)
    BY <1>1, <1>2
<1>4. a \div d <= b \div d
    BY <1>1, <1>2, <1>3, Monotone
<1> QED BY <1>2, <1>4 DEF PageNo, d

\* The page of a turn, by rounds.
LEMMA PageOfRound ==
    ASSUME NEW r \in Int
    PROVE  PageNo(NQueue * r) = r \div PerPage
<1>1. NQueue \in Nat \ {0} /\ PerPage \in Nat \ {0}
    BY QueueAssumption
<1>2. PICK g \in Int, s \in 0 .. PerPage - 1 : r = PerPage * g + s /\ r \div PerPage = g
    BY <1>1, Divided
<1>3. NQueue * r = (NQueue * PerPage) * g + NQueue * s
    <2>1. NQueue * r = NQueue * (PerPage * g) + NQueue * s
        BY <1>1, <1>2, Distribute
    <2>2. NQueue * (PerPage * g) = (NQueue * PerPage) * g
        BY <1>1, <1>2, Distribute
    <2> QED BY <2>1, <2>2
<1>4. NQueue * s \in 0 .. (NQueue * PerPage) - 1
    <2>1. NQueue * s <= NQueue * (PerPage - 1) /\ NQueue * 0 <= NQueue * s
        BY <1>1, <1>2, Monotone
    <2>2. NQueue * (PerPage - 1) = NQueue * PerPage - NQueue
        BY <1>1
    <2> QED BY <1>1, <1>2, <2>1, <2>2
<1>5. NQueue * PerPage \in Nat \ {0}
    BY <1>1
<1> QED BY <1>2, <1>3, <1>4, <1>5, DivisionUnique DEF PageNo

\* A page and a slot in it belong to one turn.
LEMMA OneTurn ==
    ASSUME NEW t \in Nat, NEW u \in Nat,
           Slot(t) = Slot(u), PageNo(Turn(t)) = PageNo(Turn(u))
    PROVE  Turn(t) = Turn(u)
<1>1. PerPage \in Nat \ {0}
    BY QueueAssumption
<1>2. PICK r \in Nat : Turn(t) = NQueue * r /\ Slot(t) = r % PerPage
    BY RoundOf
<1>3. PICK s \in Nat : Turn(u) = NQueue * s /\ Slot(u) = s % PerPage
    BY RoundOf
<1>4. r \div PerPage = s \div PerPage
    BY <1>2, <1>3, PageOfRound
<1>5. r = s
    <2>1. /\ r = PerPage * (r \div PerPage) + (r % PerPage)
          /\ s = PerPage * (s \div PerPage) + (s % PerPage)
        BY <1>1, Division
    <2> QED BY <2>1, <1>2, <1>3, <1>4
<1> QED BY <1>2, <1>3, <1>5

\* The first slot of a page begins it, the last one ends it.
LEMMA PageBounds ==
    ASSUME NEW t \in Nat
    PROVE  /\ Slot(t) = 0 => PageNo(Turn(t)) = PageNo(Turn(t) - NQueue) + 1
           /\ Slot(t) # 0 => PageNo(Turn(t)) = PageNo(Turn(t) - NQueue)
           /\ Slot(t) = PerPage - 1 => PageNo(Turn(t) + NQueue) = PageNo(Turn(t)) + 1
           /\ Slot(t) # PerPage - 1 => PageNo(Turn(t) + NQueue) = PageNo(Turn(t))
<1>1. NQueue \in Nat \ {0} /\ PerPage \in Nat \ {0}
    BY QueueAssumption
<1>2. PICK r \in Nat : Turn(t) = NQueue * r /\ Slot(t) = r % PerPage
    BY RoundOf
<1>3. /\ Turn(t) - NQueue = NQueue * (r - 1)
      /\ Turn(t) + NQueue = NQueue * (r + 1)
    BY <1>1, <1>2
<1>4. /\ PageNo(Turn(t)) = r \div PerPage
      /\ PageNo(Turn(t) - NQueue) = (r - 1) \div PerPage
      /\ PageNo(Turn(t) + NQueue) = (r + 1) \div PerPage
    BY <1>2, <1>3, PageOfRound
<1>5. PICK g \in Int, s \in 0 .. PerPage - 1 :
          r = PerPage * g + s /\ r \div PerPage = g /\ r % PerPage = s
    BY <1>1, Divided
<1>6. r - 1 \in Int /\ r + 1 \in Int /\ g - 1 \in Int /\ g + 1 \in Int
    BY <1>5
<1>7. s = 0 => (r - 1) \div PerPage = g - 1
    <2> SUFFICES ASSUME s = 0 PROVE (r - 1) \div PerPage = g - 1
        OBVIOUS
    <2>1. r - 1 = PerPage * (g - 1) + (PerPage - 1) /\ PerPage - 1 \in 0 .. PerPage - 1
        BY <1>1, <1>5, Distribute
    <2> QED BY <2>1, <1>1, <1>6, DivisionUnique
<1>8. s # 0 => (r - 1) \div PerPage = g
    <2> SUFFICES ASSUME s # 0 PROVE (r - 1) \div PerPage = g
        OBVIOUS
    <2>1. r - 1 = PerPage * g + (s - 1) /\ s - 1 \in 0 .. PerPage - 1
        BY <1>1, <1>5
    <2> QED BY <2>1, <1>1, <1>6, DivisionUnique
<1>9. s = PerPage - 1 => (r + 1) \div PerPage = g + 1
    <2> SUFFICES ASSUME s = PerPage - 1 PROVE (r + 1) \div PerPage = g + 1
        OBVIOUS
    <2>1. r + 1 = PerPage * (g + 1) + 0 /\ 0 \in 0 .. PerPage - 1
        BY <1>1, <1>5, Distribute
    <2> QED BY <2>1, <1>1, <1>6, DivisionUnique
<1>10. s # PerPage - 1 => (r + 1) \div PerPage = g
    <2> SUFFICES ASSUME s # PerPage - 1 PROVE (r + 1) \div PerPage = g
        OBVIOUS
    <2>1. r + 1 = PerPage * g + (s + 1) /\ s + 1 \in 0 .. PerPage - 1
        BY <1>1, <1>5
    <2> QED BY <2>1, <1>1, <1>6, DivisionUnique
<1> QED BY <1>2, <1>4, <1>5, <1>7, <1>8, <1>9, <1>10

-----------------------------------------------------------------------------
(* What the invariant says of one state. *)

\* The types of the shared state without its bounds, which follow from the rest.
TypedState ==
    /\ tail_counter \in 0..MaxTickets /\ head_counter \in Nat
    /\ mhead \in [0..(NQueue - 1) -> Nat] /\ mtail \in [0..(NQueue - 1) -> Nat]
    /\ pages \in [0..(NQueue - 1) -> Seq(Page)]
    /\ pc \in [Threads -> Locs]
    /\ k \in [Producers \cup Consumers -> Nat]
    /\ got \in [Consumers -> Tickets \cup {Absent}]

Core == TypedState /\ PagesInOrder /\ PushesInLine /\ PopsInLine /\ PagesReach /\ StoredPushed

LEMMA Sizes ==
    /\ NQueue \in Nat \ {0} /\ PerPage \in Nat \ {0} /\ Capacity \in Nat /\ MaxTickets \in Nat
    /\ Absent \notin Nat
    /\ Cardinality(Consumers) \in Nat
    /\ Tickets \subseteq Nat /\ Tickets \subseteq AllTickets /\ AllTickets \subseteq Nat
    BY QueueAssumption, FS_CardinalityType DEF Tickets, AllTickets

\* The roles of a thread do not overlap.
LEMMA RolesApart ==
    /\ \A p \in Producers : p \in Threads /\ p \notin Consumers /\ p \notin Aborters
    /\ \A c \in Consumers : c \in Threads /\ c \notin Producers /\ c \notin Aborters
    /\ \A a \in Aborters : a \in Threads /\ a \notin Producers /\ a \notin Consumers
    BY QueueAssumption DEF Threads

LEMMA PageTyped ==
    ASSUME TypedState, NEW q \in 0 .. NQueue - 1, NEW n \in 1 .. Len(pages[q]), NEW i \in 0 .. PerPage - 1
    PROVE  /\ pages[q] \in Seq(Page) /\ Len(pages[q]) \in Nat
           /\ DOMAIN pages = 0 .. NQueue - 1
           /\ pages[q][n] \in Page /\ pages[q][n][i] \in Tickets \cup {Absent}
           /\ DOMAIN pages[q] = 1 .. Len(pages[q]) /\ DOMAIN pages[q][n] = 0 .. PerPage - 1
<1>1. pages[q] \in Seq(Page)
    BY DEF TypedState
<1>2. pages[q][n] \in Page
    BY <1>1
<1>3. DOMAIN pages = 0 .. NQueue - 1 /\ DOMAIN pages[q] = 1 .. Len(pages[q]) /\ Len(pages[q]) \in Nat
    BY <1>1 DEF TypedState
<1>4. DOMAIN pages[q][n] = 0 .. PerPage - 1 /\ pages[q][n][i] \in Tickets \cup {Absent}
    BY <1>2 DEF Page
<1> QED BY <1>1, <1>2, <1>3, <1>4

\* The slots of a micro queue, and what they hold.
Slotted(v) ==
    \E q \in 0 .. NQueue - 1 : \E n \in 1 .. Len(pages[q]) : \E i \in 0 .. PerPage - 1 :
        pages[q][n][i] = v

StoredThere ==
    /\ Stored \subseteq Tickets
    /\ \A v \in Tickets : v \in Stored <=> Slotted(v)

LEMMA StoredIs == TypedState => StoredThere
<1> SUFFICES ASSUME TypedState
             PROVE  StoredThere
    OBVIOUS
<1>1. DOMAIN pages = 0 .. NQueue - 1
    BY DEF TypedState
<1>2. \A q \in 0 .. NQueue - 1 : DOMAIN pages[q] = 1 .. Len(pages[q])
    BY DEF TypedState
<1>3. \A q \in 0 .. NQueue - 1 : \A n \in 1 .. Len(pages[q]) : \A v \in Tickets :
          v \in ToSet(pages[q][n]) <=> \E i \in 0 .. PerPage - 1 : pages[q][n][i] = v
    <2> SUFFICES ASSUME NEW q \in 0 .. NQueue - 1, NEW n \in 1 .. Len(pages[q]), NEW v \in Tickets
                 PROVE  v \in ToSet(pages[q][n]) <=> \E i \in 0 .. PerPage - 1 : pages[q][n][i] = v
        OBVIOUS
    <2>1. pages[q] \in Seq(Page)
        BY DEF TypedState
    <2>2. pages[q][n] \in Page
        BY <2>1
    <2>3. DOMAIN pages[q][n] = 0 .. PerPage - 1
        BY <2>2 DEF Page
    <2> QED BY <2>3 DEF ToSet
<1>4. ASSUME NEW v \in Tickets
      PROVE  v \in Stored <=> Slotted(v)
    <2>1. v \in Stored <=> \E q \in 0 .. NQueue - 1 : \E n \in DOMAIN pages[q] : v \in ToSet(pages[q][n])
        BY <1>1 DEF Stored
    <2>2. \A q \in 0 .. NQueue - 1 :
              (\E n \in DOMAIN pages[q] : v \in ToSet(pages[q][n]))
                  <=> \E n \in 1 .. Len(pages[q]) : v \in ToSet(pages[q][n])
        BY <1>2
    <2>3. \A q \in 0 .. NQueue - 1 : \A n \in 1 .. Len(pages[q]) :
              v \in ToSet(pages[q][n]) <=> \E i \in 0 .. PerPage - 1 : pages[q][n][i] = v
        BY <1>3
    <2>4. (\E q \in 0 .. NQueue - 1 : \E n \in 1 .. Len(pages[q]) : v \in ToSet(pages[q][n]))
              <=> Slotted(v)
        BY <2>3, Zenon DEF Slotted
    <2> QED BY <2>1, <2>2, <2>4, Zenon
<1>5. Stored \subseteq Tickets
    BY DEF Stored
<1> QED BY <1>4, <1>5 DEF StoredThere

LEMMA StoredIsNext == TypedState' => StoredThere'
    BY StoredIs, PTL

\* The place of an item is that of its ticket.
LEMMA PlaceIs ==
    ASSUME Core, NEW q \in 0 .. NQueue - 1, NEW n \in 1 .. Len(pages[q]), NEW i \in 0 .. PerPage - 1,
           pages[q][n][i] # Absent
    PROVE  LET t == pages[q][n][i] IN
           /\ t \in Tickets /\ t \in Stored
           /\ Queue(t) = q /\ Slot(t) = i /\ PageNo(Turn(t)) = PageNo(mhead[q]) + n - 1
<1>1. DOMAIN pages = 0 .. NQueue - 1 /\ DOMAIN pages[q] = 1 .. Len(pages[q])
    BY PageTyped DEF Core
<1>2. pages[q][n][i] \in Tickets
    BY PageTyped DEF Core
<1>3. pages[q][n][i] \in Stored
    BY <1>2, StoredIs DEF Core, StoredThere, Slotted
<1>4. \A m \in DOMAIN pages[q], j \in 0..(PerPage - 1) :
          LET t == pages[q][m][j] IN
          t # Absent => /\ Queue(t) = q /\ Slot(t) = j
                        /\ PageNo(Turn(t)) = PageNo(mhead[q]) + m - 1
    BY <1>1 DEF Core, PagesInOrder
<1> QED BY <1>1, <1>2, <1>3, <1>4

\* The counters of the micro queue of a ticket.
LEMMA CountersTyped ==
    ASSUME TypedState, PagesInOrder, PagesReach, NEW q \in 0 .. NQueue - 1
    PROVE  /\ mhead[q] \in Nat /\ mtail[q] \in Nat /\ mhead[q] <= mtail[q]
           /\ mhead[q] % NQueue = 0 /\ mtail[q] % NQueue = 0
           /\ mhead[q] < mtail[q] => mhead[q] + NQueue <= mtail[q]
           /\ Len(pages[q]) = PageNo(LastIn(q)) - PageNo(mhead[q]) + 1
           /\ LastIn(q) \in {mtail[q], mtail[q] - NQueue} /\ LastIn(q) \in Int
           /\ PageNo(LastIn(q)) \in Int /\ PageNo(mhead[q]) \in Int
<1>1. /\ mhead[q] \in Nat /\ mtail[q] \in Nat /\ mhead[q] <= mtail[q]
      /\ mhead[q] % NQueue = 0 /\ mtail[q] % NQueue = 0
      /\ Len(pages[q]) = PageNo(LastIn(q)) - PageNo(mhead[q]) + 1
    BY DEF TypedState, PagesInOrder, PagesReach
<1>2. LastIn(q) \in {mtail[q], mtail[q] - NQueue} /\ LastIn(q) \in Int
    BY <1>1, Sizes DEF LastIn
<1>3. PageNo(LastIn(q)) \in Int /\ PageNo(mhead[q]) \in Int
    <2>1. LastIn(q) <= LastIn(q) /\ mhead[q] <= mhead[q] /\ mhead[q] \in Int
        BY <1>1, <1>2
    <2> QED BY <2>1, <1>1, <1>2, PageNoTyped
<1>4. mhead[q] < mtail[q] => mhead[q] + NQueue <= mtail[q]
    BY <1>1, TurnsApart
<1> QED BY <1>1, <1>2, <1>3, <1>4

\* A push inside a micro queue is the only one there.
LEMMA InsideAlone ==
    ASSUME TypedState, PushesInLine, NEW p \in Producers, NEW r \in Producers,
           Pushing(p), Inside(r), Queue(k[p]) = Queue(k[r]), Turn(k[p]) = mtail[Queue(k[p])]
    PROVE  p = r
<1>1. Turn(k[r]) = mtail[Queue(k[r])] /\ Pushing(r)
    BY DEF PushesInLine, Pushing
<1>2. k[p] \in Nat /\ k[r] \in Nat
    BY DEF TypedState
<1>3. k[p] = k[r]
    BY <1>1, <1>2, OneTicket
<1> QED BY <1>1, <1>3 DEF PushesInLine

\* More pops than pushes are under way only while each has a thread that waits.
LEMMA HeadBounded ==
    ASSUME TypedState, PagesInOrder, PagesReach, PushesInLine, PopsInLine,
           head_counter <= MaxTickets + Cardinality(Consumers) + 1
    PROVE  head_counter <= MaxTickets + Cardinality(Consumers)
<1> SUFFICES ASSUME head_counter > MaxTickets + Cardinality(Consumers)
             PROVE  FALSE
    BY Sizes DEF TypedState
<1> DEFINE S == tail_counter .. head_counter - 1
<1>1. tail_counter \in Nat /\ head_counter \in Nat /\ tail_counter <= MaxTickets
    BY Sizes DEF TypedState
<1>2. IsFiniteSet(S) /\ Cardinality(S) > Cardinality(Consumers)
    <2>1. tail_counter \in Int /\ head_counter - 1 \in Int
        BY <1>1
    <2>2. IsFiniteSet(S) /\ Cardinality(S) = IF tail_counter > head_counter - 1 THEN 0
                                              ELSE head_counter - 1 - tail_counter + 1
        BY <2>1, FS_Interval
    <2> QED BY <2>2, <1>1, Sizes
<1>3. \A t \in S : t \in AllTickets /\ t >= tail_counter /\ t < head_counter
    BY <1>1, Sizes DEF AllTickets
<1>4. \A t \in S : \E c \in Consumers : Popping(c) /\ k[c] = t
    <2> SUFFICES ASSUME NEW t \in S
                 PROVE  \E c \in Consumers : Popping(c) /\ k[c] = t
        OBVIOUS
    <2>1. t \in AllTickets /\ t \in Nat /\ t >= tail_counter /\ t < head_counter
        BY <1>3, Sizes
    <2>2. mtail[Queue(t)] <= Turn(t)
        BY <2>1 DEF PushesInLine
    <2>3. /\ Turn(t) \in Nat /\ mhead[Queue(t)] <= mtail[Queue(t)]
          /\ mtail[Queue(t)] \in Nat /\ mhead[Queue(t)] \in Nat
        BY <2>1, TicketTyped, CountersTyped
    <2>4. mhead[Queue(t)] <= Turn(t)
        BY <2>2, <2>3
    <2> QED BY <2>1, <2>4 DEF PopsInLine
<1> DEFINE f == [t \in S |-> CHOOSE c \in Consumers : Popping(c) /\ k[c] = t]
<1>5. \A t \in S : f[t] \in Consumers /\ Popping(f[t]) /\ k[f[t]] = t
    BY <1>4
<1>6. f \in [S -> Consumers]
    BY <1>5
<1> HIDE DEF f, S
<1>7. PICK x \in S, y \in S : x # y /\ f[x] = f[y]
    BY <1>2, <1>6, FS_PigeonHole, QueueAssumption
<1> QED BY <1>5, <1>7

LEMMA InvalidBounded ==
    ASSUME TypedState
    PROVE  IsFiniteSet(Invalid) /\ Cardinality(Invalid) \in 0..MaxTickets
<1>1. tail_counter \in Nat /\ tail_counter <= MaxTickets
    BY Sizes DEF TypedState
<1>2. IsFiniteSet(0 .. tail_counter - 1) /\ Cardinality(0 .. tail_counter - 1) = tail_counter
    BY <1>1, FS_Interval
<1>3. Invalid \subseteq 0 .. tail_counter - 1
    BY DEF Invalid
<1>4. IsFiniteSet(Invalid) /\ Cardinality(Invalid) <= tail_counter
    BY <1>2, <1>3, FS_Subset
<1> QED BY <1>1, <1>4, FS_CardinalityType, Sizes

-----------------------------------------------------------------------------
(* What a step leaves as it is. *)

SamePush(u) ==
    /\ Pushing(u)' <=> Pushing(u)
    /\ Inside(u)' <=> Inside(u)
    /\ pc'[u] = "skip" <=> pc[u] = "skip"
    /\ pc'[u] = "publish" <=> pc[u] = "publish"
    /\ Pushing(u) => k'[u] = k[u]

SamePop(u) ==
    /\ Popping(u)' <=> Popping(u)
    /\ pc'[u] = "finish" <=> pc[u] = "finish"
    /\ Popping(u) => k'[u] = k[u]

SamePushers == \A u \in Producers : SamePush(u)
SamePoppers == \A u \in Consumers : SamePop(u)

SameFinish ==
    \A u \in Consumers : /\ pc'[u] = "finish" <=> pc[u] = "finish"
                         /\ pc[u] = "finish" => k'[u] = k[u]

\* Where threads are says what they do.
LEMMA InsidePushes ==
    /\ \A u \in Producers : /\ Inside(u) => Pushing(u)
                            /\ pc[u] \in {"skip", "publish", "store"} => Inside(u)
    /\ \A u \in Consumers : pc[u] = "finish" => Popping(u)
    BY DEF Inside, Pushing, Popping

LEMMA PushersStay ==
    ASSUME PushesInLine, SamePushers, tail_counter' = tail_counter, mtail' = mtail
    PROVE  PushesInLine'
<1>1. \A u \in Producers : Inside(u) => Pushing(u)
    BY InsidePushes
<1>2. \A t \in AllTickets : t < tail_counter /\ mtail[Queue(t)] <= Turn(t) =>
          \E p \in Producers : Pushing(p)' /\ k'[p] = t
    BY DEF PushesInLine, SamePushers, SamePush
<1>3. \A t \in AllTickets : t >= tail_counter => mtail[Queue(t)] <= Turn(t)
    BY DEF PushesInLine
<1>4. \A u \in Producers :
        /\ Pushing(u)' => k'[u] < tail_counter /\ mtail[Queue(k'[u])] <= Turn(k'[u])
        /\ Inside(u)' => mtail[Queue(k'[u])] = Turn(k'[u])
        /\ \A r \in Producers : Pushing(u)' /\ Pushing(r)' /\ k'[u] = k'[r] => u = r
    BY <1>1 DEF PushesInLine, SamePushers, SamePush
<1>5. \A q \in 0..(NQueue - 1) :
          mtail[q] # 0 => \E t \in 0..(tail_counter - 1) :
                             Queue(t) = q /\ Turn(t) + NQueue = mtail[q]
    BY DEF PushesInLine
<1> QED BY <1>2, <1>3, <1>4, <1>5 DEF PushesInLine

LEMMA PoppersStay ==
    ASSUME TypedState, PopsInLine, SamePoppers, head_counter' = head_counter, mhead' = mhead,
           \A q \in 0 .. NQueue - 1 : mtail'[q] \in Nat /\ mtail'[q] >= mtail[q]
    PROVE  PopsInLine'
<1>1. \A u \in Consumers : pc[u] = "finish" => Popping(u)
    BY InsidePushes
<1>2. \A t \in AllTickets : t < head_counter /\ mhead[Queue(t)] <= Turn(t) =>
          \E c \in Consumers : Popping(c)' /\ k'[c] = t
    BY DEF PopsInLine, SamePoppers, SamePop
<1>3. \A t \in AllTickets : t >= head_counter => mhead[Queue(t)] <= Turn(t)
    BY DEF PopsInLine
<1>4. \A u \in Consumers :
        /\ Popping(u)' => k'[u] < head_counter /\ mhead[Queue(k'[u])] <= Turn(k'[u])
        /\ \A d \in Consumers : Popping(u)' /\ Popping(d)' /\ k'[u] = k'[d] => u = d
    BY DEF PopsInLine, SamePoppers, SamePop
<1>5. ASSUME NEW u \in Consumers, pc'[u] = "finish"
      PROVE  mhead[Queue(k'[u])] = Turn(k'[u]) /\ mtail'[Queue(k'[u])] > Turn(k'[u])
    <2>1. pc[u] = "finish" /\ k'[u] = k[u]
        BY <1>1, <1>5 DEF SamePoppers, SamePop
    <2>2. k[u] \in Nat
        BY DEF TypedState
    <2>3. Queue(k[u]) \in 0 .. NQueue - 1 /\ Turn(k[u]) \in Nat
        BY <2>2, TicketTyped
    <2>4. mtail[Queue(k[u])] \in Nat
        BY <2>3 DEF TypedState
    <2> QED BY <2>1, <2>3, <2>4 DEF PopsInLine
<1> QED BY <1>2, <1>3, <1>4, <1>5 DEF PopsInLine

LEMMA LastInStays ==
    ASSUME SamePushers, mtail' = mtail
    PROVE  \A q : LastIn(q)' = LastIn(q)
<1>1. \A u \in Producers : Inside(u) => Pushing(u)
    BY InsidePushes
<1>2. ASSUME NEW q
      PROVE  (\E p \in Producers : Inside(p)' /\ Queue(k'[p]) = q)
                <=> (\E p \in Producers : Inside(p) /\ Queue(k[p]) = q)
    BY <1>1 DEF SamePushers, SamePush
<1> QED BY <1>2 DEF LastIn

LEMMA PagesStay ==
    ASSUME PagesInOrder, PagesReach, SamePushers, mtail' = mtail, mhead' = mhead, pages' = pages
    PROVE  PagesInOrder' /\ PagesReach' /\ Stored' = Stored
<1>1. PagesInOrder'
    BY DEF PagesInOrder
<1>2. PagesReach'
    BY LastInStays DEF PagesReach
<1> QED BY <1>1, <1>2 DEF Stored

LEMMA StoredStays ==
    ASSUME StoredPushed, SamePushers, mtail' = mtail, Stored' = Stored
    PROVE  StoredPushed'
<1>1. \A u \in Producers : pc[u] = "publish" => Pushing(u)
    BY InsidePushes
<1> QED BY <1>1 DEF StoredPushed, SamePushers, SamePush

LEMMA InvalidStays ==
    ASSUME InvalidCounted, SamePushers, SameFinish, mtail' = mtail, mhead' = mhead,
           Stored' = Stored, tail_counter' = tail_counter, n_invalid_entries' = n_invalid_entries
    PROVE  InvalidCounted'
<1>1. \A u \in Producers : pc[u] = "skip" => Pushing(u)
    BY InsidePushes
<1>2. \A t : Passed(t)' <=> Passed(t)
    BY <1>1 DEF Passed, SamePushers, SamePush
<1>3. \A t : Unpopped(t)' <=> Unpopped(t)
    BY <1>1 DEF Unpopped, SameFinish
<1>4. Invalid' = Invalid
    BY <1>2, <1>3 DEF Invalid
<1> QED BY <1>4 DEF InvalidCounted

\* A step of a thread that does not touch the micro queues and has the ticket
\* it had.
LEMMA CoreStays ==
    ASSUME Core, InvalidCounted, SamePushers, SamePoppers, UNCHANGED <<counters, micro>>,
           TypedState'
    PROVE  Core' /\ InvalidCounted' /\ Stored' = Stored
<1>1. /\ tail_counter' = tail_counter /\ head_counter' = head_counter
      /\ mtail' = mtail /\ mhead' = mhead /\ pages' = pages
      /\ n_invalid_entries' = n_invalid_entries
    BY DEF counters, micro
<1>2. PushesInLine'
    BY <1>1, PushersStay DEF Core
<1>3. PopsInLine'
    <2>1. \A q \in 0 .. NQueue - 1 : mtail'[q] \in Nat /\ mtail'[q] >= mtail[q]
        <3>1. \A q \in 0 .. NQueue - 1 : mtail[q] \in Nat
            BY DEF Core, TypedState
        <3> QED BY <3>1, <1>1
    <2> QED BY <2>1, <1>1, PoppersStay DEF Core
<1>4. PagesInOrder' /\ PagesReach' /\ Stored' = Stored
    BY <1>1, PagesStay DEF Core
<1>5. StoredPushed' /\ InvalidCounted'
    <2>1. SameFinish
        BY InsidePushes DEF SamePoppers, SamePop, SameFinish
    <2> QED BY <2>1, <1>1, <1>4, StoredStays, InvalidStays DEF Core
<1> QED BY <1>2, <1>3, <1>4, <1>5 DEF Core

-----------------------------------------------------------------------------
(* Steps that change who has which ticket. *)

\* A push takes the next ticket.
LEMMA PushTaken ==
    ASSUME Core, InvalidCounted, NEW p \in Producers,
           tail_counter < MaxTickets, tail_counter' = tail_counter + 1, head_counter' = head_counter,
           UNCHANGED micro, TypedState', SamePoppers,
           \A u \in Producers \ {p} : SamePush(u),
           ~ Pushing(p), Pushing(p)', ~ Inside(p)', k'[p] = tail_counter
    PROVE  Core' /\ InvalidCounted' /\ Stored' = Stored
<1>1. /\ mtail' = mtail /\ mhead' = mhead /\ pages' = pages
      /\ n_invalid_entries' = n_invalid_entries
    BY DEF micro
<1>2. /\ \A u \in Producers : /\ Inside(u) => Pushing(u)
                              /\ pc[u] \in {"skip", "publish"} => Inside(u)
      /\ \A u \in Producers : pc'[u] \in {"skip", "publish"} => Inside(u)'
    BY InsidePushes DEF Inside
<1>3. \A u \in Producers : /\ Inside(u)' <=> Inside(u)
                           /\ pc'[u] = "skip" <=> pc[u] = "skip"
                           /\ pc'[u] = "publish" <=> pc[u] = "publish"
                           /\ Inside(u) => k'[u] = k[u]
    BY <1>2 DEF SamePush
<1>4. tail_counter \in Nat /\ tail_counter \in AllTickets /\ tail_counter \in Tickets
    BY Sizes DEF Core, TypedState, AllTickets, Tickets
<1>5. mtail[Queue(tail_counter)] <= Turn(tail_counter)
    BY <1>4 DEF Core, PushesInLine
<1>6. \A u \in Producers : Pushing(u) => k[u] < tail_counter /\ k[u] \in Nat
    BY DEF Core, PushesInLine, TypedState
<1>7. PushesInLine'
    <2>1. \A u \in Producers :
            /\ Pushing(u)' => k'[u] < tail_counter + 1 /\ mtail[Queue(k'[u])] <= Turn(k'[u])
            /\ Inside(u)' => mtail[Queue(k'[u])] = Turn(k'[u])
        BY <1>2, <1>3, <1>4, <1>5, <1>6 DEF Core, PushesInLine, SamePush
    <2>2. \A u, r \in Producers : Pushing(u)' /\ Pushing(r)' /\ k'[u] = k'[r] => u = r
        BY <1>4, <1>6 DEF Core, PushesInLine, SamePush
    <2>3. \A t \in AllTickets : t >= tail_counter + 1 => mtail[Queue(t)] <= Turn(t)
        BY <1>4, Sizes DEF Core, PushesInLine
    <2>4. ASSUME NEW t \in AllTickets, t < tail_counter + 1, mtail[Queue(t)] <= Turn(t)
          PROVE  \E r \in Producers : Pushing(r)' /\ k'[r] = t
        <3>1. CASE t = tail_counter
            BY <3>1
        <3>2. CASE t # tail_counter
            <4>1. t < tail_counter
                BY <2>4, <3>2, <1>4, Sizes
            <4>2. PICK r \in Producers : Pushing(r) /\ k[r] = t
                BY <4>1, <2>4 DEF Core, PushesInLine
            <4> QED BY <4>2 DEF SamePush
        <3> QED BY <3>1, <3>2
    <2>5. \A q \in 0..(NQueue - 1) :
              mtail[q] # 0 => \E t \in 0 .. tail_counter : Queue(t) = q /\ Turn(t) + NQueue = mtail[q]
        BY <1>4 DEF Core, PushesInLine
    <2> QED BY <2>1, <2>2, <2>3, <2>4, <2>5, <1>1, <1>4 DEF PushesInLine
<1>8. PopsInLine'
    <2>1. \A q \in 0 .. NQueue - 1 : mtail[q] \in Nat
        BY DEF Core, TypedState
    <2> QED BY <2>1, <1>1, PoppersStay DEF Core
<1>9. PagesInOrder' /\ PagesReach' /\ Stored' = Stored
    <2>1. \A q : LastIn(q)' = LastIn(q)
        <3>1. ASSUME NEW q
              PROVE  (\E r \in Producers : Inside(r)' /\ Queue(k'[r]) = q)
                        <=> (\E r \in Producers : Inside(r) /\ Queue(k[r]) = q)
            BY <1>3
        <3> QED BY <3>1, <1>1 DEF LastIn
    <2>2. PagesInOrder'
        BY <1>1 DEF Core, PagesInOrder
    <2>3. PagesReach'
        BY <1>1, <2>1 DEF Core, PagesReach
    <2> QED BY <2>2, <2>3, <1>1 DEF Stored
<1>10. StoredPushed'
    BY <1>1, <1>2, <1>3, <1>9 DEF Core, StoredPushed
<1>11. Invalid' = Invalid
    <2>1. \A t : Passed(t)' <=> Passed(t)
        BY <1>1, <1>2, <1>3 DEF Passed
    <2>2. \A t : Unpopped(t)' <=> Unpopped(t)
        BY <1>1, InsidePushes DEF Unpopped, SamePoppers, SamePop
    <2>3. ~ Passed(tail_counter)
        <3>1. mtail[Queue(tail_counter)] \in Nat /\ Turn(tail_counter) \in Nat
            BY <1>4, TicketTyped DEF Core, TypedState
        <3> QED BY <3>1, <1>2, <1>4, <1>5, <1>6 DEF Passed
    <2>4. 0 .. tail_counter' - 1 = (0 .. tail_counter - 1) \cup {tail_counter}
        BY <1>4
    <2> QED BY <2>1, <2>2, <2>3, <2>4, <1>9 DEF Invalid
<1>12. InvalidCounted'
    BY <1>1, <1>11 DEF InvalidCounted
<1> QED BY <1>7, <1>8, <1>9, <1>10, <1>12 DEF Core

\* A pop takes the next ticket.
LEMMA PopTaken ==
    ASSUME Core, InvalidCounted, NEW c \in Consumers, head_counter \in AllTickets,
           head_counter' = head_counter + 1, tail_counter' = tail_counter,
           UNCHANGED micro, TypedState', SamePushers,
           \A u \in Consumers \ {c} : SamePop(u),
           ~ Popping(c), Popping(c)', pc'[c] # "finish", k'[c] = head_counter
    PROVE  Core' /\ InvalidCounted' /\ Stored' = Stored
<1>1. /\ mtail' = mtail /\ mhead' = mhead /\ pages' = pages
      /\ n_invalid_entries' = n_invalid_entries
    BY DEF micro
<1>2. \A u \in Consumers : pc[u] = "finish" => Popping(u)
    BY InsidePushes
<1>3. SameFinish
    BY <1>2 DEF SameFinish, SamePop
<1>4. head_counter \in Nat
    BY DEF Core, TypedState
<1>5. mhead[Queue(head_counter)] <= Turn(head_counter)
    BY <1>4 DEF Core, PopsInLine
<1>6. \A u \in Consumers : Popping(u) => k[u] < head_counter /\ k[u] \in Nat
    BY DEF Core, PopsInLine, TypedState
<1>7. PopsInLine'
    <2>1. \A u \in Consumers :
            Popping(u)' => k'[u] < head_counter + 1 /\ mhead[Queue(k'[u])] <= Turn(k'[u])
        BY <1>4, <1>5, <1>6 DEF Core, PopsInLine, SamePop
    <2>2. \A u \in Consumers :
            pc'[u] = "finish" => /\ mhead[Queue(k'[u])] = Turn(k'[u])
                                 /\ mtail[Queue(k'[u])] > Turn(k'[u])
        BY <1>3 DEF Core, PopsInLine, SameFinish
    <2>3. \A u, d \in Consumers : Popping(u)' /\ Popping(d)' /\ k'[u] = k'[d] => u = d
        BY <1>4, <1>6 DEF Core, PopsInLine, SamePop
    <2>4. \A t \in AllTickets : t >= head_counter + 1 => mhead[Queue(t)] <= Turn(t)
        BY <1>4, Sizes DEF Core, PopsInLine
    <2>5. ASSUME NEW t \in AllTickets, t < head_counter + 1, mhead[Queue(t)] <= Turn(t)
          PROVE  \E d \in Consumers : Popping(d)' /\ k'[d] = t
        <3>1. CASE t = head_counter
            BY <3>1
        <3>2. CASE t # head_counter
            <4>1. t < head_counter
                BY <2>5, <3>2, <1>4, Sizes
            <4>2. PICK d \in Consumers : Popping(d) /\ k[d] = t
                BY <4>1, <2>5 DEF Core, PopsInLine
            <4> QED BY <4>2 DEF SamePop
        <3> QED BY <3>1, <3>2
    <2> QED BY <2>1, <2>2, <2>3, <2>4, <2>5, <1>1 DEF PopsInLine
<1>8. PushesInLine' /\ PagesInOrder' /\ PagesReach' /\ Stored' = Stored
    BY <1>1, PushersStay, PagesStay DEF Core
<1>9. StoredPushed' /\ InvalidCounted'
    BY <1>1, <1>3, <1>8, StoredStays, InvalidStays DEF Core
<1> QED BY <1>7, <1>8, <1>9 DEF Core

\* The only pop gives the last ticket back.
LEMMA PopGivenBack ==
    ASSUME Core, InvalidCounted, NEW c \in Consumers,
           head_counter' = head_counter - 1, tail_counter' = tail_counter,
           UNCHANGED micro, TypedState', SamePushers,
           Popping(c), pc[c] # "finish", ~ Popping(c)', k[c] = head_counter - 1,
           \A u \in Consumers \ {c} : ~ Popping(u) /\ ~ Popping(u)'
    PROVE  Core' /\ InvalidCounted' /\ Stored' = Stored
<1>1. /\ mtail' = mtail /\ mhead' = mhead /\ pages' = pages
      /\ n_invalid_entries' = n_invalid_entries
    BY DEF micro
<1>2. \A u \in Consumers : ~ Popping(u)' /\ pc[u] # "finish" /\ pc'[u] # "finish"
    BY InsidePushes DEF Popping
<1>3. SameFinish
    BY <1>2 DEF SameFinish
<1>4. head_counter \in Nat /\ k[c] \in Nat
    BY DEF Core, TypedState
<1>5. PopsInLine'
    <2>1. \A t \in AllTickets : t >= head_counter - 1 => mhead[Queue(t)] <= Turn(t)
        <3> SUFFICES ASSUME NEW t \in AllTickets, t >= head_counter - 1
                     PROVE  mhead[Queue(t)] <= Turn(t)
            OBVIOUS
        <3>1. CASE t = k[c]
            BY <3>1 DEF Core, PopsInLine
        <3>2. CASE t # k[c]
            BY <3>2, <1>4, Sizes DEF Core, PopsInLine
        <3> QED BY <3>1, <3>2
    <2>2. \A t \in AllTickets : t < head_counter - 1 => ~ (mhead[Queue(t)] <= Turn(t))
        <3> SUFFICES ASSUME NEW t \in AllTickets, t < head_counter - 1, mhead[Queue(t)] <= Turn(t)
                     PROVE  FALSE
            OBVIOUS
        <3>1. t < head_counter
            BY <1>4, Sizes
        <3>2. PICK d \in Consumers : Popping(d) /\ k[d] = t
            BY <3>1 DEF Core, PopsInLine
        <3>3. d = c
            BY <3>2
        <3> QED BY <3>2, <3>3, <1>4
    <2> QED BY <2>1, <2>2, <1>1, <1>2 DEF PopsInLine
<1>6. PushesInLine' /\ PagesInOrder' /\ PagesReach' /\ Stored' = Stored
    BY <1>1, PushersStay, PagesStay DEF Core
<1>7. StoredPushed' /\ InvalidCounted'
    BY <1>1, <1>3, <1>6, StoredStays, InvalidStays DEF Core
<1> QED BY <1>5, <1>6, <1>7 DEF Core

-----------------------------------------------------------------------------
(* Steps inside a micro queue. *)

LEMMA TicketFacts ==
    ASSUME Core, NEW t \in Nat
    PROVE  /\ Queue(t) \in 0 .. NQueue - 1 /\ Turn(t) \in Nat /\ Turn(t) % NQueue = 0
           /\ Slot(t) \in 0 .. PerPage - 1
           /\ mhead[Queue(t)] \in Nat /\ mtail[Queue(t)] \in Nat
           /\ mhead[Queue(t)] <= mtail[Queue(t)]
           /\ mtail[Queue(t)] < Turn(t) => mtail[Queue(t)] + NQueue <= Turn(t)
           /\ mhead[Queue(t)] < Turn(t) => mhead[Queue(t)] + NQueue <= Turn(t)
           /\ Turn(t) < mtail[Queue(t)] => Turn(t) + NQueue <= mtail[Queue(t)]
<1>1. Queue(t) \in 0 .. NQueue - 1 /\ Turn(t) \in Nat /\ Turn(t) % NQueue = 0
      /\ Slot(t) \in 0 .. PerPage - 1
    BY TicketTyped
<1>2. /\ mhead[Queue(t)] \in Nat /\ mtail[Queue(t)] \in Nat
      /\ mhead[Queue(t)] <= mtail[Queue(t)]
      /\ mhead[Queue(t)] % NQueue = 0 /\ mtail[Queue(t)] % NQueue = 0
    BY <1>1, CountersTyped DEF Core
<1> QED BY <1>1, <1>2, TurnsApart

\* An item is where its ticket belongs.
LEMMA StoredPlace ==
    ASSUME Core, NEW t \in Stored
    PROVE  LET n == PageNo(Turn(t)) - PageNo(mhead[Queue(t)]) + 1 IN
           /\ t \in Tickets /\ n \in 1 .. Len(pages[Queue(t)])
           /\ pages[Queue(t)][n][Slot(t)] = t
<1>1. t \in Tickets /\ Slotted(t)
    BY StoredIs DEF Core, StoredThere
<1>2. PICK q \in 0 .. NQueue - 1 : \E n \in 1 .. Len(pages[q]) : \E i \in 0 .. PerPage - 1 :
          pages[q][n][i] = t
    BY <1>1 DEF Slotted
<1>3. PICK n \in 1 .. Len(pages[q]), i \in 0 .. PerPage - 1 : pages[q][n][i] = t
    BY <1>2
<1>4. t # Absent
    BY <1>1, Sizes
<1>5. Queue(t) = q /\ Slot(t) = i /\ PageNo(Turn(t)) = PageNo(mhead[q]) + n - 1
    BY <1>3, <1>4, PlaceIs
<1>6. PageNo(mhead[q]) \in Int /\ Len(pages[q]) \in Nat
    BY CountersTyped, PageTyped DEF Core
<1>7. n = PageNo(Turn(t)) - PageNo(mhead[Queue(t)]) + 1
    BY <1>5, <1>6
<1> QED BY <1>1, <1>3, <1>5, <1>7

\* The slot of the next pop of a micro queue has its item, if it was stored.
LEMMA FoundIs ==
    ASSUME Core, NEW t \in Tickets, mhead[Queue(t)] = Turn(t), mtail[Queue(t)] > Turn(t)
    PROVE  /\ 1 \in 1 .. Len(pages[Queue(t)])
           /\ pages[Queue(t)][1][Slot(t)] = IF t \in Stored THEN t ELSE Absent
<1> DEFINE q == Queue(t)
<1>1. t \in Nat
    BY Sizes
<1>2. q \in 0 .. NQueue - 1 /\ Turn(t) \in Nat /\ mhead[q] \in Nat /\ mtail[q] \in Nat
      /\ Slot(t) \in 0 .. PerPage - 1
      /\ Turn(t) + NQueue <= mtail[q]
    BY <1>1, TicketFacts
<1>3. /\ Len(pages[q]) = PageNo(LastIn(q)) - PageNo(mhead[q]) + 1
      /\ LastIn(q) \in {mtail[q], mtail[q] - NQueue} /\ LastIn(q) \in Int
      /\ PageNo(LastIn(q)) \in Int /\ PageNo(mhead[q]) \in Int
    BY <1>2, CountersTyped DEF Core
<1>4. mhead[q] <= LastIn(q)
    <2>1. NQueue \in Nat
        BY Sizes
    <2>2. mhead[q] + NQueue <= mtail[q]
        BY <1>2
    <2> HIDE DEF q
    <2>3. CASE LastIn(q) = mtail[q]
        BY <2>1, <2>2, <2>3, <1>2
    <2>4. CASE LastIn(q) = mtail[q] - NQueue
        BY <2>1, <2>2, <2>4, <1>2
    <2> QED BY <2>3, <2>4, <1>3
<1>5. PageNo(mhead[q]) <= PageNo(LastIn(q))
    BY <1>2, <1>3, <1>4, PageNoTyped
<1>6. 1 \in 1 .. Len(pages[q])
    BY <1>3, <1>5
<1>7. CASE t \in Stored
    <2>1. PageNo(Turn(t)) - PageNo(mhead[q]) + 1 = 1
        BY <1>3
    <2> QED BY <2>1, <1>6, <1>7, StoredPlace
<1>8. CASE t \notin Stored
    <2> SUFFICES ASSUME pages[q][1][Slot(t)] # Absent
                 PROVE  FALSE
        BY <1>6, <1>8
    <2>1. PICK u : u = pages[q][1][Slot(t)]
        OBVIOUS
    <2>2. /\ u \in Tickets /\ u \in Stored /\ Queue(u) = q /\ Slot(u) = Slot(t)
          /\ PageNo(Turn(u)) = PageNo(mhead[q]) + 1 - 1
        BY <2>1, <1>2, <1>6, PlaceIs
    <2>3. u \in Nat /\ PageNo(Turn(u)) = PageNo(Turn(t))
        BY <2>2, <1>3, Sizes
    <2>4. u = t
        BY <2>2, <2>3, <1>1, OneTurn, OneTicket
    <2> QED BY <2>2, <2>4, <1>8
<1> QED BY <1>7, <1>8, <1>6

\* Where the next push of a micro queue enters, its slot is free and the last
\* page is its page.
LEMMA EntersPage ==
    ASSUME Core, NEW p \in Producers, Inside(p)
    PROVE  LET t == k[p] q == Queue(t) IN
           /\ t \in Tickets /\ q \in 0 .. NQueue - 1 /\ mtail[q] = Turn(t)
           /\ LastIn(q) = mtail[q]
           /\ Len(pages[q]) \in 1 .. Len(pages[q])
           /\ PageNo(Turn(t)) = PageNo(mhead[q]) + Len(pages[q]) - 1
           /\ pc[p] = "store" => t \notin Stored /\ pages[q][Len(pages[q])][Slot(t)] = Absent
<1> DEFINE t == k[p]
           q == Queue(t)
<1>1. t \in Nat /\ t < tail_counter /\ mtail[q] = Turn(t)
    BY InsidePushes DEF Core, PushesInLine, TypedState
<1>2. t \in Tickets
    BY <1>1, Sizes DEF Tickets, Core, TypedState
<1>3. q \in 0 .. NQueue - 1 /\ Turn(t) \in Nat /\ Slot(t) \in 0 .. PerPage - 1
      /\ mhead[q] \in Nat /\ mtail[q] \in Nat /\ mhead[q] <= mtail[q]
    BY <1>1, TicketFacts
<1>4. LastIn(q) = mtail[q]
    BY DEF LastIn
<1>5. Len(pages[q]) = PageNo(mtail[q]) - PageNo(mhead[q]) + 1
      /\ PageNo(mtail[q]) \in Int /\ PageNo(mhead[q]) \in Int
    BY <1>3, <1>4, CountersTyped DEF Core
<1>6. PageNo(mhead[q]) <= PageNo(mtail[q])
    BY <1>3, PageNoTyped
<1>7. Len(pages[q]) \in 1 .. Len(pages[q])
    BY <1>5, <1>6
<1>8. PageNo(Turn(t)) = PageNo(mhead[q]) + Len(pages[q]) - 1
    BY <1>1, <1>5
<1>9. ASSUME pc[p] = "store"
      PROVE  t \notin Stored
    <2> SUFFICES ASSUME t \in Stored
                 PROVE  FALSE
        OBVIOUS
    <2>1. PICK r \in Producers : pc[r] = "publish" /\ k[r] = t
        BY <1>1, <1>3 DEF Core, StoredPushed
    <2>2. Pushing(r) /\ Pushing(p)
        BY <2>1, InsidePushes
    <2>3. r = p
        BY <2>1, <2>2 DEF Core, PushesInLine
    <2> QED BY <2>1, <2>3, <1>9
<1>10. ASSUME pc[p] = "store"
       PROVE  pages[q][Len(pages[q])][Slot(t)] = Absent
    <2> SUFFICES ASSUME pages[q][Len(pages[q])][Slot(t)] # Absent
                 PROVE  FALSE
        OBVIOUS
    <2>1. PICK n \in 1 .. Len(pages[q]) : n = Len(pages[q])
        BY <1>7
    <2>2. PICK u : u = pages[q][n][Slot(t)]
        OBVIOUS
    <2>3. /\ u \in Tickets /\ u \in Stored /\ Queue(u) = q /\ Slot(u) = Slot(t)
          /\ PageNo(Turn(u)) = PageNo(mhead[q]) + n - 1
        BY <2>1, <2>2, <1>3, <1>10, PlaceIs
    <2>4. u \in Nat /\ PageNo(Turn(u)) = PageNo(Turn(t))
        BY <2>1, <2>3, <1>8, Sizes
    <2>5. u = t
        BY <2>3, <2>4, <1>1, OneTurn, OneTicket
    <2> QED BY <2>3, <2>5, <1>9, <1>10
<1> QED BY <1>1, <1>2, <1>3, <1>4, <1>7, <1>8, <1>9, <1>10

\* A push whose turn has come finds nobody in its micro queue.
LEMMA EntersAlone ==
    ASSUME Core, NEW p \in Producers, Pushing(p), ~ Inside(p), mtail[Queue(k[p])] = Turn(k[p])
    PROVE  /\ \A r \in Producers : Inside(r) => Queue(k[r]) # Queue(k[p])
           /\ LastIn(Queue(k[p])) = mtail[Queue(k[p])] - NQueue
<1>1. \A r \in Producers : Inside(r) => Queue(k[r]) # Queue(k[p])
    BY InsideAlone DEF Core
<1> QED BY <1>1 DEF LastIn

\* A push whose turn has come enters its micro queue, with a page if its slot
\* is the first of one.
LEMMA PushEnters ==
    ASSUME Core, InvalidCounted, NEW p \in Producers,
           Pushing(p), ~ Inside(p), mtail[Queue(k[p])] = Turn(k[p]),
           Pushing(p)', Inside(p)', pc'[p] = "store", k' = k,
           UNCHANGED <<counters, mhead, mtail, n_invalid_entries>>, TypedState', SamePoppers,
           \A u \in Producers \ {p} : SamePush(u),
           pages' = IF Slot(k[p]) = 0
                    THEN [pages EXCEPT ![Queue(k[p])] = Append(@, EmptyPage)] ELSE pages
    PROVE  Core' /\ InvalidCounted' /\ Stored' = Stored
<1> DEFINE t == k[p]
           q == Queue(t)
<1>1. /\ tail_counter' = tail_counter /\ head_counter' = head_counter
    BY DEF counters
<1>2. t \in Nat /\ q \in 0 .. NQueue - 1 /\ Turn(t) \in Nat /\ Slot(t) \in 0 .. PerPage - 1
      /\ mtail[q] = Turn(t) /\ mtail[q] \in Nat /\ mhead[q] \in Nat
    <2>1. t \in Nat
        BY DEF Core, TypedState
    <2> QED BY <2>1, TicketFacts
<1>3. /\ \A u \in Producers : /\ Inside(u) => Pushing(u)
                              /\ pc[u] \in {"skip", "publish"} => Inside(u)
      /\ \A u \in Producers : pc'[u] \in {"skip", "publish"} => Inside(u)'
    BY InsidePushes DEF Inside
<1>4. \A u \in Producers : /\ Pushing(u)' <=> Pushing(u)
                           /\ Inside(u)' <=> Inside(u) \/ u = p
                           /\ pc'[u] = "skip" <=> pc[u] = "skip"
                           /\ pc'[u] = "publish" <=> pc[u] = "publish"
    BY <1>3 DEF SamePush
<1>5. PushesInLine'
    BY <1>1, <1>2, <1>4 DEF Core, PushesInLine
<1>6. PopsInLine'
    <2>1. \A x \in 0 .. NQueue - 1 : mtail[x] \in Nat
        BY DEF Core, TypedState
    <2> QED BY <2>1, <1>1, PoppersStay DEF Core
<1>7. /\ pages[q] \in Seq(Page) /\ Len(pages[q]) \in Nat
      /\ DOMAIN pages[q] = 1 .. Len(pages[q]) /\ DOMAIN pages = 0 .. NQueue - 1
      /\ pages \in [0 .. NQueue - 1 -> Seq(Page)]
    BY <1>2 DEF Core, TypedState
<1>8. EmptyPage \in Page /\ \A i \in 0 .. PerPage - 1 : EmptyPage[i] = Absent
    BY DEF EmptyPage, Page
<1>9. /\ \A x \in 0 .. NQueue - 1 : x # q => pages'[x] = pages[x]
      /\ Slot(t) # 0 => pages'[q] = pages[q]
      /\ Slot(t) = 0 => pages'[q] = Append(pages[q], EmptyPage)
      /\ DOMAIN pages' = 0 .. NQueue - 1
    BY <1>2, <1>7
<1>10. /\ Slot(t) = 0 => /\ Len(pages'[q]) = Len(pages[q]) + 1
                         /\ pages'[q][Len(pages[q]) + 1] = EmptyPage
       /\ \A n \in 1 .. Len(pages[q]) : n \in 1 .. Len(pages'[q]) /\ pages'[q][n] = pages[q][n]
    BY <1>7, <1>8, <1>9
<1>11. \A x \in 0 .. NQueue - 1 :
          /\ \A n \in 1 .. Len(pages[x]) : n \in 1 .. Len(pages'[x]) /\ pages'[x][n] = pages[x][n]
          /\ \A n \in 1 .. Len(pages'[x]), i \in 0 .. PerPage - 1 :
                pages'[x][n][i] # Absent => n \in 1 .. Len(pages[x])
    <2> SUFFICES ASSUME NEW x \in 0 .. NQueue - 1
                 PROVE  /\ \A n \in 1 .. Len(pages[x]) :
                              n \in 1 .. Len(pages'[x]) /\ pages'[x][n] = pages[x][n]
                        /\ \A n \in 1 .. Len(pages'[x]), i \in 0 .. PerPage - 1 :
                              pages'[x][n][i] # Absent => n \in 1 .. Len(pages[x])
        OBVIOUS
    <2>1. CASE x # q \/ Slot(t) # 0
        BY <2>1, <1>9
    <2>2. CASE x = q /\ Slot(t) = 0
        BY <2>2, <1>7, <1>8, <1>10
    <2> QED BY <2>1, <2>2
<1>12. Stored' = Stored
    <2>1. \A v \in Tickets : Slotted(v)' <=> Slotted(v)
        <3> SUFFICES ASSUME NEW v \in Tickets
                     PROVE  Slotted(v)' <=> Slotted(v)
            OBVIOUS
        <3>1. v # Absent
            BY Sizes
        <3>2. ASSUME Slotted(v) PROVE Slotted(v)'
            BY <3>2, <1>11 DEF Slotted
        <3>3. ASSUME Slotted(v)' PROVE Slotted(v)
            <4>1. PICK x \in 0 .. NQueue - 1 : \E n \in 1 .. Len(pages'[x]) :
                      \E i \in 0 .. PerPage - 1 : pages'[x][n][i] = v
                BY <3>3 DEF Slotted
            <4>2. PICK n \in 1 .. Len(pages'[x]), i \in 0 .. PerPage - 1 : pages'[x][n][i] = v
                BY <4>1
            <4>3. n \in 1 .. Len(pages[x]) /\ pages[x][n][i] = v
                BY <4>2, <3>1, <1>11
            <4> QED BY <4>3 DEF Slotted
        <3> QED BY <3>2, <3>3
    <2> QED BY <2>1, StoredIs, StoredIsNext DEF Core, StoredThere
<1>13. PagesInOrder'
    <2> SUFFICES ASSUME NEW x \in 0 .. NQueue - 1
                 PROVE  /\ mhead[x] <= mtail[x]
                        /\ \A n \in DOMAIN pages'[x], i \in 0..(PerPage - 1) :
                              LET v == pages'[x][n][i] IN
                              v # Absent => /\ Queue(v) = x /\ Slot(v) = i
                                            /\ PageNo(Turn(v)) = PageNo(mhead[x]) + n - 1
        BY <1>9 DEF PagesInOrder
    <2>1. mhead[x] <= mtail[x]
        BY <1>7 DEF Core, PagesInOrder
    <2>2. DOMAIN pages'[x] = 1 .. Len(pages'[x])
        BY DEF TypedState
    <2> QED BY <2>1, <2>2, <1>11, PlaceIs
<1>14. PagesReach'
    <2> SUFFICES ASSUME NEW x \in 0 .. NQueue - 1
                 PROVE  Len(pages'[x]) = PageNo(LastIn(x)') - PageNo(mhead[x]) + 1
        BY DEF Core, PagesReach
    <2>1. CASE x # q
        <3>1. (\E r \in Producers : Inside(r)' /\ Queue(k'[r]) = x)
                  <=> (\E r \in Producers : Inside(r) /\ Queue(k[r]) = x)
            BY <2>1, <1>4
        <3>2. LastIn(x)' = LastIn(x)
            BY <3>1 DEF LastIn
        <3> QED BY <2>1, <3>2, <1>9 DEF Core, PagesReach
    <2>2. CASE x = q
        <3>1. LastIn(q)' = Turn(t)
            BY <1>2 DEF LastIn
        <3>2. LastIn(q) = Turn(t) - NQueue
            BY <1>2, EntersAlone
        <3>3. Len(pages[q]) = PageNo(Turn(t) - NQueue) - PageNo(mhead[q]) + 1
              /\ PageNo(Turn(t) - NQueue) \in Int /\ PageNo(mhead[q]) \in Int
            BY <3>2, <1>2, CountersTyped DEF Core
        <3>4. /\ Slot(t) = 0 => PageNo(Turn(t)) = PageNo(Turn(t) - NQueue) + 1
              /\ Slot(t) # 0 => PageNo(Turn(t)) = PageNo(Turn(t) - NQueue)
            BY <1>2, PageBounds
        <3> QED BY <2>2, <3>1, <3>3, <3>4, <1>9, <1>10
    <2> QED BY <2>1, <2>2
<1>15. StoredPushed'
    BY <1>4, <1>12 DEF Core, StoredPushed
<1>16. Invalid' = Invalid
    <2>1. \A v : Passed(v)' <=> Passed(v)
        BY <1>4 DEF Passed
    <2>2. \A v : Unpopped(v)' <=> Unpopped(v)
        BY InsidePushes DEF Unpopped, SamePoppers, SamePop
    <2> QED BY <2>1, <2>2, <1>1, <1>12 DEF Invalid
<1>17. InvalidCounted'
    BY <1>16 DEF InvalidCounted
<1> QED BY <1>5, <1>6, <1>12, <1>13, <1>14, <1>15, <1>17 DEF Core

\* PagesInOrder of the next state, for counters that stay.
LEMMA OrderNext ==
    ASSUME mhead' = mhead, mtail' = mtail, DOMAIN pages' = 0 .. NQueue - 1,
           \A x \in 0 .. NQueue - 1 :
              /\ mhead[x] <= mtail[x]
              /\ \A n \in DOMAIN pages'[x], i \in 0..(PerPage - 1) :
                    LET v == pages'[x][n][i] IN
                    v # Absent => /\ Queue(v) = x /\ Slot(v) = i
                                  /\ PageNo(Turn(v)) = PageNo(mhead[x]) + n - 1
    PROVE  PagesInOrder'
BY DEF PagesInOrder

\* The item goes into the slot of its ticket.
LEMMA PushStores ==
    ASSUME Core, InvalidCounted, NEW p \in Producers,
           pc[p] = "store", pc'[p] = "publish", Pushing(p)', Inside(p)', k' = k,
           UNCHANGED <<counters, mhead, mtail, n_invalid_entries>>, TypedState', SamePoppers,
           \A u \in Producers \ {p} : SamePush(u),
           pages' = [pages EXCEPT ![Queue(k[p])][Len(pages[Queue(k[p])])][Slot(k[p])] = k[p]]
    PROVE  Core' /\ InvalidCounted' /\ Stored' = Stored \cup {k[p]}
<1> DEFINE t == k[p]
           q == Queue(t)
           m == Len(pages[q])
<1>1. tail_counter' = tail_counter /\ head_counter' = head_counter
    BY DEF counters
<1>2. Inside(p) /\ Pushing(p)
    BY InsidePushes
<1>3. /\ t \in Tickets /\ q \in 0 .. NQueue - 1 /\ mtail[q] = Turn(t) /\ m \in 1 .. Len(pages[q])
      /\ PageNo(Turn(t)) = PageNo(mhead[q]) + m - 1
      /\ t \notin Stored /\ pages[q][m][Slot(t)] = Absent
    BY <1>2, EntersPage
<1>4. t \in Nat /\ t # Absent /\ Slot(t) \in 0 .. PerPage - 1 /\ Turn(t) \in Nat
    <2>1. t \in Nat /\ t # Absent
        BY <1>3, Sizes
    <2> QED BY <2>1, TicketTyped
<1>5. \A u \in Producers : /\ Pushing(u)' <=> Pushing(u)
                           /\ Inside(u)' <=> Inside(u)
                           /\ pc'[u] = "skip" <=> pc[u] = "skip"
                           /\ pc'[u] = "publish" <=> pc[u] = "publish" \/ u = p
    BY <1>2 DEF SamePush
<1>6. /\ pages \in [0 .. NQueue - 1 -> Seq(Page)] /\ pages[q] \in Seq(Page)
      /\ DOMAIN pages[q] = 1 .. Len(pages[q]) /\ DOMAIN pages = 0 .. NQueue - 1
      /\ pages[q][m] \in Page /\ DOMAIN pages[q][m] = 0 .. PerPage - 1
    BY <1>3, <1>4, PageTyped DEF Core, TypedState
<1>7. /\ \A x \in 0 .. NQueue - 1 : x # q => pages'[x] = pages[x]
      /\ pages'[q] = [pages[q] EXCEPT ![m][Slot(t)] = t]
      /\ DOMAIN pages' = 0 .. NQueue - 1
    BY <1>3, <1>6
<1>8. /\ Len(pages'[q]) = Len(pages[q])
      /\ \A n \in 1 .. Len(pages[q]) : n # m => pages'[q][n] = pages[q][n]
      /\ pages'[q][m] = [pages[q][m] EXCEPT ![Slot(t)] = t]
    <2>1. pages'[q] \in Seq(Page)
        BY <1>3 DEF TypedState
    <2>2. DOMAIN pages'[q] = 1 .. Len(pages[q])
        BY <1>6, <1>7
    <2> QED BY <2>1, <2>2, <1>6, <1>7, <1>3
<1>9. /\ pages'[q][m][Slot(t)] = t
      /\ \A i \in 0 .. PerPage - 1 : i # Slot(t) => pages'[q][m][i] = pages[q][m][i]
    BY <1>4, <1>6, <1>8
<1>10. \A x \in 0 .. NQueue - 1 :
          /\ Len(pages'[x]) = Len(pages[x])
          /\ \A n \in 1 .. Len(pages[x]), i \in 0 .. PerPage - 1 :
                pages'[x][n][i] = IF x = q /\ n = m /\ i = Slot(t) THEN t ELSE pages[x][n][i]
    <2> SUFFICES ASSUME NEW x \in 0 .. NQueue - 1
                 PROVE  /\ Len(pages'[x]) = Len(pages[x])
                        /\ \A n \in 1 .. Len(pages[x]), i \in 0 .. PerPage - 1 :
                              pages'[x][n][i] = IF x = q /\ n = m /\ i = Slot(t) THEN t
                                                ELSE pages[x][n][i]
        OBVIOUS
    <2>1. CASE x # q
        BY <2>1, <1>7
    <2>2. CASE x = q
        <3> SUFFICES ASSUME NEW n \in 1 .. Len(pages[q]), NEW i \in 0 .. PerPage - 1
                     PROVE  pages'[q][n][i] = IF n = m /\ i = Slot(t) THEN t ELSE pages[q][n][i]
            BY <2>2, <1>8
        <3> HIDE DEF m
        <3>1. CASE n # m
            BY <3>1, <1>8
        <3>2. CASE n = m
            BY <3>2, <1>9
        <3> QED BY <3>1, <3>2
    <2> QED BY <2>1, <2>2
<1>11. Stored' = Stored \cup {t}
    <2>1. \A v \in Tickets : Slotted(v)' <=> Slotted(v) \/ v = t
        <3> SUFFICES ASSUME NEW v \in Tickets
                     PROVE  Slotted(v)' <=> Slotted(v) \/ v = t
            OBVIOUS
        <3>1. v # Absent
            BY Sizes
        <3>2. ASSUME Slotted(v) PROVE Slotted(v)'
            <4>1. PICK x \in 0 .. NQueue - 1 : \E n \in 1 .. Len(pages[x]) :
                      \E i \in 0 .. PerPage - 1 : pages[x][n][i] = v
                BY <3>2 DEF Slotted
            <4>2. PICK n \in 1 .. Len(pages[x]), i \in 0 .. PerPage - 1 : pages[x][n][i] = v
                BY <4>1
            <4>3. ~ (x = q /\ n = m /\ i = Slot(t))
                BY <4>2, <3>1, <1>3
            <4>4. pages'[x][n][i] = v /\ n \in 1 .. Len(pages'[x])
                BY <4>2, <4>3, <1>10
            <4> QED BY <4>4 DEF Slotted
        <3>3. ASSUME Slotted(v)' PROVE Slotted(v) \/ v = t
            <4>1. PICK x \in 0 .. NQueue - 1 : \E n \in 1 .. Len(pages'[x]) :
                      \E i \in 0 .. PerPage - 1 : pages'[x][n][i] = v
                BY <3>3 DEF Slotted
            <4>2. PICK n \in 1 .. Len(pages'[x]), i \in 0 .. PerPage - 1 : pages'[x][n][i] = v
                BY <4>1
            <4>3. n \in 1 .. Len(pages[x]) /\ (v = t \/ pages[x][n][i] = v)
                BY <4>2, <1>10
            <4> QED BY <4>3 DEF Slotted
        <3>4. Slotted(t)'
            BY <1>3, <1>4, <1>9, <1>10 DEF Slotted
        <3> QED BY <3>2, <3>3, <3>4
    <2> QED BY <2>1, <1>3, StoredIs, StoredIsNext DEF Core, StoredThere
<1>12. PushesInLine'
    BY <1>1, <1>5 DEF Core, PushesInLine
<1>13. PopsInLine'
    <2>1. \A x \in 0 .. NQueue - 1 : mtail[x] \in Nat
        BY DEF Core, TypedState
    <2> QED BY <2>1, <1>1, PoppersStay DEF Core
<1>14. PagesInOrder'
    <2> SUFFICES ASSUME NEW x \in 0 .. NQueue - 1
                 PROVE  /\ mhead[x] <= mtail[x]
                        /\ \A n \in DOMAIN pages'[x], i \in 0..(PerPage - 1) :
                              LET v == pages'[x][n][i] IN
                              v # Absent => /\ Queue(v) = x /\ Slot(v) = i
                                            /\ PageNo(Turn(v)) = PageNo(mhead[x]) + n - 1
        <3>1. mhead' = mhead /\ mtail' = mtail /\ DOMAIN pages' = 0 .. NQueue - 1
            BY <1>7
        <3> QED BY <3>1, OrderNext
    <2>1. mhead[x] <= mtail[x]
        BY <1>6 DEF Core, PagesInOrder
    <2>2. \A n \in 1 .. Len(pages[x]), i \in 0..(PerPage - 1) :
              LET v == pages[x][n][i] IN
              v # Absent => /\ Queue(v) = x /\ Slot(v) = i
                            /\ PageNo(Turn(v)) = PageNo(mhead[x]) + n - 1
        BY PlaceIs
    <2>3. DOMAIN pages'[x] = 1 .. Len(pages'[x])
        BY DEF TypedState
    <2>4. ASSUME NEW n \in 1 .. Len(pages[x]), NEW i \in 0..(PerPage - 1), NEW v,
                 v = pages'[x][n][i], v # Absent
          PROVE  /\ Queue(v) = x /\ Slot(v) = i
                 /\ PageNo(Turn(v)) = PageNo(mhead[x]) + n - 1
        <3>1. CASE x = q /\ n = m /\ i = Slot(t)
            <4>1. v = t
                BY <3>1, <2>4, <1>10
            <4> QED BY <4>1, <3>1, <1>3
        <3>2. CASE ~ (x = q /\ n = m /\ i = Slot(t))
            <4>1. v = pages[x][n][i]
                BY <3>2, <2>4, <1>10
            <4> QED BY <4>1, <2>4, <2>2
        <3> QED BY <3>1, <3>2
    <2>5. Len(pages'[x]) = Len(pages[x])
        BY <1>10
    <2> QED BY <2>1, <2>3, <2>4, <2>5
<1>15. PagesReach'
    <2>1. ASSUME NEW x
          PROVE  (\E r \in Producers : Inside(r)' /\ Queue(k'[r]) = x)
                     <=> (\E r \in Producers : Inside(r) /\ Queue(k[r]) = x)
        BY <1>5
    <2>2. \A x : LastIn(x)' = LastIn(x)
        BY <2>1 DEF LastIn
    <2> QED BY <2>2, <1>10 DEF Core, PagesReach
<1>16. StoredPushed'
    BY <1>5, <1>11 DEF Core, StoredPushed
<1>17. Invalid' = Invalid
    <2>1. \A v : Passed(v)' <=> Passed(v)
        BY <1>5 DEF Passed
    <2>2. \A v : Unpopped(v)' <=> Unpopped(v)
        BY InsidePushes DEF Unpopped, SamePoppers, SamePop
    <2>3. ~ Passed(t)
        <3>1. ASSUME NEW r \in Producers, pc[r] = "skip", k[r] = t
              PROVE  FALSE
            <4>1. Pushing(r)
                BY <3>1, InsidePushes
            <4>2. r = p
                BY <4>1, <3>1, <1>2 DEF Core, PushesInLine
            <4> QED BY <3>1, <4>2
        <3> QED BY <3>1, <1>3, <1>4 DEF Passed
    <2> QED BY <2>1, <2>2, <2>3, <1>1, <1>11 DEF Invalid
<1>18. InvalidCounted'
    BY <1>17 DEF InvalidCounted
<1> QED BY <1>11, <1>12, <1>13, <1>14, <1>15, <1>16, <1>18 DEF Core

\* There is no item for the slot: the entry counts as invalid from here on.
LEMMA PushSkips ==
    ASSUME Core, InvalidCounted, NEW p \in Producers,
           pc[p] = "store", pc'[p] = "skip", Pushing(p)', Inside(p)', k' = k,
           UNCHANGED <<counters, mhead, mtail, pages>>, TypedState', SamePoppers,
           n_invalid_entries' = n_invalid_entries + 1,
           \A u \in Producers \ {p} : SamePush(u)
    PROVE  Core' /\ InvalidCounted' /\ Stored' = Stored
<1> DEFINE t == k[p]
<1>1. tail_counter' = tail_counter /\ head_counter' = head_counter
    BY DEF counters
<1>2. Inside(p) /\ Pushing(p)
    BY InsidePushes
<1>3. /\ t \in Tickets /\ t \in Nat /\ t < tail_counter /\ tail_counter \in Nat
      /\ mtail[Queue(t)] = Turn(t) /\ t \notin Stored
      /\ Turn(t) \in Nat /\ mhead[Queue(t)] \in Nat /\ mhead[Queue(t)] <= mtail[Queue(t)]
    <2>1. t \in Tickets /\ t \in Nat /\ mtail[Queue(t)] = Turn(t) /\ t \notin Stored
        BY <1>2, EntersPage, Sizes
    <2>2. t < tail_counter /\ tail_counter \in Nat
        BY <1>2 DEF Core, PushesInLine, TypedState
    <2> QED BY <2>1, <2>2, TicketFacts
<1>4. \A u \in Producers : /\ Pushing(u)' <=> Pushing(u)
                           /\ Inside(u)' <=> Inside(u)
                           /\ pc'[u] = "publish" <=> pc[u] = "publish"
                           /\ pc'[u] = "skip" <=> pc[u] = "skip" \/ u = p
    BY <1>2 DEF SamePush
<1>5. Stored' = Stored
    BY DEF Stored
<1>6. PushesInLine'
    BY <1>1, <1>4 DEF Core, PushesInLine
<1>7. PopsInLine'
    <2>1. \A x \in 0 .. NQueue - 1 : mtail[x] \in Nat
        BY DEF Core, TypedState
    <2> QED BY <2>1, <1>1, PoppersStay DEF Core
<1>8. PagesInOrder' /\ PagesReach'
    <2>1. ASSUME NEW x
          PROVE  LastIn(x)' = LastIn(x)
        <3>1. (\E r \in Producers : Inside(r)' /\ Queue(k'[r]) = x)
                  <=> (\E r \in Producers : Inside(r) /\ Queue(k[r]) = x)
            BY <1>4
        <3> QED BY <3>1 DEF LastIn
    <2> QED BY <2>1 DEF Core, PagesInOrder, PagesReach
<1>9. StoredPushed'
    BY <1>4, <1>5 DEF Core, StoredPushed
<1>10. Invalid' = Invalid \cup {t} /\ t \notin Invalid
    <2>1. \A v : Passed(v)' <=> Passed(v) \/ v = t
        BY <1>4 DEF Passed
    <2>2. \A v : Unpopped(v)' <=> Unpopped(v)
        BY InsidePushes DEF Unpopped, SamePoppers, SamePop
    <2>3. ~ Passed(t)
        <3>1. ASSUME NEW r \in Producers, pc[r] = "skip", k[r] = t
              PROVE  FALSE
            <4>1. Pushing(r)
                BY <3>1, InsidePushes
            <4>2. r = p
                BY <4>1, <3>1, <1>2 DEF Core, PushesInLine
            <4> QED BY <3>1, <4>2
        <3> QED BY <3>1, <1>3 DEF Passed
    <2>4. Unpopped(t)
        <3>1. ASSUME NEW c \in Consumers, pc[c] = "finish", k[c] = t
              PROVE  FALSE
            BY <3>1, <1>3 DEF Core, PopsInLine
        <3> QED BY <3>1, <1>3 DEF Unpopped
    <2>5. t \in 0 .. tail_counter - 1
        BY <1>3
    <2> QED BY <2>1, <2>2, <2>3, <2>4, <2>5, <1>1, <1>3, <1>5 DEF Invalid
<1>11. InvalidCounted'
    <2>1. Cardinality(Invalid \cup {t}) = Cardinality(Invalid) + 1
        BY <1>10, InvalidBounded, FS_AddElement DEF Core
    <2> QED BY <2>1, <1>10 DEF InvalidCounted
<1> QED BY <1>5, <1>6, <1>7, <1>8, <1>9, <1>11 DEF Core

\* The turn of the next push of the micro queue comes.
LEMMA PushPasses ==
    ASSUME Core, InvalidCounted, NEW p \in Producers,
           pc[p] \in {"publish", "skip"}, ~ Pushing(p)',
           UNCHANGED <<counters, mhead, pages, n_invalid_entries>>, TypedState', SamePoppers,
           mtail' = [mtail EXCEPT ![Queue(k[p])] = @ + NQueue],
           \A u \in Producers \ {p} : SamePush(u)
    PROVE  Core' /\ InvalidCounted' /\ Stored' = Stored
<1> DEFINE t == k[p]
           q == Queue(t)
<1>1. tail_counter' = tail_counter /\ head_counter' = head_counter
    BY DEF counters
<1>2. Inside(p) /\ Pushing(p) /\ ~ Inside(p)'
    BY InsidePushes DEF Pushing
<1>3. /\ t \in Nat /\ q \in 0 .. NQueue - 1 /\ mtail[q] = Turn(t) /\ LastIn(q) = mtail[q]
      /\ t < tail_counter
      /\ Turn(t) \in Nat /\ mhead[q] \in Nat /\ mhead[q] <= mtail[q]
    <2>1. t \in Nat /\ t < tail_counter
        BY <1>2 DEF Core, PushesInLine, TypedState
    <2> QED BY <2>1, <1>2, TicketFacts, EntersPage
<1>4. /\ \A x \in 0 .. NQueue - 1 : mtail[x] \in Nat
      /\ \A x \in 0 .. NQueue - 1 : mtail'[x] = IF x = q THEN mtail[x] + NQueue ELSE mtail[x]
      /\ mtail'[q] = Turn(t) + NQueue
    BY <1>3 DEF Core, TypedState
<1>5. \A u \in Producers : /\ Pushing(u)' <=> Pushing(u) /\ u # p
                           /\ Inside(u)' <=> Inside(u) /\ u # p
                           /\ Pushing(u)' => k'[u] = k[u]
                           /\ u # p => /\ pc'[u] = "skip" <=> pc[u] = "skip"
                                       /\ pc'[u] = "publish" <=> pc[u] = "publish"
    BY <1>2 DEF SamePush
<1>6. pc'[p] \notin {"publish", "skip"}
    BY <1>2 DEF Inside
<1>7. Stored' = Stored
    BY DEF Stored
\* Another ticket of the micro queue that has not passed is later.
<1>8. ASSUME NEW v \in Nat, v # t
      PROVE  mtail'[Queue(v)] <= Turn(v) <=> mtail[Queue(v)] <= Turn(v)
    <2>1. /\ Queue(v) \in 0 .. NQueue - 1 /\ Turn(v) \in Nat /\ Turn(v) % NQueue = 0
          /\ mtail[Queue(v)] < Turn(v) => mtail[Queue(v)] + NQueue <= Turn(v)
          /\ mtail[Queue(v)] \in Nat
        BY TicketFacts
    <2>2. Queue(v) = q => Turn(v) # mtail[q]
        BY <1>3, <1>8, OneTicket
    <2>3. Queue(v) = q => (mtail[q] <= Turn(v) <=> mtail[q] + NQueue <= Turn(v))
        BY <2>1, <2>2, Sizes
    <2> QED BY <2>1, <2>3, <1>4
<1>9. mtail'[q] > Turn(t) /\ mtail'[q] \in Nat
    BY <1>3, <1>4, Sizes
<1>10. \A u \in Producers : k[u] \in Nat
    BY DEF Core, TypedState
<1>11. PushesInLine'
    <2>1. ASSUME NEW u \in Producers, Pushing(u)'
          PROVE  k'[u] < tail_counter /\ mtail'[Queue(k'[u])] <= Turn(k'[u])
        <3>1. Pushing(u) /\ u # p /\ k'[u] = k[u]
            BY <2>1, <1>5
        <3>2. k[u] # t
            BY <3>1, <1>2 DEF Core, PushesInLine
        <3> QED BY <3>1, <3>2, <1>8, <1>10 DEF Core, PushesInLine
    <2>2. ASSUME NEW u \in Producers, Inside(u)'
          PROVE  mtail'[Queue(k'[u])] = Turn(k'[u])
        <3>1. Inside(u) /\ Pushing(u) /\ u # p /\ k'[u] = k[u] /\ k[u] \in Nat
            BY <2>2, <1>5, <1>10, InsidePushes
        <3>2. mtail[Queue(k[u])] = Turn(k[u]) /\ Queue(k[u]) \in 0 .. NQueue - 1
            BY <3>1, TicketTyped DEF Core, PushesInLine
        <3>3. Queue(k[u]) # q
            BY <3>1, <1>2, <1>3, InsideAlone DEF Core
        <3> QED BY <3>1, <3>2, <3>3, <1>4
    <2>3. \A u, r \in Producers : Pushing(u)' /\ Pushing(r)' /\ k'[u] = k'[r] => u = r
        BY <1>5 DEF Core, PushesInLine
    <2>4. ASSUME NEW v \in AllTickets, v >= tail_counter
          PROVE  mtail'[Queue(v)] <= Turn(v)
        <3>1. v \in Nat /\ v # t
            BY <2>4, <1>3, Sizes DEF Core, TypedState
        <3> QED BY <3>1, <2>4, <1>8 DEF Core, PushesInLine
    <2>5. ASSUME NEW v \in AllTickets, v < tail_counter, mtail'[Queue(v)] <= Turn(v)
          PROVE  \E r \in Producers : Pushing(r)' /\ k'[r] = v
        <3>1. v \in Nat
            BY Sizes
        <3>2. v # t
            BY <2>5, <1>3, <1>9
        <3>3. PICK r \in Producers : Pushing(r) /\ k[r] = v
            BY <3>1, <3>2, <2>5, <1>8 DEF Core, PushesInLine
        <3> QED BY <3>2, <3>3, <1>5
    <2>6. ASSUME NEW x \in 0 .. NQueue - 1, mtail'[x] # 0
          PROVE  \E v \in 0 .. tail_counter - 1 : Queue(v) = x /\ Turn(v) + NQueue = mtail'[x]
        <3>1. CASE x = q
            <4>1. t \in 0 .. tail_counter - 1
                BY <1>3 DEF Core, TypedState
            <4> QED BY <4>1, <3>1, <1>4
        <3>2. CASE x # q
            BY <3>2, <2>6, <1>4 DEF Core, PushesInLine
        <3> QED BY <3>1, <3>2
    <2> QED BY <2>1, <2>2, <2>3, <2>4, <2>5, <2>6, <1>1 DEF PushesInLine
<1>12. PopsInLine'
    <2>1. \A x \in 0 .. NQueue - 1 : mtail'[x] \in Nat /\ mtail'[x] >= mtail[x]
        BY <1>4, Sizes
    <2> QED BY <2>1, <1>1, PoppersStay DEF Core
<1>13. PagesInOrder'
    <2>1. \A x \in 0 .. NQueue - 1 : mhead[x] <= mtail'[x]
        <3>1. \A x \in 0 .. NQueue - 1 : mhead[x] <= mtail[x] /\ mhead[x] \in Nat
            BY CountersTyped DEF Core
        <3> QED BY <3>1, <1>4, Sizes
    <2>2. DOMAIN pages = 0 .. NQueue - 1
        BY DEF Core, TypedState
    <2> QED BY <2>1, <2>2 DEF Core, PagesInOrder
<1>14. PagesReach'
    <2> SUFFICES ASSUME NEW x \in 0 .. NQueue - 1
                 PROVE  /\ mtail'[x] % NQueue = 0
                        /\ Len(pages[x]) = PageNo(LastIn(x)') - PageNo(mhead[x]) + 1
        BY DEF Core, PagesReach
    <2>1. CASE x # q
        <3>1. (\E r \in Producers : Inside(r)' /\ Queue(k'[r]) = x)
                  <=> (\E r \in Producers : Inside(r) /\ Queue(k[r]) = x)
            BY <2>1, <1>5, InsidePushes
        <3>2. LastIn(x)' = LastIn(x)
            BY <3>1, <2>1, <1>4 DEF LastIn
        <3> QED BY <2>1, <3>2, <1>4 DEF Core, PagesReach
    <2>2. CASE x = q
        <3>1. ASSUME NEW r \in Producers, Inside(r)'
              PROVE  Queue(k'[r]) # q
            <4>1. Inside(r) /\ r # p /\ k'[r] = k[r]
                BY <3>1, <1>5, InsidePushes
            <4> QED BY <4>1, <1>2, <1>3, InsideAlone DEF Core
        <3>2. LastIn(x)' = mtail'[x] - NQueue
            BY <3>1, <2>2 DEF LastIn
        <3>3. LastIn(x)' = LastIn(x)
            BY <3>2, <2>2, <1>3, <1>4, Sizes
        <3>4. (mtail[q] + NQueue) % NQueue = 0
            <4>1. mtail[q] \in Int /\ mtail[q] % NQueue = 0
                BY <1>3 DEF Core, PagesReach
            <4> QED BY <4>1, TurnsApart
        <3> QED BY <2>2, <3>3, <3>4, <1>3, <1>4 DEF Core, PagesReach
    <2> QED BY <2>1, <2>2
<1>15. StoredPushed'
    <2>1. ASSUME NEW v \in Stored
          PROVE  \/ mtail'[Queue(v)] > Turn(v)
                 \/ \E r \in Producers : pc'[r] = "publish" /\ k'[r] = v
        <3>1. v \in Nat
            BY StoredPlace, Sizes DEF Core
        <3>2. CASE v = t
            BY <3>2, <1>9
        <3>3. CASE v # t /\ mtail[Queue(v)] > Turn(v)
            <4>1. mtail[Queue(v)] \in Nat /\ Turn(v) \in Nat /\ mtail'[Queue(v)] \in Nat
                BY <3>1, TicketFacts, TicketTyped DEF TypedState
            <4> QED BY <4>1, <3>1, <3>3, <1>8
        <3>4. CASE v # t /\ \E r \in Producers : pc[r] = "publish" /\ k[r] = v
            <4>1. PICK r \in Producers : pc[r] = "publish" /\ k[r] = v
                BY <3>4
            <4>2. r # p /\ Pushing(r)
                BY <4>1, <3>4, InsidePushes
            <4> QED BY <4>1, <4>2, <1>5
        <3> QED BY <3>2, <3>3, <3>4 DEF Core, StoredPushed
    <2>2. \A u \in Producers : pc'[u] = "publish" => k'[u] \in Stored
        BY <1>5, <1>6, InsidePushes DEF Core, StoredPushed, Inside
    <2> QED BY <2>1, <2>2, <1>7 DEF StoredPushed
<1>16. Invalid' = Invalid
    <2>1. \A v : Unpopped(v)' <=> Unpopped(v)
        BY InsidePushes DEF Unpopped, SamePoppers, SamePop
    <2>2. ASSUME NEW v \in Nat, v # t
          PROVE  Passed(v)' <=> Passed(v)
        <3>1. mtail[Queue(v)] \in Nat /\ Turn(v) \in Nat /\ mtail'[Queue(v)] \in Nat
            BY <2>2, TicketFacts, TicketTyped DEF TypedState
        <3>2. mtail'[Queue(v)] > Turn(v) <=> mtail[Queue(v)] > Turn(v)
            BY <3>1, <2>2, <1>8
        <3>3. (\E r \in Producers : pc'[r] = "skip" /\ k'[r] = v)
                 <=> (\E r \in Producers : pc[r] = "skip" /\ k[r] = v)
            BY <2>2, <1>5, <1>6, InsidePushes DEF Inside
        <3> QED BY <3>2, <3>3 DEF Passed
    <2>3. ASSUME NEW v, v = t
          PROVE  Passed(v)' /\ (Passed(v) \/ v \in Stored)
        BY <2>3, <1>9 DEF Passed, Core, StoredPushed
    <2>4. \A v \in 0 .. tail_counter - 1 : v \in Nat
        OBVIOUS
    <2> QED BY <2>1, <2>2, <2>3, <2>4, <1>1, <1>7 DEF Invalid
<1>17. InvalidCounted'
    BY <1>16 DEF InvalidCounted
<1> QED BY <1>7, <1>11, <1>12, <1>13, <1>14, <1>15, <1>17 DEF Core

\* A pop whose turn has come looks at its slot: its push may have left no item.
LEMMA PopFinds ==
    ASSUME Core, InvalidCounted, NEW c \in Consumers, head_counter \in AllTickets,
           Popping(c), pc[c] # "finish", k[c] < tail_counter,
           mhead[Queue(k[c])] = Turn(k[c]), mtail[Queue(k[c])] # Turn(k[c]),
           Popping(c)', pc'[c] = "finish", k' = k,
           UNCHANGED <<counters, mhead, mtail, pages>>, TypedState', SamePushers,
           \A u \in Consumers \ {c} : SamePop(u),
           n_invalid_entries' = IF pages[Queue(k[c])][1][Slot(k[c])] = Absent
                                THEN n_invalid_entries - 1 ELSE n_invalid_entries
    PROVE  Core' /\ InvalidCounted' /\ Stored' = Stored
<1> DEFINE t == k[c]
           q == Queue(t)
<1>1. tail_counter' = tail_counter /\ head_counter' = head_counter
    BY DEF counters
<1>2. /\ t \in Nat /\ t \in Tickets /\ t \in 0 .. tail_counter - 1
      /\ mhead[q] = Turn(t) /\ mtail[q] > Turn(t)
    <2>1. t \in Nat /\ t \in Tickets /\ t \in 0 .. tail_counter - 1
        BY Sizes DEF Core, TypedState, Tickets
    <2>2. mtail[q] \in Nat /\ mhead[q] \in Nat /\ mhead[q] <= mtail[q]
        BY <2>1, TicketFacts
    <2> QED BY <2>1, <2>2
<1>3. pages[q][1][Slot(t)] = IF t \in Stored THEN t ELSE Absent
    BY <1>2, FoundIs
<1>4. pages[q][1][Slot(t)] = Absent <=> t \notin Stored
    BY <1>2, <1>3, Sizes
<1>5. \A u \in Consumers : pc[u] = "finish" => Popping(u)
    BY InsidePushes
<1>6. \A u \in Consumers : /\ Popping(u)' <=> Popping(u)
                           /\ pc'[u] = "finish" <=> pc[u] = "finish" \/ u = c
    BY DEF SamePop
<1>7. Stored' = Stored
    BY DEF Stored
<1>8. PushesInLine' /\ PagesInOrder' /\ PagesReach'
    BY <1>1, PushersStay, PagesStay DEF Core
<1>9. StoredPushed'
    BY <1>7, StoredStays DEF Core
<1>10. PopsInLine'
    BY <1>1, <1>2, <1>6 DEF Core, PopsInLine
<1>11. Invalid' = Invalid \ {t} /\ (t \in Invalid <=> t \notin Stored)
    <2>1. \A v : Passed(v)' <=> Passed(v)
        BY InsidePushes DEF Passed, SamePushers, SamePush
    <2>2. \A v : Unpopped(v)' <=> Unpopped(v) /\ v # t
        BY <1>6 DEF Unpopped
    <2>3. Unpopped(t)
        <3>1. ASSUME NEW d \in Consumers, pc[d] = "finish", k[d] = t
              PROVE  FALSE
            <4>1. d = c
                BY <3>1, <1>5 DEF Core, PopsInLine
            <4> QED BY <3>1, <4>1
        <3>2. mhead[q] <= Turn(t)
            BY <1>2, TicketFacts
        <3> QED BY <3>1, <3>2 DEF Unpopped
    <2>4. Passed(t)
        BY <1>2 DEF Passed
    <2>5. Invalid' = {v \in 0 .. tail_counter - 1 : Passed(v) /\ Unpopped(v) /\ v # t /\ v \notin Stored}
        BY <2>1, <2>2, <1>1, <1>7 DEF Invalid
    <2> QED BY <2>3, <2>4, <2>5, <1>2 DEF Invalid
<1>12. InvalidCounted'
    <2>1. IsFiniteSet(Invalid) /\ Cardinality(Invalid) \in Nat
        BY InvalidBounded DEF Core
    <2>2. CASE t \in Stored
        <3>1. Invalid' = Invalid
            BY <2>2, <1>11
        <3> QED BY <2>2, <3>1, <1>4 DEF InvalidCounted
    <2>3. CASE t \notin Stored
        <3>1. Cardinality(Invalid \ {t}) = Cardinality(Invalid) - 1
            BY <2>1, <2>3, <1>11, FS_RemoveElement
        <3> QED BY <2>3, <3>1, <1>4, <1>11 DEF InvalidCounted
    <2> QED BY <2>2, <2>3
<1> QED BY <1>7, <1>8, <1>9, <1>10, <1>12 DEF Core

LEMMA TailIs ==
    ASSUME NEW S, NEW s \in Seq(S), 1 \in 1 .. Len(s)
    PROVE  /\ Len(Tail(s)) = Len(s) - 1
           /\ \A n \in 1 .. Len(s) - 1 : Tail(s)[n] = s[n + 1]
    OBVIOUS

\* What a micro queue keeps when the pop of its head is over.
LEMMA KeptItems ==
    ASSUME Core, NEW c \in Consumers, pc[c] = "finish", k[c] \in Tickets,
           pages' = IF Slot(k[c]) = PerPage - 1
                    THEN [pages EXCEPT ![Queue(k[c])] = Tail(@)] ELSE pages,
           mhead' = [mhead EXCEPT ![Queue(k[c])] = Turn(k[c]) + NQueue],
           TypedState'
    PROVE  /\ Stored' \subseteq Stored
           /\ \A v \in Stored : v \notin Stored' => Queue(v) = Queue(k[c]) /\ Turn(v) <= Turn(k[c])
           /\ mtail' = mtail => PagesInOrder'
           /\ \A x \in 0 .. NQueue - 1 :
                 Len(pages'[x]) = Len(pages[x]) - (PageNo(mhead'[x]) - PageNo(mhead[x]))
<1> DEFINE t == k[c]
           q == Queue(t)
           last == Slot(t) = PerPage - 1
<1>1. /\ t \in Nat /\ q \in 0 .. NQueue - 1 /\ Slot(t) \in 0 .. PerPage - 1
      /\ mhead[q] = Turn(t) /\ mtail[q] > Turn(t) /\ Turn(t) \in Nat
      /\ mtail[q] \in Nat /\ Turn(t) + NQueue <= mtail[q]
    <2>1. t \in Nat /\ mhead[q] = Turn(t) /\ mtail[q] > Turn(t)
        BY Sizes DEF Core, PopsInLine
    <2> QED BY <2>1, TicketFacts
<1>2. /\ pages \in [0 .. NQueue - 1 -> Seq(Page)] /\ pages[q] \in Seq(Page)
      /\ mhead \in [0 .. NQueue - 1 -> Nat]
      /\ \A x \in 0 .. NQueue - 1 : Len(pages[x]) \in Nat
    BY <1>1 DEF Core, TypedState
<1>3. 1 \in 1 .. Len(pages[q])
    BY <1>1, FoundIs
<1>4. /\ \A x \in 0 .. NQueue - 1 : x # q => mhead'[x] = mhead[x] /\ pages'[x] = pages[x]
      /\ mhead'[q] = Turn(t) + NQueue
      /\ last => pages'[q] = Tail(pages[q])
      /\ ~ last => pages'[q] = pages[q]
    BY <1>1, <1>2
<1>5. last => /\ Len(pages'[q]) = Len(pages[q]) - 1
              /\ \A n \in 1 .. Len(pages'[q]) : n + 1 \in 1 .. Len(pages[q])
                                                /\ pages'[q][n] = pages[q][n + 1]
    <2> SUFFICES ASSUME last
                 PROVE  /\ Len(pages'[q]) = Len(pages[q]) - 1
                        /\ \A n \in 1 .. Len(pages'[q]) : n + 1 \in 1 .. Len(pages[q])
                                                          /\ pages'[q][n] = pages[q][n + 1]
        OBVIOUS
    <2>1. /\ Len(Tail(pages[q])) = Len(pages[q]) - 1
          /\ \A n \in 1 .. Len(pages[q]) - 1 : Tail(pages[q])[n] = pages[q][n + 1]
        BY <1>2, <1>3, TailIs
    <2>2. pages'[q] = Tail(pages[q])
        BY <1>4
    <2>3. Len(pages'[q]) = Len(pages[q]) - 1 /\ Len(pages[q]) \in Nat
        BY <2>1, <2>2, <1>1, <1>2
    <2>4. ASSUME NEW n \in 1 .. Len(pages'[q])
          PROVE  n + 1 \in 1 .. Len(pages[q]) /\ pages'[q][n] = pages[q][n + 1]
        <3>1. n \in 1 .. Len(pages[q]) - 1 /\ n + 1 \in 1 .. Len(pages[q])
            BY <2>3
        <3> QED BY <3>1, <2>1, <2>2
    <2> QED BY <2>3, <2>4
<1>6. /\ last => PageNo(mhead'[q]) = PageNo(mhead[q]) + 1
      /\ ~ last => PageNo(mhead'[q]) = PageNo(mhead[q])
      /\ \A x \in 0 .. NQueue - 1 : PageNo(mhead[x]) \in Int
    <2>1. \A x \in 0 .. NQueue - 1 : PageNo(mhead[x]) \in Int
        BY CountersTyped DEF Core
    <2> QED BY <2>1, <1>1, <1>4, PageBounds
<1>7. \A x \in 0 .. NQueue - 1 :
          Len(pages'[x]) = Len(pages[x]) - (PageNo(mhead'[x]) - PageNo(mhead[x]))
    <2> SUFFICES ASSUME NEW x \in 0 .. NQueue - 1
                 PROVE  Len(pages'[x]) = Len(pages[x]) - (PageNo(mhead'[x]) - PageNo(mhead[x]))
        OBVIOUS
    <2>1. CASE x # q
        BY <2>1, <1>2, <1>4, <1>6
    <2>2. CASE x = q /\ last
        BY <2>2, <1>2, <1>5, <1>6
    <2>3. CASE x = q /\ ~ last
        BY <2>3, <1>2, <1>4, <1>6
    <2> QED BY <2>1, <2>2, <2>3
\* A page that stays is where it was, counted from the head.
<1>8. ASSUME NEW x \in 0 .. NQueue - 1, NEW n \in 1 .. Len(pages'[x])
      PROVE  \E m \in 1 .. Len(pages[x]) :
                /\ pages'[x][n] = pages[x][m]
                /\ PageNo(mhead'[x]) + n - 1 = PageNo(mhead[x]) + m - 1
    <2>1. CASE x # q
        BY <2>1, <1>4
    <2>2. CASE x = q /\ last
        <3>1. n + 1 \in 1 .. Len(pages[x]) /\ pages'[x][n] = pages[x][n + 1]
            BY <2>2, <1>5
        <3>2. PageNo(mhead'[x]) + n - 1 = PageNo(mhead[x]) + (n + 1) - 1
            BY <2>2, <1>1, <1>6
        <3> QED BY <3>1, <3>2
    <2>3. CASE x = q /\ ~ last
        BY <2>3, <1>4, <1>6
    <2> QED BY <2>1, <2>2, <2>3
<1>9. /\ StoredThere /\ StoredThere'
    BY StoredIs, StoredIsNext DEF Core
<1>10. Stored' \subseteq Stored
    <2> SUFFICES ASSUME NEW v \in Tickets, Slotted(v)'
                 PROVE  Slotted(v)
        BY <1>9 DEF StoredThere
    <2>1. PICK x \in 0 .. NQueue - 1 : \E n \in 1 .. Len(pages'[x]) :
              \E i \in 0 .. PerPage - 1 : pages'[x][n][i] = v
        BY DEF Slotted
    <2>2. PICK n \in 1 .. Len(pages'[x]), i \in 0 .. PerPage - 1 : pages'[x][n][i] = v
        BY <2>1
    <2>3. PICK m \in 1 .. Len(pages[x]) : pages'[x][n] = pages[x][m]
        BY <1>8
    <2> QED BY <2>2, <2>3 DEF Slotted
<1>11. ASSUME NEW v \in Stored, v \notin Stored'
       PROVE  Queue(v) = q /\ Turn(v) <= Turn(t)
    <2> DEFINE n == PageNo(Turn(v)) - PageNo(mhead[Queue(v)]) + 1
    <2>1. v \in Tickets /\ n \in 1 .. Len(pages[Queue(v)]) /\ pages[Queue(v)][n][Slot(v)] = v
        BY StoredPlace
    <2>2. v \in Nat /\ Queue(v) \in 0 .. NQueue - 1 /\ Slot(v) \in 0 .. PerPage - 1
          /\ Turn(v) \in Nat
        BY <2>1, Sizes, TicketTyped
    <2>3. ~ Slotted(v)'
        BY <2>1, <1>9, <1>11 DEF StoredThere
    <2>4. Queue(v) = q /\ last
        BY <2>1, <2>2, <2>3, <1>4 DEF Slotted
    <2>5. n = 1
        <3> SUFFICES ASSUME n # 1
                     PROVE  FALSE
            OBVIOUS
        <3>1. n - 1 \in 1 .. Len(pages'[q]) /\ pages'[q][n - 1] = pages[q][n]
            BY <2>1, <2>4, <1>2, <1>5
        <3> QED BY <3>1, <2>1, <2>2, <2>3, <2>4 DEF Slotted
    <2>6. PageNo(Turn(v)) = PageNo(Turn(t))
        <3>1. PageNo(Turn(v)) \in Int
            BY <2>2, PageNoTyped
        <3> QED BY <3>1, <2>4, <2>5, <1>1, <1>6
    <2>7. ASSUME Turn(v) > Turn(t)
          PROVE  FALSE
        <3>1. Turn(t) + NQueue <= Turn(v)
            <4>1. Turn(t) % NQueue = 0 /\ Turn(v) % NQueue = 0
                BY <2>2, <1>1, TicketTyped
            <4> QED BY <4>1, <2>2, <2>7, <1>1, TurnsApart
        <3>2. PageNo(Turn(t) + NQueue) <= PageNo(Turn(v))
            BY <3>1, <2>2, <1>1, Sizes, PageNoTyped
        <3>3. PageNo(Turn(t) + NQueue) = PageNo(Turn(t)) + 1 /\ PageNo(Turn(t)) \in Int
            BY <2>4, <1>1, <1>6, PageBounds
        <3> QED BY <3>2, <3>3, <2>6
    <2> QED BY <2>2, <2>4, <2>7, <1>1
<1>12. ASSUME mtail' = mtail
       PROVE  PagesInOrder'
    <2> SUFFICES ASSUME NEW x \in 0 .. NQueue - 1
                 PROVE  /\ mhead'[x] <= mtail[x]
                        /\ \A n \in DOMAIN pages'[x], i \in 0..(PerPage - 1) :
                              LET v == pages'[x][n][i] IN
                              v # Absent => /\ Queue(v) = x /\ Slot(v) = i
                                            /\ PageNo(Turn(v)) = PageNo(mhead'[x]) + n - 1
        BY <1>12 DEF PagesInOrder, TypedState
    <2>1. mhead'[x] <= mtail[x]
        BY <1>1, <1>4, CountersTyped DEF Core
    <2>2. DOMAIN pages'[x] = 1 .. Len(pages'[x])
        BY DEF TypedState
    <2>3. ASSUME NEW n \in 1 .. Len(pages'[x]), NEW i \in 0..(PerPage - 1), NEW v,
                 v = pages'[x][n][i], v # Absent
          PROVE  /\ Queue(v) = x /\ Slot(v) = i
                 /\ PageNo(Turn(v)) = PageNo(mhead'[x]) + n - 1
        <3>1. PICK m \in 1 .. Len(pages[x]) :
                  /\ pages'[x][n] = pages[x][m]
                  /\ PageNo(mhead'[x]) + n - 1 = PageNo(mhead[x]) + m - 1
            BY <1>8
        <3> QED BY <3>1, <2>3, PlaceIs
    <2> QED BY <2>1, <2>2, <2>3
<1> QED BY <1>7, <1>10, <1>11, <1>12

\* The turn of the next pop of the micro queue comes.
LEMMA PopPasses ==
    ASSUME Core, InvalidCounted, NEW c \in Consumers, head_counter \in AllTickets,
           pc[c] = "finish", k[c] < tail_counter, ~ Popping(c)', pc'[c] # "finish", k' = k,
           UNCHANGED <<counters, mtail, n_invalid_entries>>, TypedState', SamePushers,
           \A u \in Consumers \ {c} : SamePop(u),
           pages' = IF Slot(k[c]) = PerPage - 1
                    THEN [pages EXCEPT ![Queue(k[c])] = Tail(@)] ELSE pages,
           mhead' = [mhead EXCEPT ![Queue(k[c])] = Turn(k[c]) + NQueue]
    PROVE  Core' /\ InvalidCounted' /\ Stored' \subseteq Stored
<1> DEFINE t == k[c]
           q == Queue(t)
<1>1. tail_counter' = tail_counter /\ head_counter' = head_counter
    BY DEF counters
<1>2. /\ t \in Nat /\ t \in Tickets /\ t < head_counter
      /\ q \in 0 .. NQueue - 1 /\ Turn(t) \in Nat
      /\ mhead[q] = Turn(t) /\ mtail[q] > Turn(t) /\ Popping(c)
    <2>1. t \in Nat /\ t \in Tickets
        <3>1. k \in [Producers \cup Consumers -> Nat] /\ tail_counter \in 0 .. MaxTickets
            BY DEF Core, TypedState
        <3>2. t \in Nat /\ MaxTickets \in Nat /\ t < tail_counter
            BY <3>1, Sizes
        <3> QED BY <3>1, <3>2 DEF Tickets
    <2>2. Popping(c)
        BY InsidePushes
    <2> QED BY <2>1, <2>2, TicketFacts DEF Core, PopsInLine
<1>3. /\ Stored' \subseteq Stored
      /\ \A v \in Stored : v \notin Stored' => Queue(v) = q /\ Turn(v) <= Turn(t)
      /\ PagesInOrder'
      /\ \A x \in 0 .. NQueue - 1 :
            Len(pages'[x]) = Len(pages[x]) - (PageNo(mhead'[x]) - PageNo(mhead[x]))
    BY <1>2, KeptItems
<1>4. \A x \in 0 .. NQueue - 1 : mhead'[x] = IF x = q THEN Turn(t) + NQueue ELSE mhead[x]
    BY <1>2 DEF Core, TypedState
<1>5. \A u \in Consumers : /\ Popping(u)' <=> Popping(u) /\ u # c
                           /\ pc'[u] = "finish" <=> pc[u] = "finish" /\ u # c
    BY <1>2 DEF SamePop
\* Another ticket of the micro queue that has not passed is later.
<1>6. ASSUME NEW v \in Nat, v # t
      PROVE  mhead'[Queue(v)] <= Turn(v) <=> mhead[Queue(v)] <= Turn(v)
    <2>1. /\ Queue(v) \in 0 .. NQueue - 1 /\ Turn(v) \in Nat /\ mhead[Queue(v)] \in Nat
          /\ mhead[Queue(v)] < Turn(v) => mhead[Queue(v)] + NQueue <= Turn(v)
        BY TicketFacts
    <2>2. Queue(v) = q => Turn(v) # Turn(t)
        BY <1>2, <1>6, OneTicket
    <2>3. Queue(v) = q => (mhead[q] <= Turn(v) <=> Turn(t) + NQueue <= Turn(v))
        BY <2>1, <2>2, <1>2, Sizes
    <2> QED BY <2>1, <2>3, <1>4
<1>7. \A u \in Consumers : k[u] \in Nat
    BY DEF Core, TypedState
<1>8. ~ (mhead'[q] <= Turn(t))
    BY <1>2, <1>4, Sizes
<1>9. PushesInLine'
    BY <1>1, PushersStay DEF Core
<1>10. PopsInLine'
    <2>1. ASSUME NEW u \in Consumers, Popping(u)'
          PROVE  k[u] < head_counter /\ mhead'[Queue(k[u])] <= Turn(k[u])
        <3>1. Popping(u) /\ u # c
            BY <2>1, <1>5
        <3>2. k[u] # t
            BY <3>1, <1>2 DEF Core, PopsInLine
        <3> QED BY <3>1, <3>2, <1>6, <1>7 DEF Core, PopsInLine
    <2>2. ASSUME NEW u \in Consumers, pc'[u] = "finish"
          PROVE  mhead'[Queue(k[u])] = Turn(k[u]) /\ mtail[Queue(k[u])] > Turn(k[u])
        <3>1. pc[u] = "finish" /\ Popping(u) /\ u # c
            BY <2>2, <1>5, InsidePushes
        <3>2. mhead[Queue(k[u])] = Turn(k[u]) /\ mtail[Queue(k[u])] > Turn(k[u])
            BY <3>1 DEF Core, PopsInLine
        <3>3. Queue(k[u]) # q
            <4>1. k[u] # t
                BY <3>1, <1>2 DEF Core, PopsInLine
            <4> QED BY <4>1, <3>2, <1>2, <1>7, OneTicket
        <3>4. Queue(k[u]) \in 0 .. NQueue - 1
            BY <1>7, TicketTyped
        <3> QED BY <3>2, <3>3, <3>4, <1>4
    <2>3. \A u, d \in Consumers : Popping(u)' /\ Popping(d)' /\ k[u] = k[d] => u = d
        BY <1>5 DEF Core, PopsInLine
    <2>4. ASSUME NEW v \in AllTickets, v >= head_counter
          PROVE  mhead'[Queue(v)] <= Turn(v)
        <3>1. v \in Nat /\ v # t
            BY <2>4, <1>2, Sizes DEF Core, TypedState
        <3> QED BY <3>1, <2>4, <1>6 DEF Core, PopsInLine
    <2>5. ASSUME NEW v \in AllTickets, v < head_counter, mhead'[Queue(v)] <= Turn(v)
          PROVE  \E d \in Consumers : Popping(d)' /\ k[d] = v
        <3>1. v \in Nat
            BY Sizes
        <3>2. v # t
            BY <2>5, <1>8
        <3>3. PICK d \in Consumers : Popping(d) /\ k[d] = v
            BY <3>1, <3>2, <2>5, <1>6 DEF Core, PopsInLine
        <3> QED BY <3>2, <3>3, <1>5
    <2> QED BY <2>1, <2>2, <2>3, <2>4, <2>5, <1>1 DEF PopsInLine
<1>11. PagesReach'
    <2> SUFFICES ASSUME NEW x \in 0 .. NQueue - 1
                 PROVE  /\ mhead'[x] % NQueue = 0 /\ mtail[x] % NQueue = 0
                        /\ Len(pages'[x]) = PageNo(LastIn(x)') - PageNo(mhead'[x]) + 1
        BY DEF PagesReach
    <2>1. LastIn(x)' = LastIn(x)
        BY LastInStays
    <2>2. mhead'[x] % NQueue = 0
        <3>1. Turn(t) \in Int /\ Turn(t) % NQueue = 0
            BY <1>2, TicketTyped
        <3>2. (Turn(t) + NQueue) % NQueue = 0
            BY <3>1, TurnsApart
        <3> QED BY <3>2, <1>4, CountersTyped DEF Core
    <2>3. mtail[x] % NQueue = 0 /\ Len(pages[x]) = PageNo(LastIn(x)) - PageNo(mhead[x]) + 1
          /\ PageNo(LastIn(x)) \in Int /\ PageNo(mhead[x]) \in Int
        BY CountersTyped DEF Core
    <2>4. PageNo(mhead'[x]) \in Int
        <3>1. mhead'[x] \in Int /\ mhead'[x] <= mhead'[x]
            BY DEF TypedState
        <3> QED BY <3>1, PageNoTyped
    <2>5. Len(pages'[x]) = Len(pages[x]) - (PageNo(mhead'[x]) - PageNo(mhead[x]))
        BY <1>3
    <2> HIDE DEF t, q
    <2> QED BY <2>1, <2>2, <2>3, <2>4, <2>5
<1>12. StoredPushed'
    <2>1. \A u \in Producers : /\ pc'[u] = "publish" <=> pc[u] = "publish"
                               /\ pc[u] = "publish" => Inside(u) /\ Pushing(u)
        BY InsidePushes DEF SamePushers, SamePush
    <2>2. ASSUME NEW u \in Producers, pc[u] = "publish"
          PROVE  k[u] \in Stored'
        <3>1. k[u] \in Stored /\ k[u] \in Nat
            BY <2>2 DEF Core, StoredPushed, TypedState
        <3>2. mtail[Queue(k[u])] = Turn(k[u])
            BY <2>1, <2>2 DEF Core, PushesInLine
        <3>3. ~ (Queue(k[u]) = q /\ Turn(k[u]) <= Turn(t))
            <4>1. Turn(k[u]) \in Nat /\ mtail[q] \in Nat
                BY <3>1, <1>2, TicketFacts
            <4> QED BY <4>1, <3>2, <1>2
        <3> QED BY <3>1, <3>3, <1>3
    <2> QED BY <2>1, <2>2, <1>3 DEF Core, StoredPushed
<1>13. Invalid' = Invalid
    <2>1. \A v : Passed(v)' <=> Passed(v)
        BY InsidePushes DEF Passed, SamePushers, SamePush
    <2>2. ASSUME NEW v \in Nat, v # t
          PROVE  Unpopped(v)' <=> Unpopped(v)
        BY <2>2, <1>5, <1>6 DEF Unpopped
    <2>3. ASSUME NEW v, v = t
          PROVE  ~ Unpopped(v) /\ ~ Unpopped(v)'
        BY <2>3, <1>8 DEF Unpopped
    <2>4. ASSUME NEW v \in Nat, Unpopped(v), v # t
          PROVE  v \in Stored' <=> v \in Stored
        <3>1. mhead'[Queue(v)] <= Turn(v)
            BY <2>4, <1>6 DEF Unpopped
        <3>2. ~ (Queue(v) = q /\ Turn(v) <= Turn(t))
            <4>1. Turn(v) \in Nat
                BY TicketTyped
            <4> QED BY <4>1, <3>1, <1>2, <1>4, Sizes
        <3> QED BY <3>2, <1>3
    <2>5. \A v \in 0 .. tail_counter - 1 : v \in Nat
        OBVIOUS
    <2> QED BY <2>1, <2>2, <2>3, <2>4, <2>5, <1>1 DEF Invalid
<1>14. InvalidCounted'
    BY <1>13 DEF InvalidCounted
<1> QED BY <1>3, <1>9, <1>10, <1>11, <1>12, <1>14 DEF Core

-----------------------------------------------------------------------------
(* The invariant by sides: what it says of the pushes and of the pops besides *)
(* the micro queues.                                                        *)

PushSide ==
    /\ s_waiting \cup s_fresh \cup s_asleep \cup s_chosen \cup s_aborted \subseteq Producers
    /\ void \subseteq Producers
    /\ \A p \in Producers :
          /\ pc[p] \in {"try", "cas"} => k[p] < MaxTickets
          /\ pc[p] = "notify" => k[p] < tail_counter
          /\ p \in s_waiting => /\ p \notin s_chosen
                                /\ pc[p] \in {"test", "commit", "asleep", "cancel"}
          /\ p \in s_chosen =>
                pc[p] \in {"prepare", "test", "commit", "asleep", "cancel", "leave"}
    /\ RoomSeen

PopSide ==
    /\ i_waiting \cup i_fresh \cup i_asleep \cup i_chosen \cup i_aborted \subseteq Consumers
    /\ \A c \in Consumers :
          /\ pc[c] = "notify" => k[c] < head_counter
          /\ c \in i_waiting => /\ c \notin i_chosen
                                /\ pc[c] \in {"test", "commit", "asleep", "cancel"}
          /\ c \in i_chosen =>
                pc[c] \in {"prepare", "test", "commit", "asleep", "cancel", "leave", "giveback"}
    /\ ItemSeen /\ GivenBackLast

\* One pop more than the bound may have been counted.
Sides ==
    /\ Core /\ InvalidCounted /\ PushSide /\ PopSide
    /\ head_counter <= MaxTickets + Cardinality(Consumers) + 1

LEMMA SidesOf == QueueInv => Sides /\ head_counter \in AllTickets
<1> SUFFICES ASSUME QueueInv
             PROVE  Sides /\ head_counter \in AllTickets
    OBVIOUS
<1>1. head_counter \in AllTickets /\ head_counter \in Nat
      /\ head_counter <= MaxTickets + Cardinality(Consumers) + 1
    BY Sizes DEF QueueInv, TypeOK, AllTickets
<1>2. TypedState
    BY <1>1 DEF QueueInv, TypeOK, TypedState
<1>3. PushSide
    <2>1. /\ s_waiting \cup s_fresh \cup s_asleep \cup s_chosen \cup s_aborted \subseteq Producers
          /\ void \subseteq Producers /\ RoomSeen
        BY DEF QueueInv, TypeOK
    <2>2. TicketsInRange /\ WaitersOnly
        BY DEF QueueInv
    <2>3. \A p \in Producers : /\ pc[p] \in {"try", "cas"} => k[p] < MaxTickets
                               /\ pc[p] = "notify" => k[p] < tail_counter
        BY <2>2 DEF TicketsInRange
    <2>4. \A p \in Producers :
              /\ p \in s_waiting => /\ p \notin s_chosen
                                    /\ pc[p] \in {"test", "commit", "asleep", "cancel"}
              /\ p \in s_chosen =>
                    pc[p] \in {"prepare", "test", "commit", "asleep", "cancel", "leave"}
        BY <2>2 DEF WaitersOnly
    <2> QED BY <2>1, <2>3, <2>4 DEF PushSide
<1>4. PopSide
    BY DEF QueueInv, TypeOK, TicketsInRange, WaitersOnly, PopSide
<1> QED BY <1>1, <1>2, <1>3, <1>4 DEF QueueInv, Core, Sides

LEMMA SidesMake == Sides => QueueInv
<1> SUFFICES ASSUME Sides
             PROVE  QueueInv
    OBVIOUS
<1>1. Core /\ InvalidCounted /\ PushSide /\ PopSide /\ TypedState
    BY DEF Sides, Core
<1>2. head_counter \in 0..(MaxTickets + Cardinality(Consumers))
    <2>1. head_counter <= MaxTickets + Cardinality(Consumers)
        BY HeadBounded DEF Sides, Core
    <2> QED BY <1>1, <2>1, Sizes DEF TypedState
<1>3. n_invalid_entries \in 0..MaxTickets
    BY <1>1, InvalidBounded DEF InvalidCounted
<1>4. TypeOK
    BY <1>1, <1>2, <1>3 DEF TypeOK, TypedState, PushSide, PopSide
<1>5. TicketsDistinct
    BY <1>1 DEF TicketsDistinct, Core, PushesInLine, PopsInLine, Pushing, Popping
<1>6. TicketsInRange
    BY <1>1 DEF TicketsInRange, PushSide, PopSide
<1>7. WaitersOnly
    BY <1>1 DEF WaitersOnly, PushSide, PopSide
<1> QED BY <1>1, <1>4, <1>5, <1>6, <1>7 DEF QueueInv, Core, PushSide, PopSide

LEMMA SidesMakeNext == Sides' => QueueInv'
    BY SidesMake, PTL

-----------------------------------------------------------------------------
(* A thread moves. *)

LEMMA PusherMoves ==
    ASSUME TypedState, NEW p \in Producers, NEW loc \in Locs, Goto(p, loc),
           \A u \in Producers \cup Consumers : u # p => k'[u] = k[u]
    PROVE  /\ pc' \in [Threads -> Locs] /\ pc'[p] = loc
           /\ \A u \in Producers \ {p} : pc'[u] = pc[u] /\ k'[u] = k[u] /\ SamePush(u)
           /\ \A u \in Consumers : pc'[u] = pc[u] /\ k'[u] = k[u]
           /\ \A u \in Aborters : pc'[u] = pc[u]
           /\ SamePoppers
<1>1. pc' \in [Threads -> Locs] /\ pc'[p] = loc /\ \A u \in Threads : u # p => pc'[u] = pc[u]
    BY RolesApart DEF TypedState, Goto
<1>2. /\ \A u \in Producers \ {p} : pc'[u] = pc[u] /\ k'[u] = k[u]
      /\ \A u \in Consumers : pc'[u] = pc[u] /\ k'[u] = k[u]
      /\ \A u \in Aborters : pc'[u] = pc[u]
    BY <1>1, RolesApart
<1>3. \A u \in Producers \ {p} : SamePush(u)
    BY <1>2 DEF SamePush, Pushing, Claimed, Inside
<1>4. SamePoppers
    BY <1>2 DEF SamePoppers, SamePop, Popping, HasTicket
<1> QED BY <1>1, <1>2, <1>3, <1>4

LEMMA PopperMoves ==
    ASSUME TypedState, NEW c \in Consumers, NEW loc \in Locs, Goto(c, loc),
           \A u \in Producers \cup Consumers : u # c => k'[u] = k[u]
    PROVE  /\ pc' \in [Threads -> Locs] /\ pc'[c] = loc
           /\ \A u \in Consumers \ {c} : pc'[u] = pc[u] /\ k'[u] = k[u] /\ SamePop(u)
           /\ \A u \in Producers : pc'[u] = pc[u] /\ k'[u] = k[u]
           /\ \A u \in Aborters : pc'[u] = pc[u]
           /\ SamePushers
<1>1. pc' \in [Threads -> Locs] /\ pc'[c] = loc /\ \A u \in Threads : u # c => pc'[u] = pc[u]
    BY RolesApart DEF TypedState, Goto
<1>2. /\ \A u \in Consumers \ {c} : pc'[u] = pc[u] /\ k'[u] = k[u]
      /\ \A u \in Producers : pc'[u] = pc[u] /\ k'[u] = k[u]
      /\ \A u \in Aborters : pc'[u] = pc[u]
    BY <1>1, RolesApart
<1>3. \A u \in Consumers \ {c} : SamePop(u)
    BY <1>2 DEF SamePop, Popping, HasTicket
<1>4. SamePushers
    BY <1>2 DEF SamePushers, SamePush, Pushing, Claimed, Inside
<1> QED BY <1>1, <1>2, <1>3, <1>4

\* The side of the pushes when one of them moves.
LEMMA PushSideMoves ==
    ASSUME TypedState, PushSide, NEW p \in Producers, TypedState',
           \A u \in Producers \ {p} : pc'[u] = pc[u] /\ k'[u] = k[u],
           \A a \in Aborters : pc'[a] = pc[a],
           head_counter' = head_counter, tail_counter' >= tail_counter,
           s_waiting' \cup s_fresh' \cup s_asleep' \cup s_chosen' \cup s_aborted' \subseteq Producers,
           void' \subseteq Producers,
           \A u \in Producers \ {p} : /\ u \in s_waiting' <=> u \in s_waiting
                                      /\ u \in s_chosen' <=> u \in s_chosen,
           pc'[p] \in {"try", "cas"} => k'[p] < MaxTickets,
           pc'[p] = "notify" => k'[p] < tail_counter',
           p \in s_waiting' => /\ p \notin s_chosen'
                               /\ pc'[p] \in {"test", "commit", "asleep", "cancel"},
           p \in s_chosen' =>
               pc'[p] \in {"prepare", "test", "commit", "asleep", "cancel", "leave"},
           Unaborted =>
               /\ \/ pc'[p] \in {"cas", "cancel", "leave", "turn", "store", "publish"}
                  \/ p \in s_chosen'
                  => k'[p] < head_counter + Capacity
               /\ \A t \in Stored' : t \in Stored \/ t < head_counter + Capacity
    PROVE  PushSide'
<1>1. \A u \in Producers : k[u] \in Nat /\ tail_counter \in Nat /\ tail_counter' \in Nat
    BY Sizes DEF TypedState
<1>2. Unaborted' <=> Unaborted
    BY DEF Unaborted
<1>3. RoomSeen'
    BY <1>2 DEF PushSide, RoomSeen
<1>4. \A u \in Producers :
          /\ pc'[u] \in {"try", "cas"} => k'[u] < MaxTickets
          /\ pc'[u] = "notify" => k'[u] < tail_counter'
          /\ u \in s_waiting' => /\ u \notin s_chosen'
                                 /\ pc'[u] \in {"test", "commit", "asleep", "cancel"}
          /\ u \in s_chosen' =>
                pc'[u] \in {"prepare", "test", "commit", "asleep", "cancel", "leave"}
    BY <1>1 DEF PushSide
<1> QED BY <1>3, <1>4 DEF PushSide

\* The side of the pushes when a pop moves.
LEMMA PushSideStays ==
    ASSUME TypedState, PushSide, TypedState',
           \A u \in Producers : pc'[u] = pc[u] /\ k'[u] = k[u],
           \A a \in Aborters : pc'[a] = pc[a],
           Unaborted => head_counter' >= head_counter,
           tail_counter' = tail_counter, UNCHANGED slots_avail, void' = void,
           Stored' \subseteq Stored
    PROVE  PushSide'
<1>1. /\ s_waiting' = s_waiting /\ s_fresh' = s_fresh /\ s_asleep' = s_asleep
      /\ s_chosen' = s_chosen /\ s_aborted' = s_aborted
    BY DEF slots_avail
<1>2. Unaborted' <=> Unaborted
    BY DEF Unaborted
<1>3. RoomSeen'
    <2> SUFFICES ASSUME Unaborted
                 PROVE  /\ \A p \in Producers :
                              \/ pc[p] \in {"cas", "cancel", "leave", "turn", "store", "publish"}
                              \/ p \in s_chosen
                              => k[p] < head_counter' + Capacity
                        /\ \A t \in Stored' : t < head_counter' + Capacity
        BY <1>1, <1>2 DEF RoomSeen
    <2>1. /\ head_counter \in Nat /\ head_counter' \in Nat /\ Capacity \in Nat
          /\ head_counter' >= head_counter
          /\ \A p \in Producers : k[p] \in Nat
          /\ \A t \in Stored : t \in Nat
        BY Sizes DEF TypedState, Stored
    <2> QED BY <2>1 DEF PushSide, RoomSeen
<1> QED BY <1>1, <1>3 DEF PushSide

\* The side of the pops when one of them moves.
LEMMA PopSideMoves ==
    ASSUME TypedState, PopSide, NEW c \in Consumers, TypedState',
           pc[c] # "away", pc'[c] # "away",
           \A u \in Consumers \ {c} : pc'[u] = pc[u] /\ k'[u] = k[u] /\ SamePop(u),
           \A a \in Aborters : pc'[a] = pc[a],
           \/ head_counter' >= head_counter
           \/ \A u \in Consumers \ {c} : pc[u] = "away",
           tail_counter' = tail_counter,
           i_waiting' \cup i_fresh' \cup i_asleep' \cup i_chosen' \cup i_aborted' \subseteq Consumers,
           \A u \in Consumers \ {c} : /\ u \in i_waiting' <=> u \in i_waiting
                                      /\ u \in i_chosen' <=> u \in i_chosen
                                      /\ u \in i_aborted' <=> u \in i_aborted,
           i_aborted' \subseteq i_aborted,
           pc'[c] = "notify" => k'[c] < head_counter',
           c \in i_waiting' => /\ c \notin i_chosen'
                               /\ pc'[c] \in {"test", "commit", "asleep", "cancel"},
           c \in i_chosen' =>
               pc'[c] \in {"prepare", "test", "commit", "asleep", "cancel", "leave", "giveback"},
           \/ pc'[c] \in {"cas", "cancel", "leave", "turn", "finish"}
           \/ c \in i_chosen' \ i_aborted'
           => k'[c] < tail_counter,
           Unaborted => pc'[c] # "giveback",
           Popping(c)' => \/ Popping(c) /\ k'[c] = k[c] /\ head_counter' = head_counter
                          \/ k'[c] = head_counter' - 1
    PROVE  PopSide'
<1>1. /\ \A u \in Consumers : k[u] \in Nat
      /\ head_counter \in Nat /\ head_counter' \in Nat
    BY DEF TypedState
<1>2. Unaborted' <=> Unaborted
    BY DEF Unaborted
<1>3. ItemSeen'
    BY DEF PopSide, ItemSeen
<1>4. \A u \in Consumers :
          /\ pc'[u] = "notify" => k'[u] < head_counter'
          /\ u \in i_waiting' => /\ u \notin i_chosen'
                                 /\ pc'[u] \in {"test", "commit", "asleep", "cancel"}
          /\ u \in i_chosen' =>
                pc'[u] \in {"prepare", "test", "commit", "asleep", "cancel", "leave", "giveback"}
    BY <1>1 DEF PopSide
<1>5. GivenBackLast'
    <2>1. Unaborted => i_aborted' = {} /\ \A u \in Consumers : pc'[u] # "giveback"
        BY DEF PopSide, GivenBackLast
    <2>2. ASSUME NEW a \in Aborters, pc[a] # "away",
                 NEW u \in Consumers, pc'[u] # "away"
          PROVE  /\ \A d \in Consumers : pc'[d] # "away" => u = d
                 /\ Popping(u)' => k'[u] = head_counter' - 1
        <3>1. pc[u] # "away" /\ \A d \in Consumers : pc'[d] # "away" => pc[d] # "away"
            BY <2>2
        <3>2. \A d, e \in Consumers : pc[d] # "away" /\ pc[e] # "away" => d = e
            BY <2>2 DEF PopSide, GivenBackLast
        <3>3. u = c
            BY <3>1, <3>2
        <3>4. Popping(c) => k[c] = head_counter - 1
            BY <2>2 DEF PopSide, GivenBackLast
        <3> QED BY <3>1, <3>2, <3>3, <3>4
    <2> QED BY <2>1, <2>2, <1>2 DEF GivenBackLast
<1> QED BY <1>3, <1>4, <1>5 DEF PopSide

\* The side of the pops when a push moves.
LEMMA PopSideStays ==
    ASSUME TypedState, PopSide, TypedState', SamePoppers,
           \A u \in Consumers : pc'[u] = pc[u] /\ k'[u] = k[u],
           \A a \in Aborters : pc'[a] = pc[a],
           head_counter' = head_counter, tail_counter' >= tail_counter, UNCHANGED items_avail
    PROVE  PopSide'
<1>1. /\ i_waiting' = i_waiting /\ i_fresh' = i_fresh /\ i_asleep' = i_asleep
      /\ i_chosen' = i_chosen /\ i_aborted' = i_aborted
    BY DEF items_avail
<1>2. \A u \in Consumers : k[u] \in Nat /\ tail_counter \in Nat /\ tail_counter' \in Nat
    BY Sizes DEF TypedState
<1>3. ItemSeen'
    BY <1>1, <1>2 DEF PopSide, ItemSeen
<1>4. GivenBackLast'
    BY <1>1 DEF PopSide, GivenBackLast, Unaborted, Popping, HasTicket
<1> QED BY <1>1, <1>3, <1>4 DEF PopSide

-----------------------------------------------------------------------------
(* One lemma for each action. *)

\* A step of a push that keeps its ticket, or that has none before and after.
LEMMA PushLocal ==
    ASSUME QueueInv, NEW p \in Producers, NEW loc \in Locs, Goto(p, loc),
           UNCHANGED <<counters, micro, items_avail, got>>,
           k' \in [Producers \cup Consumers -> Nat],
           \A u \in Producers \cup Consumers : u # p => k'[u] = k[u],
           Pushing(p) <=> loc \in {"full", "prepare", "test", "commit", "asleep", "cancel",
                                   "leave", "turn"},
           ~ Inside(p),
           loc \notin {"store", "publish", "skip"},
           Pushing(p) => k'[p] = k[p],
           s_waiting' \cup s_fresh' \cup s_asleep' \cup s_chosen' \cup s_aborted' \subseteq Producers,
           void' \subseteq Producers,
           \A u \in Producers \ {p} : /\ u \in s_waiting' <=> u \in s_waiting
                                      /\ u \in s_chosen' <=> u \in s_chosen,
           loc \in {"try", "cas"} => k'[p] < MaxTickets,
           loc # "notify",
           p \in s_waiting' => /\ p \notin s_chosen'
                               /\ loc \in {"test", "commit", "asleep", "cancel"},
           p \in s_chosen' => loc \in {"prepare", "test", "commit", "asleep", "cancel", "leave"},
           Unaborted => (loc \in {"cas", "cancel", "leave", "turn"} \/ p \in s_chosen'
                            => k'[p] < head_counter + Capacity)
    PROVE  QueueInv'
<1>1. Sides /\ Core /\ TypedState /\ InvalidCounted /\ PushSide /\ PopSide
    BY SidesOf DEF Sides, Core
<1>2. /\ pc' \in [Threads -> Locs] /\ pc'[p] = loc
      /\ \A u \in Producers \ {p} : pc'[u] = pc[u] /\ k'[u] = k[u] /\ SamePush(u)
      /\ \A u \in Consumers : pc'[u] = pc[u] /\ k'[u] = k[u]
      /\ \A u \in Aborters : pc'[u] = pc[u]
      /\ SamePoppers
    BY <1>1, PusherMoves
<1>3. /\ head_counter' = head_counter /\ tail_counter' = tail_counter
      /\ mhead' = mhead /\ mtail' = mtail /\ pages' = pages /\ got' = got
    BY DEF counters, micro
<1>4. TypedState'
    BY <1>1, <1>2, <1>3 DEF TypedState
<1>5. SamePushers
    <2>1. SamePush(p)
        BY <1>2 DEF SamePush, Pushing, Claimed, Inside
    <2> QED BY <2>1, <1>2 DEF SamePushers
<1>6. Core' /\ InvalidCounted' /\ Stored' = Stored
    BY <1>1, <1>2, <1>4, <1>5, CoreStays
<1>7. PushSide'
    <2>1. tail_counter' >= tail_counter
        BY <1>1, <1>3, Sizes DEF TypedState
    <2>2. Unaborted => \A t \in Stored' : t \in Stored \/ t < head_counter + Capacity
        BY <1>6
    <2> QED BY <1>1, <1>2, <1>3, <1>4, <2>1, <2>2, PushSideMoves
<1>8. PopSide'
    <2>1. tail_counter' >= tail_counter
        BY <1>1, <1>3, Sizes DEF TypedState
    <2> QED BY <1>1, <1>2, <1>3, <1>4, <2>1, PopSideStays
<1>9. Sides'
    BY <1>1, <1>3, <1>6, <1>7, <1>8 DEF Sides
<1> QED BY <1>9, SidesMakeNext

\* A step of a pop that keeps its ticket, or that has none before and after.
LEMMA PopLocal ==
    ASSUME QueueInv, NEW c \in Consumers, NEW loc \in Locs, Goto(c, loc),
           pc[c] # "away", loc # "away",
           UNCHANGED <<counters, micro, slots_avail, void>>,
           got' \in [Consumers -> Tickets \cup {Absent}],
           k' \in [Producers \cup Consumers -> Nat],
           \A u \in Producers \cup Consumers : u # c => k'[u] = k[u],
           Popping(c) <=> loc \in {"full", "prepare", "test", "commit", "asleep", "cancel",
                                   "leave", "giveback", "turn"},
           pc[c] # "finish", loc # "finish", loc # "notify",
           Popping(c) => k'[c] = k[c],
           i_waiting' \cup i_fresh' \cup i_asleep' \cup i_chosen' \cup i_aborted' \subseteq Consumers,
           \A u \in Consumers \ {c} : /\ u \in i_waiting' <=> u \in i_waiting
                                      /\ u \in i_chosen' <=> u \in i_chosen
                                      /\ u \in i_aborted' <=> u \in i_aborted,
           i_aborted' \subseteq i_aborted,
           c \in i_waiting' => /\ c \notin i_chosen'
                               /\ loc \in {"test", "commit", "asleep", "cancel"},
           c \in i_chosen' =>
               loc \in {"prepare", "test", "commit", "asleep", "cancel", "leave", "giveback"},
           loc \in {"cas", "cancel", "leave", "turn"} \/ c \in i_chosen' \ i_aborted'
               => k'[c] < tail_counter,
           Unaborted => loc # "giveback"
    PROVE  QueueInv'
<1>1. Sides /\ Core /\ TypedState /\ InvalidCounted /\ PushSide /\ PopSide
    BY SidesOf DEF Sides, Core
<1>2. /\ pc' \in [Threads -> Locs] /\ pc'[c] = loc
      /\ \A u \in Consumers \ {c} : pc'[u] = pc[u] /\ k'[u] = k[u] /\ SamePop(u)
      /\ \A u \in Producers : pc'[u] = pc[u] /\ k'[u] = k[u]
      /\ \A u \in Aborters : pc'[u] = pc[u]
      /\ SamePushers
    BY <1>1, PopperMoves
<1>3. /\ head_counter' = head_counter /\ tail_counter' = tail_counter
      /\ mhead' = mhead /\ mtail' = mtail /\ pages' = pages
    BY DEF counters, micro
<1>4. TypedState'
    BY <1>1, <1>2, <1>3 DEF TypedState
<1>5. SamePop(c) /\ (Popping(c)' => Popping(c) /\ k'[c] = k[c])
    BY <1>2 DEF SamePop, Popping, HasTicket
<1>6. Core' /\ InvalidCounted' /\ Stored' = Stored
    <2>1. SamePoppers
        BY <1>2, <1>5 DEF SamePoppers
    <2> QED BY <2>1, <1>1, <1>2, <1>4, CoreStays
<1>7. head_counter' >= head_counter
    BY <1>1, <1>3 DEF TypedState
<1>8. PushSide'
    BY <1>1, <1>2, <1>3, <1>4, <1>6, <1>7, PushSideStays
<1>9. PopSide'
    BY <1>1, <1>2, <1>3, <1>4, <1>5, <1>7, PopSideMoves
<1>10. Sides'
    BY <1>1, <1>3, <1>6, <1>8, <1>9 DEF Sides
<1> QED BY <1>10, SidesMakeNext

\* What QueueInv says of a thread, in the form the actions use.
LEMMA PusherFacts ==
    ASSUME QueueInv, NEW p \in Producers
    PROVE  /\ p \in Threads /\ pc[p] \in Locs /\ k[p] \in Nat /\ k \in [Producers \cup Consumers -> Nat]
           /\ tail_counter \in Nat /\ tail_counter <= MaxTickets /\ head_counter \in Nat
           /\ s_waiting \cup s_fresh \cup s_asleep \cup s_chosen \cup s_aborted \subseteq Producers
           /\ void \subseteq Producers
           /\ pc[p] \in {"try", "cas"} => k[p] < MaxTickets
           /\ p \in s_waiting => /\ p \notin s_chosen
                                 /\ pc[p] \in {"test", "commit", "asleep", "cancel"}
           /\ p \in s_chosen =>
                 pc[p] \in {"prepare", "test", "commit", "asleep", "cancel", "leave"}
           /\ Unaborted => (\/ pc[p] \in {"cas", "cancel", "leave", "turn", "store", "publish"}
                            \/ p \in s_chosen
                            => k[p] < head_counter + Capacity)
<1>1. TypedState /\ PushSide
    BY SidesOf DEF Sides, Core
<1>2. p \in Threads /\ pc[p] \in Locs /\ k[p] \in Nat /\ k \in [Producers \cup Consumers -> Nat]
      /\ tail_counter \in Nat /\ tail_counter <= MaxTickets /\ head_counter \in Nat
    BY <1>1, RolesApart, Sizes DEF TypedState
<1> QED BY <1>1, <1>2 DEF PushSide, RoomSeen

LEMMA PopperFacts ==
    ASSUME QueueInv, NEW c \in Consumers
    PROVE  /\ c \in Threads /\ pc[c] \in Locs /\ k[c] \in Nat /\ k \in [Producers \cup Consumers -> Nat]
           /\ tail_counter \in Nat /\ tail_counter <= MaxTickets /\ head_counter \in Nat
           /\ got \in [Consumers -> Tickets \cup {Absent}]
           /\ i_waiting \cup i_fresh \cup i_asleep \cup i_chosen \cup i_aborted \subseteq Consumers
           /\ c \in i_waiting => /\ c \notin i_chosen
                                 /\ pc[c] \in {"test", "commit", "asleep", "cancel"}
           /\ c \in i_chosen =>
                 pc[c] \in {"prepare", "test", "commit", "asleep", "cancel", "leave", "giveback"}
           /\ \/ pc[c] \in {"cas", "cancel", "leave", "turn", "finish"}
              \/ c \in i_chosen \ i_aborted
              => k[c] < tail_counter
           /\ Unaborted => i_aborted = {} /\ pc[c] # "giveback"
<1>1. TypedState /\ PopSide
    BY SidesOf DEF Sides, Core
<1>2. c \in Threads /\ pc[c] \in Locs /\ k[c] \in Nat /\ k \in [Producers \cup Consumers -> Nat]
      /\ tail_counter \in Nat /\ tail_counter <= MaxTickets /\ head_counter \in Nat
      /\ got \in [Consumers -> Tickets \cup {Absent}]
    BY <1>1, RolesApart, Sizes DEF TypedState
<1> QED BY <1>1, <1>2 DEF PopSide, ItemSeen, GivenBackLast

LEMMA PushFullKeeps ==
    ASSUME QueueInv, NEW p \in Producers, PushFull(p)
    PROVE  QueueInv'
<1> DEFINE loc == IF IsFull(k[p]) THEN "prepare" ELSE "turn"
<1>1. /\ pc[p] = "full" /\ Goto(p, loc) /\ loc \in Locs
      /\ UNCHANGED <<counters, micro, items_avail, got>>
      /\ k' = k /\ void' = void
      /\ s_waiting' = s_waiting /\ s_chosen' = s_chosen /\ s_fresh' = s_fresh
      /\ s_asleep' = s_asleep /\ s_aborted' = s_aborted
    BY DEF PushFull, monitors, slots_avail, Locs
<1>2. Pushing(p) /\ ~ Inside(p)
    BY <1>1 DEF Pushing, Claimed, Inside
<1>3. loc = "turn" => k[p] < head_counter + Capacity
    BY PusherFacts, Sizes DEF IsFull
<1> QED BY <1>1, <1>2, <1>3, PusherFacts, PushLocal

LEMMA PushPrepareKeeps ==
    ASSUME QueueInv, NEW p \in Producers, PushPrepare(p)
    PROVE  QueueInv'
<1>1. /\ pc[p] = "prepare" /\ k' = k /\ void' = void /\ "prepare" \in Locs /\ "test" \in Locs
      /\ UNCHANGED <<counters, micro, items_avail, got>>
    BY DEF PushPrepare, Locs
<1>2. Pushing(p) /\ ~ Inside(p)
    BY <1>1 DEF Pushing, Claimed, Inside
<1>3. CASE Slots!Pump(p) /\ UNCHANGED pc
    <2>1. /\ s_waiting' = s_waiting /\ s_chosen' = s_chosen \ {p} /\ s_fresh' = s_fresh
          /\ s_asleep' = s_asleep /\ s_aborted' = s_aborted
        BY <1>3 DEF Slots!Pump
    <2>2. Goto(p, "prepare")
        <3>1. pc \in [Threads -> Locs]
            BY SidesOf DEF Sides, Core, TypedState
        <3> QED BY <3>1, <1>1, <1>3 DEF Goto
    <2> QED BY <2>1, <2>2, <1>1, <1>2, PusherFacts, PushLocal
<1>4. CASE Slots!Announce(p) /\ Goto(p, "test")
    <2>1. /\ p \notin s_chosen
          /\ s_waiting' = s_waiting \cup {p} /\ s_chosen' = s_chosen /\ s_fresh' = s_fresh \cup {p}
          /\ s_asleep' = s_asleep /\ s_aborted' = s_aborted
        BY <1>4 DEF Slots!Announce
    <2> QED BY <2>1, <1>1, <1>2, <1>4, PusherFacts, PushLocal
<1> QED BY <1>3, <1>4 DEF PushPrepare

LEMMA PushTestKeeps ==
    ASSUME QueueInv, NEW p \in Producers, PushTest(p)
    PROVE  QueueInv'
<1> DEFINE loc == IF IsFull(k[p]) THEN "commit" ELSE "cancel"
<1>1. /\ pc[p] = "test" /\ Goto(p, loc) /\ loc \in Locs
      /\ UNCHANGED <<counters, micro, items_avail, got>>
      /\ k' = k /\ void' = void
      /\ s_waiting' = s_waiting /\ s_chosen' = s_chosen /\ s_fresh' = s_fresh
      /\ s_asleep' = s_asleep /\ s_aborted' = s_aborted
    BY DEF PushTest, monitors, slots_avail, Locs
<1>2. Pushing(p) /\ ~ Inside(p)
    BY <1>1 DEF Pushing, Claimed, Inside
<1>3. loc = "cancel" => k[p] < head_counter + Capacity
    BY PusherFacts, Sizes DEF IsFull
<1> QED BY <1>1, <1>2, <1>3, PusherFacts, PushLocal

LEMMA PushCommitKeeps ==
    ASSUME QueueInv, NEW p \in Producers, PushCommit(p)
    PROVE  QueueInv'
<1>1. /\ pc[p] = "commit" /\ k' = k /\ void' = void /\ "prepare" \in Locs /\ "asleep" \in Locs
      /\ UNCHANGED <<counters, micro, items_avail, got>>
    BY DEF PushCommit, Locs
<1>2. Pushing(p) /\ ~ Inside(p)
    BY <1>1 DEF Pushing, Claimed, Inside
<1>3. CASE Slots!Sleep(p) /\ Goto(p, "asleep")
    <2>1. /\ s_waiting' = s_waiting /\ s_chosen' = s_chosen /\ s_fresh' = s_fresh
          /\ s_asleep' = s_asleep \cup {p} /\ s_aborted' = s_aborted
        BY <1>3 DEF Slots!Sleep
    <2> QED BY <2>1, <1>1, <1>2, <1>3, PusherFacts, PushLocal
<1>4. CASE Slots!Cancel(p) /\ Goto(p, "prepare")
    <2>1. /\ s_waiting' = s_waiting \ {p} /\ s_chosen' = s_chosen /\ s_fresh' = s_fresh
          /\ s_asleep' = s_asleep /\ s_aborted' = s_aborted
        BY <1>4 DEF Slots!Cancel
    <2> QED BY <2>1, <1>1, <1>2, <1>4, PusherFacts, PushLocal
<1>5. CASE p \notin s_waiting /\ Goto(p, "prepare") /\ UNCHANGED slots_avail
    <2>1. /\ s_waiting' = s_waiting /\ s_chosen' = s_chosen /\ s_fresh' = s_fresh
          /\ s_asleep' = s_asleep /\ s_aborted' = s_aborted
        BY <1>5 DEF slots_avail
    <2> QED BY <2>1, <1>1, <1>2, <1>5, PusherFacts, PushLocal
<1> QED BY <1>3, <1>4, <1>5 DEF PushCommit

LEMMA PushWakeKeeps ==
    ASSUME QueueInv, NEW p \in Producers, PushWake(p)
    PROVE  QueueInv'
<1>1. /\ pc[p] = "asleep" /\ Goto(p, "leave") /\ k' = k /\ "leave" \in Locs
      /\ void' \subseteq void \cup {p}
      /\ UNCHANGED <<counters, micro, items_avail, got>>
    BY DEF PushWake, Locs
<1>2. Pushing(p) /\ ~ Inside(p)
    BY <1>1 DEF Pushing, Claimed, Inside
<1>3. /\ p \in s_chosen
      /\ s_waiting' = s_waiting /\ s_chosen' = s_chosen \ {p} /\ s_fresh' = s_fresh
      /\ s_asleep' = s_asleep \ {p} /\ s_aborted' = s_aborted
    BY DEF PushWake, Slots!Return
<1> QED BY <1>1, <1>2, <1>3, PusherFacts, PushLocal

LEMMA PushCancelKeeps ==
    ASSUME QueueInv, NEW p \in Producers, PushCancel(p)
    PROVE  QueueInv'
<1>1. /\ pc[p] = "cancel" /\ Goto(p, "leave") /\ k' = k /\ void' = void /\ "leave" \in Locs
      /\ UNCHANGED <<counters, micro, items_avail, got>>
    BY DEF PushCancel, Locs
<1>2. Pushing(p) /\ ~ Inside(p)
    BY <1>1 DEF Pushing, Claimed, Inside
<1>3. /\ s_waiting' = s_waiting \ {p} /\ s_chosen' = s_chosen /\ s_fresh' = s_fresh
      /\ s_asleep' = s_asleep /\ s_aborted' = s_aborted
    BY DEF PushCancel, Slots!Cancel, slots_avail
<1> QED BY <1>1, <1>2, <1>3, PusherFacts, PushLocal

LEMMA PushLeaveKeeps ==
    ASSUME QueueInv, NEW p \in Producers, PushLeave(p)
    PROVE  QueueInv'
<1>1. /\ pc[p] = "leave" /\ Goto(p, "turn") /\ k' = k /\ void' = void /\ "turn" \in Locs
      /\ UNCHANGED <<counters, micro, items_avail, got>>
    BY DEF PushLeave, Locs
<1>2. Pushing(p) /\ ~ Inside(p)
    BY <1>1 DEF Pushing, Claimed, Inside
<1>3. /\ p \notin s_waiting
      /\ s_waiting' = s_waiting /\ s_chosen' = s_chosen \ {p} /\ s_fresh' = s_fresh \ {p}
      /\ s_asleep' = s_asleep /\ s_aborted' = s_aborted \ {p}
    BY DEF PushLeave, Slots!Forget
<1> QED BY <1>1, <1>2, <1>3, PusherFacts, PushLocal

LEMMA TryPushKeeps ==
    ASSUME QueueInv, NEW p \in Producers, TryPush(p)
    PROVE  QueueInv'
<1>1. /\ pc[p] = "idle" /\ Goto(p, "try") /\ "try" \in Locs /\ void' = void
      /\ k' = [k EXCEPT ![p] = tail_counter] /\ tail_counter < MaxTickets
      /\ UNCHANGED <<counters, micro, items_avail, got>>
      /\ s_waiting' = s_waiting /\ s_chosen' = s_chosen /\ s_fresh' = s_fresh
      /\ s_asleep' = s_asleep /\ s_aborted' = s_aborted
    BY DEF TryPush, monitors, slots_avail, Locs
<1>2. ~ Pushing(p) /\ ~ Inside(p)
    BY <1>1 DEF Pushing, Claimed, Inside
<1>3. /\ k' \in [Producers \cup Consumers -> Nat] /\ k'[p] = tail_counter
      /\ \A u \in Producers \cup Consumers : u # p => k'[u] = k[u]
    BY <1>1, PusherFacts
<1> QED BY <1>1, <1>2, <1>3, PusherFacts, PushLocal

LEMMA TryPushFullKeeps ==
    ASSUME QueueInv, NEW p \in Producers, TryPushFull(p)
    PROVE  QueueInv'
<1>1. /\ pc[p] = "try" /\ void' = void /\ "idle" \in Locs /\ "cas" \in Locs
      /\ UNCHANGED <<counters, micro, items_avail, got>>
      /\ s_waiting' = s_waiting /\ s_chosen' = s_chosen /\ s_fresh' = s_fresh
      /\ s_asleep' = s_asleep /\ s_aborted' = s_aborted
    BY DEF TryPushFull, monitors, slots_avail, Locs
<1>2. ~ Pushing(p) /\ ~ Inside(p)
    BY <1>1 DEF Pushing, Claimed, Inside
<1>3. CASE Finish(p)
    <2>1. /\ Goto(p, "idle") /\ k' \in [Producers \cup Consumers -> Nat]
          /\ \A u \in Producers \cup Consumers : u # p => k'[u] = k[u]
        BY <1>3, PusherFacts DEF Finish
    <2> QED BY <2>1, <1>1, <1>2, PusherFacts, PushLocal
<1>4. CASE ~ IsFull(k[p]) /\ Goto(p, "cas") /\ UNCHANGED k
    <2>1. k[p] < head_counter + Capacity
        BY <1>4, PusherFacts, Sizes DEF IsFull
    <2> QED BY <2>1, <1>1, <1>2, <1>4, PusherFacts, PushLocal
<1> QED BY <1>3, <1>4 DEF TryPushFull

\* A push takes the ticket it asked for.
LEMMA PushClaimed ==
    ASSUME QueueInv, NEW p \in Producers, NEW loc \in {"full", "turn"}, Goto(p, loc),
           pc[p] \in {"idle", "cas"},
           tail_counter < MaxTickets, tail_counter' = tail_counter + 1,
           head_counter' = head_counter, UNCHANGED <<micro, monitors, void, got>>,
           k' = [k EXCEPT ![p] = tail_counter],
           loc = "turn" => (Unaborted => tail_counter < head_counter + Capacity)
    PROVE  QueueInv'
<1>1. Sides /\ Core /\ TypedState /\ InvalidCounted /\ PushSide /\ PopSide
    BY SidesOf DEF Sides, Core
<1>2. loc \in Locs
    BY DEF Locs
<1>3. /\ k' \in [Producers \cup Consumers -> Nat] /\ k'[p] = tail_counter
      /\ \A u \in Producers \cup Consumers : u # p => k'[u] = k[u]
    BY PusherFacts
<1>4. /\ pc' \in [Threads -> Locs] /\ pc'[p] = loc
      /\ \A u \in Producers \ {p} : pc'[u] = pc[u] /\ k'[u] = k[u] /\ SamePush(u)
      /\ \A u \in Consumers : pc'[u] = pc[u] /\ k'[u] = k[u]
      /\ \A u \in Aborters : pc'[u] = pc[u]
      /\ SamePoppers
    BY <1>1, <1>2, <1>3, PusherMoves
<1>5. /\ mhead' = mhead /\ mtail' = mtail /\ pages' = pages /\ got' = got /\ void' = void
      /\ s_waiting' = s_waiting /\ s_chosen' = s_chosen /\ s_fresh' = s_fresh
      /\ s_asleep' = s_asleep /\ s_aborted' = s_aborted /\ UNCHANGED items_avail
    BY DEF micro, monitors, slots_avail
<1>6. TypedState' /\ tail_counter' >= tail_counter
    <2>1. tail_counter' \in 0 .. MaxTickets /\ tail_counter' >= tail_counter
        BY PusherFacts, Sizes
    <2> QED BY <2>1, <1>1, <1>3, <1>4, <1>5 DEF TypedState
<1>7. ~ Pushing(p) /\ Pushing(p)' /\ ~ Inside(p)'
    BY <1>4 DEF Pushing, Claimed, Inside
<1>8. Core' /\ InvalidCounted' /\ Stored' = Stored
    BY <1>1, <1>3, <1>4, <1>6, <1>7, PushTaken
<1>9. PushSide'
    <2>1. p \notin s_waiting /\ p \notin s_chosen
        BY PusherFacts
    <2>2. Unaborted => \A t \in Stored' : t \in Stored \/ t < head_counter + Capacity
        BY <1>8
    <2> QED BY <2>1, <2>2, <1>1, <1>3, <1>4, <1>5, <1>6, PusherFacts, PushSideMoves
<1>10. PopSide'
    BY <1>1, <1>4, <1>5, <1>6, PopSideStays
<1>11. Sides'
    BY <1>1, <1>8, <1>9, <1>10 DEF Sides
<1> QED BY <1>11, SidesMakeNext

LEMMA PushKeeps ==
    ASSUME QueueInv, NEW p \in Producers, Push(p)
    PROVE  QueueInv'
<1>1. "full" \in {"full", "turn"} /\ "full" # "turn"
    OBVIOUS
<1> QED BY <1>1, PushClaimed DEF Push

LEMMA TryPushClaimKeeps ==
    ASSUME QueueInv, NEW p \in Producers, TryPushClaim(p)
    PROVE  QueueInv'
<1>1. /\ pc[p] = "cas" /\ void' = void /\ "idle" \in Locs /\ "try" \in Locs
      /\ UNCHANGED <<micro, monitors, items_avail, void, got>>
      /\ s_waiting' = s_waiting /\ s_chosen' = s_chosen /\ s_fresh' = s_fresh
      /\ s_asleep' = s_asleep /\ s_aborted' = s_aborted
    BY DEF TryPushClaim, monitors, slots_avail, Locs
<1>2. ~ Pushing(p) /\ ~ Inside(p)
    BY <1>1 DEF Pushing, Claimed, Inside
<1>3. CASE /\ k[p] = tail_counter
           /\ tail_counter' = tail_counter + 1
           /\ Goto(p, "turn") /\ UNCHANGED <<head_counter, k>>
    <2>1. k' = [k EXCEPT ![p] = tail_counter]
        BY <1>3, PusherFacts
    <2>2. tail_counter < MaxTickets /\ (Unaborted => tail_counter < head_counter + Capacity)
        BY <1>1, <1>3, PusherFacts
    <2>3. "turn" \in {"full", "turn"}
        OBVIOUS
    <2> QED BY <2>1, <2>2, <2>3, <1>1, <1>3, PushClaimed
<1>4. CASE /\ k[p] # tail_counter /\ tail_counter < MaxTickets
           /\ k' = [k EXCEPT ![p] = tail_counter]
           /\ Goto(p, "try") /\ UNCHANGED counters
    <2>1. /\ k' \in [Producers \cup Consumers -> Nat] /\ k'[p] = tail_counter
          /\ \A u \in Producers \cup Consumers : u # p => k'[u] = k[u]
        BY <1>4, PusherFacts
    <2> QED BY <2>1, <1>1, <1>2, <1>4, PusherFacts, PushLocal
<1>5. CASE Finish(p) /\ UNCHANGED counters
    <2>1. /\ Goto(p, "idle") /\ k' \in [Producers \cup Consumers -> Nat]
          /\ \A u \in Producers \cup Consumers : u # p => k'[u] = k[u]
        BY <1>5, PusherFacts DEF Finish
    <2> QED BY <2>1, <1>1, <1>2, <1>5, PusherFacts, PushLocal
<1> QED BY <1>3, <1>4, <1>5 DEF TryPushClaim

\* A push moves inside its micro queue, or enters or leaves it.
LEMMA PushInside ==
    ASSUME QueueInv, NEW p \in Producers, NEW loc \in {"store", "publish", "skip", "notify", "idle"},
           Goto(p, loc), pc[p] \in {"turn", "store", "publish", "skip"},
           UNCHANGED <<counters, monitors>>, void' \subseteq void,
           \A u \in Producers \cup Consumers : u # p => k'[u] = k[u],
           loc \in {"store", "publish", "notify"} => k'[p] = k[p] /\ pc[p] # "skip",
           TypedState', Core', InvalidCounted',
           \A t \in Stored' : t \in Stored \/ (t = k[p] /\ pc[p] = "store")
    PROVE  QueueInv'
<1>1. Sides /\ Core /\ TypedState /\ InvalidCounted /\ PushSide /\ PopSide
    BY SidesOf DEF Sides, Core
<1>2. loc \in Locs
    BY DEF Locs
<1>3. /\ pc'[p] = loc
      /\ \A u \in Producers \ {p} : pc'[u] = pc[u] /\ k'[u] = k[u]
      /\ \A u \in Consumers : pc'[u] = pc[u] /\ k'[u] = k[u]
      /\ \A u \in Aborters : pc'[u] = pc[u]
      /\ SamePoppers
    BY <1>1, <1>2, PusherMoves
<1>4. /\ head_counter' = head_counter /\ tail_counter' = tail_counter
      /\ s_waiting' = s_waiting /\ s_chosen' = s_chosen /\ s_fresh' = s_fresh
      /\ s_asleep' = s_asleep /\ s_aborted' = s_aborted /\ UNCHANGED items_avail
    BY DEF counters, monitors, slots_avail
<1>5. tail_counter' >= tail_counter
    BY <1>1, <1>4, Sizes DEF TypedState
<1>6. Pushing(p) /\ k[p] < tail_counter
    BY <1>1 DEF Pushing, Claimed, Inside, Core, PushesInLine
<1>7. PushSide'
    <2>1. p \notin s_waiting /\ p \notin s_chosen
        BY PusherFacts
    <2>2. Unaborted => /\ pc[p] # "skip" => k[p] < head_counter + Capacity
                       /\ \A t \in Stored' : t \in Stored \/ t < head_counter + Capacity
        BY PusherFacts
    <2> QED BY <2>1, <2>2, <1>1, <1>3, <1>4, <1>5, <1>6, PusherFacts, PushSideMoves
<1>8. PopSide'
    BY <1>1, <1>3, <1>4, <1>5, PopSideStays
<1>9. Sides'
    BY <1>1, <1>4, <1>7, <1>8 DEF Sides
<1> QED BY <1>9, SidesMakeNext

LEMMA PushTurnKeeps ==
    ASSUME QueueInv, NEW p \in Producers, PushTurn(p)
    PROVE  QueueInv' /\ Stored' = Stored
<1>1. Sides /\ Core /\ TypedState /\ InvalidCounted
    BY SidesOf DEF Sides, Core
<1>2. /\ pc[p] = "turn" /\ Goto(p, "store") /\ mtail[Queue(k[p])] = Turn(k[p])
      /\ UNCHANGED <<counters, mhead, mtail, n_invalid_entries>> /\ UNCHANGED monitors
      /\ k' = k /\ void' = void /\ got' = got
      /\ pages' = IF Slot(k[p]) = 0
                  THEN [pages EXCEPT ![Queue(k[p])] = Append(@, EmptyPage)] ELSE pages
    BY DEF PushTurn
<1>3. "store" \in Locs /\ "store" \in {"store", "publish", "skip", "notify", "idle"}
    BY DEF Locs
<1>4. /\ pc' \in [Threads -> Locs] /\ pc'[p] = "store"
      /\ \A u \in Producers \ {p} : SamePush(u)
      /\ SamePoppers
    BY <1>1, <1>2, <1>3, PusherMoves
<1>5. Pushing(p) /\ ~ Inside(p) /\ Pushing(p)' /\ Inside(p)'
    BY <1>2, <1>4 DEF Pushing, Claimed, Inside
<1>6. TypedState'
    <2>1. /\ pages \in [0 .. NQueue - 1 -> Seq(Page)] /\ EmptyPage \in Page
          /\ Queue(k[p]) \in 0 .. NQueue - 1
        BY <1>1, PusherFacts, TicketTyped DEF TypedState, EmptyPage, Page
    <2>2. pages' \in [0 .. NQueue - 1 -> Seq(Page)]
        <3>1. pages[Queue(k[p])] \in Seq(Page)
            BY <2>1
        <3>2. Append(pages[Queue(k[p])], EmptyPage) \in Seq(Page)
            BY <2>1, <3>1
        <3> QED BY <2>1, <3>2, <1>2
    <2> QED BY <2>2, <1>1, <1>2, <1>4 DEF TypedState, counters
<1>7. Core' /\ InvalidCounted' /\ Stored' = Stored
    BY <1>1, <1>2, <1>4, <1>5, <1>6, PushEnters
<1>8. QueueInv'
    BY <1>2, <1>3, <1>6, <1>7, PushInside
<1> QED BY <1>7, <1>8

LEMMA PushStoreKeeps ==
    ASSUME QueueInv, NEW p \in Producers, PushStore(p)
    PROVE  QueueInv' /\ Stored' = Stored \cup {k[p]}
<1>1. Sides /\ Core /\ TypedState /\ InvalidCounted
    BY SidesOf DEF Sides, Core
<1>2. /\ pc[p] = "store" /\ Goto(p, "publish")
      /\ UNCHANGED <<counters, mhead, mtail, n_invalid_entries>> /\ UNCHANGED monitors
      /\ k' = k /\ void' = void /\ got' = got
      /\ pages' = [pages EXCEPT ![Queue(k[p])][Len(pages[Queue(k[p])])][Slot(k[p])] = k[p]]
    BY DEF PushStore
<1>3. "publish" \in Locs /\ "publish" \in {"store", "publish", "skip", "notify", "idle"}
    BY DEF Locs
<1>4. /\ pc' \in [Threads -> Locs] /\ pc'[p] = "publish"
      /\ \A u \in Producers \ {p} : SamePush(u)
      /\ SamePoppers
    BY <1>1, <1>2, <1>3, PusherMoves
<1>5. Inside(p) /\ Pushing(p)' /\ Inside(p)'
    BY <1>2, <1>4 DEF Pushing, Inside
<1>6. TypedState'
    <2> DEFINE q == Queue(k[p])
               m == Len(pages[q])
    <2>1. /\ k[p] \in Tickets /\ q \in 0 .. NQueue - 1 /\ m \in 1 .. Len(pages[q])
        BY <1>1, <1>5, EntersPage
    <2>2. pages \in [0 .. NQueue - 1 -> Seq(Page)] /\ pages[q] \in Seq(Page)
          /\ pages[q][m] \in Page
        BY <1>1, <2>1 DEF TypedState
    <2>3. [pages[q][m] EXCEPT ![Slot(k[p])] = k[p]] \in Page
        BY <2>1, <2>2 DEF Page
    <2>4. [pages[q] EXCEPT ![m][Slot(k[p])] = k[p]] \in Seq(Page)
        BY <2>1, <2>2, <2>3
    <2>5. pages' \in [0 .. NQueue - 1 -> Seq(Page)]
        BY <2>1, <2>2, <2>4, <1>2
    <2> QED BY <2>5, <1>1, <1>2, <1>4 DEF TypedState, counters
<1>7. Core' /\ InvalidCounted' /\ Stored' = Stored \cup {k[p]}
    BY <1>1, <1>2, <1>4, <1>5, <1>6, PushStores
<1>8. QueueInv'
    BY <1>2, <1>3, <1>6, <1>7, PushInside
<1> QED BY <1>7, <1>8

LEMMA PushSpoiltKeeps ==
    ASSUME QueueInv, NEW p \in Producers, PushSpoilt(p)
    PROVE  QueueInv'
<1>1. Sides /\ Core /\ TypedState /\ InvalidCounted
    BY SidesOf DEF Sides, Core
<1>2. /\ pc[p] = "store" /\ Goto(p, "skip") /\ n_invalid_entries' = n_invalid_entries + 1
      /\ UNCHANGED <<counters, mhead, mtail, pages>> /\ UNCHANGED monitors
      /\ k' = k /\ void' = void /\ got' = got
    BY DEF PushSpoilt
<1>3. "skip" \in Locs /\ "skip" \in {"store", "publish", "skip", "notify", "idle"}
    BY DEF Locs
<1>4. /\ pc' \in [Threads -> Locs] /\ pc'[p] = "skip"
      /\ \A u \in Producers \ {p} : SamePush(u)
      /\ SamePoppers
    BY <1>1, <1>2, <1>3, PusherMoves
<1>5. Pushing(p)' /\ Inside(p)'
    BY <1>4 DEF Pushing, Inside
<1>6. TypedState'
    BY <1>1, <1>2, <1>4 DEF TypedState, counters
<1>7. Core' /\ InvalidCounted' /\ Stored' = Stored
    BY <1>1, <1>2, <1>4, <1>5, <1>6, PushSkips
<1> QED BY <1>2, <1>3, <1>6, <1>7, PushInside

LEMMA PushPublishKeeps ==
    ASSUME QueueInv, NEW p \in Producers, PushPublish(p)
    PROVE  QueueInv'
<1>1. Sides /\ Core /\ TypedState /\ InvalidCounted
    BY SidesOf DEF Sides, Core
<1>2. PICK loc \in {"notify", "idle"} :
         /\ Goto(p, loc) /\ (loc = "notify" => pc[p] = "publish" /\ k' = k)
         /\ loc = "idle" => k' = [k EXCEPT ![p] = 0]
    BY DEF PushPublish, Finish
<1>3. /\ pc[p] \in {"publish", "skip"} /\ void' \subseteq void /\ got' = got
      /\ UNCHANGED <<counters, mhead, pages, n_invalid_entries>> /\ UNCHANGED monitors
      /\ mtail' = [mtail EXCEPT ![Queue(k[p])] = @ + NQueue]
    BY DEF PushPublish
<1>4. loc \in Locs /\ loc \in {"store", "publish", "skip", "notify", "idle"}
    BY DEF Locs
<1>5. /\ k' \in [Producers \cup Consumers -> Nat]
      /\ \A u \in Producers \cup Consumers : u # p => k'[u] = k[u]
    <2>1. k' = k \/ k' = [k EXCEPT ![p] = 0]
        BY <1>2
    <2>2. k \in [Producers \cup Consumers -> Nat]
        BY PusherFacts
    <2> QED BY <2>1, <2>2
<1>6. /\ pc' \in [Threads -> Locs] /\ pc'[p] = loc
      /\ \A u \in Producers \ {p} : SamePush(u)
      /\ SamePoppers
    BY <1>1, <1>2, <1>4, <1>5, PusherMoves
<1>7. ~ Pushing(p)'
    BY <1>6 DEF Pushing, Claimed, Inside
<1>8. TypedState'
    <2>1. mtail \in [0 .. NQueue - 1 -> Nat] /\ Queue(k[p]) \in 0 .. NQueue - 1
        BY <1>1, PusherFacts, TicketTyped DEF TypedState
    <2>2. mtail[Queue(k[p])] + NQueue \in Nat
        BY <2>1, Sizes
    <2>3. mtail' \in [0 .. NQueue - 1 -> Nat]
        BY <2>1, <2>2, <1>3
    <2> QED BY <2>3, <1>1, <1>3, <1>5, <1>6 DEF TypedState, counters
<1>9. Core' /\ InvalidCounted' /\ Stored' = Stored
    BY <1>1, <1>3, <1>6, <1>7, <1>8, PushPasses
<1> QED BY <1>2, <1>3, <1>4, <1>5, <1>8, <1>9, PushInside

\* The pops that are woken have tickets of pushes that were started.
LEMMA PushNotifyKeeps ==
    ASSUME QueueInv, NEW p \in Producers, PushNotify(p)
    PROVE  QueueInv'
<1>1. Sides /\ Core /\ TypedState /\ InvalidCounted /\ PushSide /\ PopSide
    BY SidesOf DEF Sides, Core
<1>2. /\ pc[p] = "notify" /\ Goto(p, "idle") /\ k' = [k EXCEPT ![p] = 0]
      /\ UNCHANGED <<counters, micro, slots_avail, void, got>> /\ "idle" \in Locs
    BY DEF PushNotify, Finish, Locs
<1>3. /\ k' \in [Producers \cup Consumers -> Nat]
      /\ \A u \in Producers \cup Consumers : u # p => k'[u] = k[u]
    BY <1>2, PusherFacts
<1>4. /\ pc' \in [Threads -> Locs] /\ pc'[p] = "idle"
      /\ \A u \in Producers \ {p} : pc'[u] = pc[u] /\ k'[u] = k[u] /\ SamePush(u)
      /\ \A u \in Consumers : pc'[u] = pc[u] /\ k'[u] = k[u]
      /\ \A u \in Aborters : pc'[u] = pc[u]
      /\ SamePoppers
    BY <1>1, <1>2, <1>3, PusherMoves
<1>5. /\ head_counter' = head_counter /\ tail_counter' = tail_counter
      /\ mhead' = mhead /\ mtail' = mtail /\ pages' = pages /\ got' = got /\ void' = void
      /\ s_waiting' = s_waiting /\ s_chosen' = s_chosen /\ s_fresh' = s_fresh
      /\ s_asleep' = s_asleep /\ s_aborted' = s_aborted
    BY <1>2 DEF counters, micro, slots_avail
<1>6. TypedState'
    BY <1>1, <1>3, <1>4, <1>5 DEF TypedState
<1>7. SamePushers
    <2>1. ~ Pushing(p) /\ ~ Pushing(p)' /\ ~ Inside(p) /\ ~ Inside(p)'
        BY <1>2, <1>4 DEF Pushing, Claimed, Inside
    <2> QED BY <2>1, <1>2, <1>4 DEF SamePushers, SamePush
<1>8. Core' /\ InvalidCounted' /\ Stored' = Stored
    BY <1>1, <1>2, <1>4, <1>6, <1>7, CoreStays
<1>9. tail_counter' >= tail_counter
    BY <1>1, <1>5, Sizes DEF TypedState
<1>10. PushSide'
    <2>1. p \notin s_waiting /\ p \notin s_chosen
        BY <1>2, PusherFacts
    <2>2. Unaborted => \A t \in Stored' : t \in Stored \/ t < head_counter + Capacity
        BY <1>8
    <2> QED BY <2>1, <2>2, <1>1, <1>4, <1>5, <1>6, <1>9, PusherFacts, PushSideMoves
<1>11. PopSide'
    <2>1. k[p] < tail_counter /\ k[p] \in Nat /\ tail_counter \in Nat
        BY <1>1, <1>2, PusherFacts DEF PushSide
    <2>2. /\ i_waiting' \subseteq i_waiting /\ i_fresh' \subseteq i_fresh
          /\ i_asleep' = i_asleep /\ i_aborted' = i_aborted
          /\ \A c \in i_chosen' : c \in i_chosen \/ (c \in i_waiting /\ k[c] <= k[p])
          /\ \A c \in i_waiting' : c \in i_chosen' => c \in i_chosen
        <3>1. CASE UNCHANGED items_avail
            BY <3>1 DEF items_avail
        <3>2. CASE Items!Notify({c \in i_waiting : k[c] <= k[p]})
            BY <3>2 DEF Items!Notify
        <3> QED BY <3>1, <3>2 DEF PushNotify
    <2>3. ItemSeen'
        <3>1. \A c \in Consumers : k[c] \in Nat
            BY <1>1 DEF TypedState
        <3>2. \A c \in i_chosen' \ i_aborted' : k[c] < tail_counter
            BY <2>1, <2>2, <3>1, <1>1 DEF PopSide, ItemSeen
        <3> QED BY <2>2, <3>2, <1>1, <1>4, <1>5 DEF PopSide, ItemSeen
    <2>4. GivenBackLast'
        BY <2>2, <1>1, <1>4, <1>5 DEF PopSide, GivenBackLast, Unaborted, Popping, HasTicket
    <2>5. \A c \in Consumers :
            /\ pc'[c] = "notify" => k'[c] < head_counter'
            /\ c \in i_waiting' => /\ c \notin i_chosen'
                                   /\ pc'[c] \in {"test", "commit", "asleep", "cancel"}
            /\ c \in i_chosen' =>
                  pc'[c] \in {"prepare", "test", "commit", "asleep", "cancel", "leave", "giveback"}
        BY <2>2, <1>1, <1>4, <1>5 DEF PopSide
    <2>6. i_waiting' \cup i_fresh' \cup i_asleep' \cup i_chosen' \cup i_aborted' \subseteq Consumers
        BY <2>2, <1>1 DEF PopSide
    <2> QED BY <2>3, <2>4, <2>5, <2>6 DEF PopSide
<1>12. Sides'
    BY <1>1, <1>5, <1>8, <1>10, <1>11 DEF Sides
<1> QED BY <1>12, SidesMakeNext

LEMMA PopEmptyKeeps ==
    ASSUME QueueInv, NEW c \in Consumers, PopEmpty(c)
    PROVE  QueueInv'
<1> DEFINE loc == IF IsEmpty(k[c]) THEN "prepare" ELSE "turn"
<1>1. /\ pc[c] = "full" /\ Goto(c, loc) /\ loc \in Locs /\ loc \in {"prepare", "turn"}
      /\ UNCHANGED <<counters, micro, slots_avail, void>>
      /\ k' = k /\ got' = got
      /\ i_waiting' = i_waiting /\ i_chosen' = i_chosen /\ i_fresh' = i_fresh
      /\ i_asleep' = i_asleep /\ i_aborted' = i_aborted
    BY DEF PopEmpty, monitors, items_avail, Locs
<1>2. Popping(c)
    BY <1>1 DEF Popping, HasTicket
<1>3. loc = "turn" => k[c] < tail_counter
    BY PopperFacts DEF IsEmpty
<1> QED BY <1>1, <1>2, <1>3, PopperFacts, PopLocal

LEMMA PopPrepareKeeps ==
    ASSUME QueueInv, NEW c \in Consumers, PopPrepare(c)
    PROVE  QueueInv'
<1>1. /\ pc[c] = "prepare" /\ k' = k /\ got' = got /\ "prepare" \in Locs /\ "test" \in Locs
      /\ UNCHANGED <<counters, micro, slots_avail, void>>
    BY DEF PopPrepare, Locs
<1>2. Popping(c)
    BY <1>1 DEF Popping, HasTicket
<1>3. CASE Items!Pump(c) /\ UNCHANGED pc
    <2>1. /\ i_waiting' = i_waiting /\ i_chosen' = i_chosen \ {c} /\ i_fresh' = i_fresh
          /\ i_asleep' = i_asleep /\ i_aborted' = i_aborted
        BY <1>3 DEF Items!Pump
    <2>2. Goto(c, "prepare")
        <3>1. pc \in [Threads -> Locs]
            BY SidesOf DEF Sides, Core, TypedState
        <3> QED BY <3>1, <1>1, <1>3 DEF Goto
    <2> QED BY <2>1, <2>2, <1>1, <1>2, PopperFacts, PopLocal
<1>4. CASE Items!Announce(c) /\ Goto(c, "test")
    <2>1. /\ c \notin i_chosen
          /\ i_waiting' = i_waiting \cup {c} /\ i_chosen' = i_chosen /\ i_fresh' = i_fresh \cup {c}
          /\ i_asleep' = i_asleep /\ i_aborted' = i_aborted
        BY <1>4 DEF Items!Announce
    <2>2. /\ i_waiting' \cup i_fresh' \cup i_asleep' \cup i_chosen' \cup i_aborted' \subseteq Consumers
          /\ c \notin i_chosen' /\ i_aborted' \subseteq i_aborted
          /\ \A u \in Consumers \ {c} : /\ u \in i_waiting' <=> u \in i_waiting
                                        /\ u \in i_chosen' <=> u \in i_chosen
                                        /\ u \in i_aborted' <=> u \in i_aborted
        BY <2>1, PopperFacts
    <2>3. /\ got' \in [Consumers -> Tickets \cup {Absent}]
          /\ k' \in [Producers \cup Consumers -> Nat]
        BY <1>1, PopperFacts
    <2> QED BY <2>2, <2>3, <1>1, <1>2, <1>4, PopLocal
<1> QED BY <1>3, <1>4 DEF PopPrepare

LEMMA PopTestKeeps ==
    ASSUME QueueInv, NEW c \in Consumers, PopTest(c)
    PROVE  QueueInv'
<1> DEFINE loc == IF IsEmpty(k[c]) THEN "commit" ELSE "cancel"
<1>1. /\ pc[c] = "test" /\ Goto(c, loc) /\ loc \in Locs /\ loc \in {"commit", "cancel"}
      /\ UNCHANGED <<counters, micro, slots_avail, void>>
      /\ k' = k /\ got' = got
      /\ i_waiting' = i_waiting /\ i_chosen' = i_chosen /\ i_fresh' = i_fresh
      /\ i_asleep' = i_asleep /\ i_aborted' = i_aborted
    BY DEF PopTest, monitors, items_avail, Locs
<1>2. Popping(c)
    BY <1>1 DEF Popping, HasTicket
<1>3. loc = "cancel" => k[c] < tail_counter
    BY PopperFacts DEF IsEmpty
<1> QED BY <1>1, <1>2, <1>3, PopperFacts, PopLocal

LEMMA PopCommitKeeps ==
    ASSUME QueueInv, NEW c \in Consumers, PopCommit(c)
    PROVE  QueueInv'
<1>1. /\ pc[c] = "commit" /\ k' = k /\ got' = got /\ "prepare" \in Locs /\ "asleep" \in Locs
      /\ UNCHANGED <<counters, micro, slots_avail, void>>
    BY DEF PopCommit, Locs
<1>2. Popping(c)
    BY <1>1 DEF Popping, HasTicket
<1>3. CASE Items!Sleep(c) /\ Goto(c, "asleep")
    <2>1. /\ i_waiting' = i_waiting /\ i_chosen' = i_chosen /\ i_fresh' = i_fresh
          /\ i_asleep' = i_asleep \cup {c} /\ i_aborted' = i_aborted
        BY <1>3 DEF Items!Sleep
    <2> QED BY <2>1, <1>1, <1>2, <1>3, PopperFacts, PopLocal
<1>4. CASE Items!Cancel(c) /\ Goto(c, "prepare")
    <2>1. /\ i_waiting' = i_waiting \ {c} /\ i_chosen' = i_chosen /\ i_fresh' = i_fresh
          /\ i_asleep' = i_asleep /\ i_aborted' = i_aborted
        BY <1>4 DEF Items!Cancel
    <2> QED BY <2>1, <1>1, <1>2, <1>4, PopperFacts, PopLocal
<1>5. CASE c \notin i_waiting /\ Goto(c, "prepare") /\ UNCHANGED items_avail
    <2>1. /\ i_waiting' = i_waiting /\ i_chosen' = i_chosen /\ i_fresh' = i_fresh
          /\ i_asleep' = i_asleep /\ i_aborted' = i_aborted
        BY <1>5 DEF items_avail
    <2> QED BY <2>1, <1>1, <1>2, <1>5, PopperFacts, PopLocal
<1> QED BY <1>3, <1>4, <1>5 DEF PopCommit

LEMMA PopWakeKeeps ==
    ASSUME QueueInv, NEW c \in Consumers, PopWake(c)
    PROVE  QueueInv'
<1> DEFINE loc == IF c \in i_aborted THEN "giveback" ELSE "leave"
<1>1. /\ pc[c] = "asleep" /\ Goto(c, loc) /\ k' = k /\ got' = got
      /\ loc \in Locs /\ loc \in {"giveback", "leave"}
      /\ UNCHANGED <<counters, micro, slots_avail, void>>
    BY DEF PopWake, Locs
<1>2. Popping(c)
    BY <1>1 DEF Popping, HasTicket
<1>3. /\ c \in i_chosen
      /\ i_waiting' = i_waiting /\ i_chosen' = i_chosen \ {c} /\ i_fresh' = i_fresh
      /\ i_asleep' = i_asleep \ {c} /\ i_aborted' = i_aborted
    BY DEF PopWake, Items!Return
<1>4. /\ loc = "leave" => k[c] < tail_counter
      /\ Unaborted => loc # "giveback"
    BY <1>3, PopperFacts
<1> QED BY <1>1, <1>2, <1>3, <1>4, PopperFacts, PopLocal

LEMMA PopCancelKeeps ==
    ASSUME QueueInv, NEW c \in Consumers, PopCancel(c)
    PROVE  QueueInv'
<1>1. /\ pc[c] = "cancel" /\ Goto(c, "leave") /\ k' = k /\ got' = got /\ "leave" \in Locs
      /\ UNCHANGED <<counters, micro, slots_avail, void>>
    BY DEF PopCancel, Locs
<1>2. Popping(c)
    BY <1>1 DEF Popping, HasTicket
<1>3. /\ i_waiting' = i_waiting \ {c} /\ i_chosen' = i_chosen /\ i_fresh' = i_fresh
      /\ i_asleep' = i_asleep /\ i_aborted' = i_aborted
    BY DEF PopCancel, Items!Cancel, items_avail
<1> QED BY <1>1, <1>2, <1>3, PopperFacts, PopLocal

LEMMA PopLeaveKeeps ==
    ASSUME QueueInv, NEW c \in Consumers, PopLeave(c)
    PROVE  QueueInv'
<1>1. /\ pc[c] = "leave" /\ Goto(c, "turn") /\ k' = k /\ got' = got /\ "turn" \in Locs
      /\ UNCHANGED <<counters, micro, slots_avail, void>>
    BY DEF PopLeave, Locs
<1>2. Popping(c)
    BY <1>1 DEF Popping, HasTicket
<1>3. /\ c \notin i_waiting
      /\ i_waiting' = i_waiting /\ i_chosen' = i_chosen \ {c} /\ i_fresh' = i_fresh \ {c}
      /\ i_asleep' = i_asleep /\ i_aborted' = i_aborted \ {c}
    BY DEF PopLeave, Items!Forget
<1> QED BY <1>1, <1>2, <1>3, PopperFacts, PopLocal

LEMMA TryPopKeeps ==
    ASSUME QueueInv, NEW c \in Consumers, TryPop(c)
    PROVE  QueueInv'
<1>1. /\ pc[c] \in {"idle", "again"} /\ Goto(c, "try") /\ "try" \in Locs /\ got' = got
      /\ k' = [k EXCEPT ![c] = head_counter]
      /\ UNCHANGED <<counters, micro, slots_avail, void>>
      /\ i_waiting' = i_waiting /\ i_chosen' = i_chosen /\ i_fresh' = i_fresh
      /\ i_asleep' = i_asleep /\ i_aborted' = i_aborted
    BY DEF TryPop, monitors, items_avail, Locs
<1>2. ~ Popping(c)
    BY <1>1 DEF Popping, HasTicket
<1>3. /\ k' \in [Producers \cup Consumers -> Nat] /\ k'[c] = head_counter
      /\ \A u \in Producers \cup Consumers : u # c => k'[u] = k[u]
    BY <1>1, PopperFacts
<1> QED BY <1>1, <1>2, <1>3, PopperFacts, PopLocal

LEMMA TryPopEmptyKeeps ==
    ASSUME QueueInv, NEW c \in Consumers, TryPopEmpty(c)
    PROVE  QueueInv'
<1>1. /\ pc[c] = "try" /\ got' = got /\ "idle" \in Locs /\ "cas" \in Locs
      /\ UNCHANGED <<counters, micro, slots_avail, void>>
      /\ i_waiting' = i_waiting /\ i_chosen' = i_chosen /\ i_fresh' = i_fresh
      /\ i_asleep' = i_asleep /\ i_aborted' = i_aborted
    BY DEF TryPopEmpty, monitors, items_avail, Locs
<1>2. ~ Popping(c)
    BY <1>1 DEF Popping, HasTicket
<1>3. CASE Finish(c)
    <2>1. /\ Goto(c, "idle") /\ k' \in [Producers \cup Consumers -> Nat]
          /\ \A u \in Producers \cup Consumers : u # c => k'[u] = k[u]
        BY <1>3, PopperFacts DEF Finish
    <2> QED BY <2>1, <1>1, <1>2, PopperFacts, PopLocal
<1>4. CASE ~ IsEmpty(k[c]) /\ Goto(c, "cas") /\ UNCHANGED k
    <2>1. k[c] < tail_counter
        BY <1>4, PopperFacts DEF IsEmpty
    <2> QED BY <2>1, <1>1, <1>2, <1>4, PopperFacts, PopLocal
<1> QED BY <1>3, <1>4 DEF TryPopEmpty

\* A pop takes the next ticket.
LEMMA PopClaimed ==
    ASSUME QueueInv, NEW c \in Consumers, NEW loc \in {"full", "turn"}, Goto(c, loc),
           pc[c] \in {"idle", "again", "cas"},
           head_counter' = head_counter + 1, tail_counter' = tail_counter,
           UNCHANGED <<micro, monitors, void, got>>,
           k' = [k EXCEPT ![c] = head_counter],
           loc = "turn" => head_counter < tail_counter
    PROVE  QueueInv'
<1>1. Sides /\ Core /\ TypedState /\ InvalidCounted /\ PushSide /\ PopSide
      /\ head_counter \in AllTickets
    BY SidesOf DEF Sides, Core
<1>2. loc \in Locs
    BY DEF Locs
<1>3. /\ k' \in [Producers \cup Consumers -> Nat] /\ k'[c] = head_counter
      /\ \A u \in Producers \cup Consumers : u # c => k'[u] = k[u]
    BY PopperFacts
<1>4. /\ pc' \in [Threads -> Locs] /\ pc'[c] = loc
      /\ \A u \in Consumers \ {c} : pc'[u] = pc[u] /\ k'[u] = k[u] /\ SamePop(u)
      /\ \A u \in Producers : pc'[u] = pc[u] /\ k'[u] = k[u]
      /\ \A u \in Aborters : pc'[u] = pc[u]
      /\ SamePushers
    BY <1>1, <1>2, <1>3, PopperMoves
<1>5. /\ mhead' = mhead /\ mtail' = mtail /\ pages' = pages /\ got' = got /\ void' = void
      /\ i_waiting' = i_waiting /\ i_chosen' = i_chosen /\ i_fresh' = i_fresh
      /\ i_asleep' = i_asleep /\ i_aborted' = i_aborted /\ UNCHANGED slots_avail
    BY DEF micro, monitors, items_avail
<1>6. TypedState' /\ head_counter' >= head_counter
    BY <1>1, <1>3, <1>4, <1>5 DEF TypedState
<1>7. ~ Popping(c) /\ Popping(c)' /\ pc'[c] # "finish"
    BY <1>4 DEF Popping, HasTicket
<1>8. Core' /\ InvalidCounted' /\ Stored' = Stored
    BY <1>1, <1>3, <1>4, <1>6, <1>7, PopTaken
<1>9. PushSide'
    BY <1>1, <1>4, <1>5, <1>6, <1>8, PushSideStays
<1>10. PopSide'
    <2>1. c \notin i_waiting /\ c \notin i_chosen
        BY PopperFacts
    <2>2. k'[c] = head_counter' - 1
        BY <1>1, <1>3 DEF TypedState
    <2> QED BY <2>1, <2>2, <1>1, <1>3, <1>4, <1>5, <1>6, PopperFacts, PopSideMoves
<1>11. head_counter' <= MaxTickets + Cardinality(Consumers) + 1
    BY <1>1, Sizes DEF AllTickets
<1>12. Sides'
    BY <1>8, <1>9, <1>10, <1>11 DEF Sides
<1> QED BY <1>12, SidesMakeNext

LEMMA PopClaimKeeps ==
    ASSUME QueueInv, NEW c \in Consumers, PopClaim(c)
    PROVE  QueueInv'
<1>1. "full" \in {"full", "turn"} /\ "full" # "turn"
    OBVIOUS
<1> QED BY <1>1, PopClaimed DEF PopClaim

LEMMA TryPopClaimKeeps ==
    ASSUME QueueInv, NEW c \in Consumers, TryPopClaim(c)
    PROVE  QueueInv'
<1>1. /\ pc[c] = "cas" /\ got' = got /\ "try" \in Locs
      /\ UNCHANGED <<micro, monitors, slots_avail, void, got>>
      /\ i_waiting' = i_waiting /\ i_chosen' = i_chosen /\ i_fresh' = i_fresh
      /\ i_asleep' = i_asleep /\ i_aborted' = i_aborted
    BY DEF TryPopClaim, monitors, items_avail, Locs
<1>2. ~ Popping(c)
    BY <1>1 DEF Popping, HasTicket
<1>3. CASE /\ k[c] = head_counter
           /\ head_counter' = head_counter + 1
           /\ Goto(c, "turn") /\ UNCHANGED <<tail_counter, k>>
    <2>1. k' = [k EXCEPT ![c] = head_counter]
        BY <1>3, PopperFacts
    <2>2. head_counter < tail_counter
        BY <1>1, <1>3, PopperFacts
    <2>3. "turn" \in {"full", "turn"}
        OBVIOUS
    <2> QED BY <2>1, <2>2, <2>3, <1>1, <1>3, PopClaimed
<1>4. CASE /\ k[c] # head_counter
           /\ k' = [k EXCEPT ![c] = head_counter]
           /\ Goto(c, "try") /\ UNCHANGED counters
    <2>1. /\ k' \in [Producers \cup Consumers -> Nat] /\ k'[c] = head_counter
          /\ \A u \in Producers \cup Consumers : u # c => k'[u] = k[u]
        BY <1>4, PopperFacts
    <2> QED BY <2>1, <1>1, <1>2, <1>4, PopperFacts, PopLocal
<1> QED BY <1>3, <1>4 DEF TryPopClaim

\* Where a ticket is given back there has been an abort, and nobody else pops.
LEMMA PopGiveBackKeeps ==
    ASSUME QueueInv, NEW c \in Consumers, PopGiveBack(c)
    PROVE  QueueInv'
<1>1. Sides /\ Core /\ TypedState /\ InvalidCounted /\ PushSide /\ PopSide
      /\ head_counter \in AllTickets
    BY SidesOf DEF Sides, Core
<1>2. /\ pc[c] = "giveback" /\ Goto(c, "idle") /\ k' = [k EXCEPT ![c] = 0] /\ "idle" \in Locs
      /\ head_counter' = head_counter - 1 /\ tail_counter' = tail_counter
      /\ UNCHANGED <<micro, slots_avail>> /\ void' = void /\ got' = got
    BY DEF PopGiveBack, Finish, Locs
<1>3. /\ c \notin i_waiting
      /\ i_waiting' = i_waiting /\ i_chosen' = i_chosen \ {c} /\ i_fresh' = i_fresh \ {c}
      /\ i_asleep' = i_asleep /\ i_aborted' = i_aborted \ {c}
    BY DEF PopGiveBack, Items!Forget
<1>4. /\ k' \in [Producers \cup Consumers -> Nat] /\ k'[c] = 0
      /\ \A u \in Producers \cup Consumers : u # c => k'[u] = k[u]
    BY <1>2, PopperFacts
<1>5. /\ pc' \in [Threads -> Locs] /\ pc'[c] = "idle"
      /\ \A u \in Consumers \ {c} : pc'[u] = pc[u] /\ k'[u] = k[u] /\ SamePop(u)
      /\ \A u \in Producers : pc'[u] = pc[u] /\ k'[u] = k[u]
      /\ \A u \in Aborters : pc'[u] = pc[u]
      /\ SamePushers
    BY <1>1, <1>2, <1>4, PopperMoves
<1>6. mhead' = mhead /\ mtail' = mtail /\ pages' = pages
    BY <1>2 DEF micro
<1>7. Popping(c) /\ ~ Popping(c)'
    BY <1>2, <1>5 DEF Popping, HasTicket
<1>8. ~ Unaborted
    BY <1>2, PopperFacts
<1>9. /\ \A u \in Consumers \ {c} : pc[u] = "away"
      /\ k[c] = head_counter - 1
    <2>1. \E a \in Aborters : pc[a] # "away"
        BY <1>8 DEF Unaborted
    <2>2. pc[c] # "away"
        BY <1>2
    <2> QED BY <2>1, <2>2, <1>1, <1>7 DEF PopSide, GivenBackLast
<1>10. head_counter' \in Nat
    BY <1>2, <1>9, PopperFacts
<1>11. TypedState'
    BY <1>1, <1>2, <1>4, <1>5, <1>6, <1>10 DEF TypedState
<1>12. Core' /\ InvalidCounted' /\ Stored' = Stored
    <2>1. \A u \in Consumers \ {c} : ~ Popping(u) /\ ~ Popping(u)'
        BY <1>5, <1>9 DEF Popping, HasTicket
    <2>2. UNCHANGED micro /\ pc[c] # "finish"
        BY <1>2
    <2> QED BY <2>1, <2>2, <1>1, <1>2, <1>5, <1>7, <1>9, <1>11, PopGivenBack
<1>13. PushSide'
    BY <1>1, <1>2, <1>5, <1>8, <1>11, <1>12, PushSideStays
<1>14. PopSide'
    <2>1. /\ i_waiting' \cup i_fresh' \cup i_asleep' \cup i_chosen' \cup i_aborted' \subseteq Consumers
          /\ i_aborted' \subseteq i_aborted
          /\ \A u \in Consumers \ {c} : /\ u \in i_waiting' <=> u \in i_waiting
                                        /\ u \in i_chosen' <=> u \in i_chosen
                                        /\ u \in i_aborted' <=> u \in i_aborted
          /\ c \notin i_waiting' /\ c \notin i_chosen'
        BY <1>3, PopperFacts
    <2> QED BY <2>1, <1>1, <1>2, <1>5, <1>7, <1>9, <1>11, PopSideMoves
<1>15. head_counter' <= MaxTickets + Cardinality(Consumers) + 1
    BY <1>1, <1>2, <1>10, Sizes DEF AllTickets
<1>16. Sides'
    BY <1>12, <1>13, <1>14, <1>15 DEF Sides
<1> QED BY <1>16, SidesMakeNext

LEMMA PopTurnKeeps ==
    ASSUME QueueInv, NEW c \in Consumers, PopTurn(c)
    PROVE  QueueInv'
<1>1. Sides /\ Core /\ TypedState /\ InvalidCounted /\ PushSide /\ PopSide
      /\ head_counter \in AllTickets
    BY SidesOf DEF Sides, Core
<1>2. /\ pc[c] = "turn" /\ Goto(c, "finish") /\ "finish" \in Locs
      /\ mhead[Queue(k[c])] = Turn(k[c]) /\ mtail[Queue(k[c])] # Turn(k[c])
      /\ got' = [got EXCEPT ![c] = pages[Queue(k[c])][1][Slot(k[c])]]
      /\ n_invalid_entries' = IF pages[Queue(k[c])][1][Slot(k[c])] = Absent
                              THEN n_invalid_entries - 1 ELSE n_invalid_entries
      /\ UNCHANGED <<counters, mhead, mtail, pages>> /\ UNCHANGED monitors
      /\ k' = k /\ void' = void
    BY DEF PopTurn, MyTurn, Locs
<1>3. /\ pc' \in [Threads -> Locs] /\ pc'[c] = "finish"
      /\ \A u \in Consumers \ {c} : pc'[u] = pc[u] /\ k'[u] = k[u] /\ SamePop(u)
      /\ \A u \in Producers : pc'[u] = pc[u] /\ k'[u] = k[u]
      /\ \A u \in Aborters : pc'[u] = pc[u]
      /\ SamePushers
    BY <1>1, <1>2, PopperMoves
<1>4. Popping(c) /\ Popping(c)' /\ pc[c] # "finish" /\ k[c] < tail_counter
    <2>1. Popping(c) /\ Popping(c)' /\ pc[c] # "finish"
        BY <1>2, <1>3 DEF Popping, HasTicket
    <2> QED BY <2>1, <1>2, PopperFacts
<1>5. TypedState'
    <2>1. k[c] \in Tickets
        BY <1>4, PopperFacts, Sizes DEF Tickets
    <2>2. mtail[Queue(k[c])] > Turn(k[c])
        <3>1. mtail[Queue(k[c])] \in Nat /\ Turn(k[c]) \in Nat
              /\ mhead[Queue(k[c])] <= mtail[Queue(k[c])]
            BY <1>1, PopperFacts, TicketFacts
        <3> QED BY <3>1, <1>2
    <2>3. pages[Queue(k[c])][1][Slot(k[c])] \in Tickets \cup {Absent}
        BY <2>1, <2>2, <1>1, <1>2, FoundIs
    <2>4. got' \in [Consumers -> Tickets \cup {Absent}]
        BY <2>3, <1>2, PopperFacts
    <2> QED BY <2>4, <1>1, <1>2, <1>3 DEF TypedState, counters
<1>6. Core' /\ InvalidCounted' /\ Stored' = Stored
    BY <1>1, <1>2, <1>3, <1>4, <1>5, PopFinds
<1>7. /\ head_counter' = head_counter /\ tail_counter' = tail_counter
      /\ i_waiting' = i_waiting /\ i_chosen' = i_chosen /\ i_fresh' = i_fresh
      /\ i_asleep' = i_asleep /\ i_aborted' = i_aborted /\ UNCHANGED slots_avail
    BY <1>2 DEF counters, monitors, items_avail
<1>8. head_counter' >= head_counter
    BY <1>7, PopperFacts
<1>9. PushSide'
    BY <1>1, <1>2, <1>3, <1>5, <1>6, <1>7, <1>8, PushSideStays
<1>10. PopSide'
    <2>1. c \notin i_waiting /\ c \notin i_chosen
        BY <1>2, PopperFacts
    <2> QED BY <2>1, <1>1, <1>2, <1>3, <1>4, <1>5, <1>7, <1>8, PopperFacts, PopSideMoves
<1>11. Sides'
    BY <1>1, <1>6, <1>7, <1>9, <1>10 DEF Sides
<1> QED BY <1>11, SidesMakeNext

LEMMA PopFinishKeeps ==
    ASSUME QueueInv, NEW c \in Consumers, PopFinish(c)
    PROVE  QueueInv'
<1> DEFINE loc == IF got[c] = Absent THEN "again" ELSE "notify"
<1>1. Sides /\ Core /\ TypedState /\ InvalidCounted /\ PushSide /\ PopSide
      /\ head_counter \in AllTickets
    BY SidesOf DEF Sides, Core
<1>2. /\ pc[c] = "finish" /\ Goto(c, loc) /\ loc \in Locs /\ loc \in {"again", "notify"}
      /\ pages' = IF Slot(k[c]) = PerPage - 1
                  THEN [pages EXCEPT ![Queue(k[c])] = Tail(@)] ELSE pages
      /\ mhead' = [mhead EXCEPT ![Queue(k[c])] = Turn(k[c]) + NQueue]
      /\ UNCHANGED <<counters, mtail, n_invalid_entries>> /\ UNCHANGED monitors
      /\ k' = k /\ void' = void /\ got' = got
    BY DEF PopFinish, Locs
<1>3. /\ pc' \in [Threads -> Locs] /\ pc'[c] = loc
      /\ \A u \in Consumers \ {c} : pc'[u] = pc[u] /\ k'[u] = k[u] /\ SamePop(u)
      /\ \A u \in Producers : pc'[u] = pc[u] /\ k'[u] = k[u]
      /\ \A u \in Aborters : pc'[u] = pc[u]
      /\ SamePushers
    BY <1>1, <1>2, PopperMoves
<1>4. Popping(c) /\ ~ Popping(c)' /\ pc'[c] # "finish" /\ k[c] < tail_counter /\ k[c] < head_counter
    <2>1. Popping(c) /\ ~ Popping(c)' /\ pc'[c] # "finish"
        BY <1>2, <1>3 DEF Popping, HasTicket
    <2> QED BY <2>1, <1>1, <1>2, PopperFacts DEF Core, PopsInLine
<1>5. TypedState'
    <2> DEFINE q == Queue(k[c])
    <2>1. k[c] \in Tickets
        BY <1>4, PopperFacts, Sizes DEF Tickets
    <2>2. q \in 0 .. NQueue - 1 /\ Turn(k[c]) \in Nat
        BY PopperFacts, TicketTyped
    <2>3. Turn(k[c]) + NQueue \in Nat
        BY <2>2, Sizes
    <2>4. mhead' \in [0 .. NQueue - 1 -> Nat]
        BY <2>2, <2>3, <1>1, <1>2 DEF TypedState
    <2>5. pages[q] \in Seq(Page) /\ pages \in [0 .. NQueue - 1 -> Seq(Page)]
        BY <2>2, <1>1 DEF TypedState
    <2>6. 1 \in 1 .. Len(pages[q])
        BY <2>1, <1>1, <1>2, FoundIs DEF Core, PopsInLine
    <2>7. Tail(pages[q]) \in Seq(Page)
        BY <2>5, <2>6
    <2>8. pages' \in [0 .. NQueue - 1 -> Seq(Page)]
        BY <2>2, <2>5, <2>7, <1>2
    <2> QED BY <2>4, <2>8, <1>1, <1>2, <1>3 DEF TypedState, counters
<1>6. Core' /\ InvalidCounted' /\ Stored' \subseteq Stored
    BY <1>1, <1>2, <1>3, <1>4, <1>5, PopPasses
<1>7. /\ head_counter' = head_counter /\ tail_counter' = tail_counter
      /\ i_waiting' = i_waiting /\ i_chosen' = i_chosen /\ i_fresh' = i_fresh
      /\ i_asleep' = i_asleep /\ i_aborted' = i_aborted /\ UNCHANGED slots_avail
    BY <1>2 DEF counters, monitors, items_avail
<1>8. head_counter' >= head_counter
    BY <1>7, PopperFacts
<1>9. PushSide'
    BY <1>1, <1>2, <1>3, <1>5, <1>6, <1>7, <1>8, PushSideStays
<1>10. PopSide'
    <2>1. c \notin i_waiting /\ c \notin i_chosen
        BY <1>2, PopperFacts
    <2>2. k'[c] < head_counter'
        BY <1>2, <1>4, <1>7
    <2> QED BY <2>1, <2>2, <1>1, <1>2, <1>3, <1>4, <1>5, <1>7, <1>8, PopperFacts, PopSideMoves
<1>11. Sides'
    BY <1>1, <1>6, <1>7, <1>9, <1>10 DEF Sides
<1> QED BY <1>11, SidesMakeNext

\* The pushes that are woken have room once this pop has taken its ticket.
LEMMA PopNotifyKeeps ==
    ASSUME QueueInv, NEW c \in Consumers, PopNotify(c)
    PROVE  QueueInv'
<1>1. Sides /\ Core /\ TypedState /\ InvalidCounted /\ PushSide /\ PopSide
    BY SidesOf DEF Sides, Core
<1>2. /\ pc[c] = "notify" /\ Goto(c, "idle") /\ k' = [k EXCEPT ![c] = 0] /\ "idle" \in Locs
      /\ UNCHANGED <<counters, micro, items_avail>> /\ void' = void
      /\ got' = [got EXCEPT ![c] = Absent]
    BY DEF PopNotify, Finish, Locs
<1>3. /\ k' \in [Producers \cup Consumers -> Nat]
      /\ \A u \in Producers \cup Consumers : u # c => k'[u] = k[u]
    BY <1>2, PopperFacts
<1>4. /\ pc' \in [Threads -> Locs] /\ pc'[c] = "idle"
      /\ \A u \in Consumers \ {c} : pc'[u] = pc[u] /\ k'[u] = k[u] /\ SamePop(u)
      /\ \A u \in Producers : pc'[u] = pc[u] /\ k'[u] = k[u]
      /\ \A u \in Aborters : pc'[u] = pc[u]
      /\ SamePushers
    BY <1>1, <1>2, <1>3, PopperMoves
<1>5. /\ head_counter' = head_counter /\ tail_counter' = tail_counter
      /\ mhead' = mhead /\ mtail' = mtail /\ pages' = pages
      /\ i_waiting' = i_waiting /\ i_chosen' = i_chosen /\ i_fresh' = i_fresh
      /\ i_asleep' = i_asleep /\ i_aborted' = i_aborted
    BY <1>2 DEF counters, micro, items_avail
<1>6. TypedState'
    <2>1. got' \in [Consumers -> Tickets \cup {Absent}]
        BY <1>2, PopperFacts
    <2> QED BY <2>1, <1>1, <1>3, <1>4, <1>5 DEF TypedState
<1>7. ~ Popping(c) /\ ~ Popping(c)'
    BY <1>2, <1>4 DEF Popping, HasTicket
<1>8. Core' /\ InvalidCounted' /\ Stored' = Stored
    <2>1. SamePoppers
        BY <1>2, <1>4, <1>7 DEF SamePoppers, SamePop
    <2> QED BY <2>1, <1>1, <1>2, <1>4, <1>6, CoreStays
<1>9. head_counter' >= head_counter
    BY <1>5, PopperFacts
<1>10. PushSide'
    <2>1. k[c] < head_counter /\ k[c] \in Nat /\ head_counter \in Nat /\ Capacity \in Nat
        BY <1>1, <1>2, PopperFacts, Sizes DEF PopSide
    <2>2. /\ s_waiting' \subseteq s_waiting /\ s_fresh' \subseteq s_fresh
          /\ s_asleep' = s_asleep /\ s_aborted' = s_aborted
          /\ \A p \in s_chosen' : p \in s_chosen \/ (p \in s_waiting /\ k[p] - Capacity <= k[c])
          /\ \A p \in s_waiting' : p \in s_chosen' => p \in s_chosen
        <3>1. CASE UNCHANGED slots_avail
            BY <3>1 DEF slots_avail
        <3>2. CASE Slots!Notify({p \in s_waiting : k[p] - Capacity <= k[c]})
            BY <3>2 DEF Slots!Notify
        <3> QED BY <3>1, <3>2 DEF PopNotify
    <2>3. RoomSeen'
        <3>1. \A p \in Producers : k[p] \in Nat
            BY <1>1 DEF TypedState
        <3>2. Unaborted => \A p \in s_chosen' : k[p] < head_counter + Capacity
            BY <2>1, <2>2, <3>1, <1>1 DEF PushSide, RoomSeen
        <3> QED BY <3>2, <1>1, <1>4, <1>5, <1>8 DEF PushSide, RoomSeen, Unaborted
    <2>4. \A p \in Producers :
            /\ pc'[p] \in {"try", "cas"} => k'[p] < MaxTickets
            /\ pc'[p] = "notify" => k'[p] < tail_counter'
            /\ p \in s_waiting' => /\ p \notin s_chosen'
                                   /\ pc'[p] \in {"test", "commit", "asleep", "cancel"}
            /\ p \in s_chosen' =>
                  pc'[p] \in {"prepare", "test", "commit", "asleep", "cancel", "leave"}
        BY <2>2, <1>1, <1>4, <1>5 DEF PushSide
    <2>5. /\ s_waiting' \cup s_fresh' \cup s_asleep' \cup s_chosen' \cup s_aborted' \subseteq Producers
          /\ void' \subseteq Producers
        BY <2>2, <1>1, <1>2 DEF PushSide
    <2> QED BY <2>3, <2>4, <2>5 DEF PushSide
<1>11. PopSide'
    <2>1. c \notin i_waiting /\ c \notin i_chosen
        BY <1>2, PopperFacts
    <2> QED BY <2>1, <1>1, <1>4, <1>5, <1>6, <1>7, <1>9, <1>2, PopperFacts, PopSideMoves
<1>12. Sides'
    BY <1>1, <1>5, <1>8, <1>10, <1>11 DEF Sides
<1> QED BY <1>12, SidesMakeNext

\* What an aborter does to the threads and the queue.
LEMMA AborterMoves ==
    ASSUME QueueInv, NEW a \in Aborters, NEW loc \in {"slots", "done"}, Goto(a, loc),
           pc[a] \in {"idle", "slots"}, UNCHANGED <<counters, micro, k, void, got>>
    PROVE  /\ \A u \in Producers \cup Consumers : pc'[u] = pc[u] /\ k'[u] = k[u]
           /\ \A u \in Aborters : pc'[u] # "away" <=> pc[u] # "away"
           /\ ~ Unaborted'
           /\ \A u \in Consumers : Popping(u)' <=> Popping(u)
           /\ TypedState' /\ Core' /\ InvalidCounted' /\ Stored' = Stored
           /\ head_counter' = head_counter /\ tail_counter' = tail_counter
           /\ k' = k /\ void' = void
<1>1. Sides /\ Core /\ TypedState /\ InvalidCounted
    BY SidesOf DEF Sides, Core
<1>2. pc' \in [Threads -> Locs] /\ pc'[a] = loc /\ \A u \in Threads : u # a => pc'[u] = pc[u]
    BY <1>1, RolesApart DEF TypedState, Goto, Locs
<1>3. /\ \A u \in Producers : pc'[u] = pc[u] /\ k'[u] = k[u]
      /\ \A u \in Consumers : pc'[u] = pc[u] /\ k'[u] = k[u]
      /\ \A u \in Aborters : pc'[u] # "away" <=> pc[u] # "away"
    BY <1>2, RolesApart
<1>4. ~ Unaborted'
    BY <1>2 DEF Unaborted
<1>5. /\ head_counter' = head_counter /\ tail_counter' = tail_counter
      /\ mhead' = mhead /\ mtail' = mtail /\ pages' = pages /\ got' = got /\ k' = k /\ void' = void
    BY DEF counters, micro
<1>6. TypedState'
    BY <1>1, <1>2, <1>5 DEF TypedState
<1>7. SamePushers /\ SamePoppers
    BY <1>3 DEF SamePushers, SamePush, Pushing, Claimed, Inside, SamePoppers, SamePop, Popping, HasTicket
<1>8. \A u \in Consumers : Popping(u)' <=> Popping(u)
    BY <1>7 DEF SamePoppers, SamePop
<1>9. Core' /\ InvalidCounted' /\ Stored' = Stored
    BY <1>1, <1>6, <1>7, CoreStays
<1> QED BY <1>3, <1>4, <1>5, <1>6, <1>8, <1>9

LEMMA AbortItemsKeeps ==
    ASSUME QueueInv, NEW a \in Aborters, AbortItems(a)
    PROVE  QueueInv'
<1>1. Sides /\ PushSide /\ PopSide
    BY SidesOf DEF Sides
<1>2. /\ pc[a] = "idle" /\ Goto(a, "slots") /\ UNCHANGED <<counters, micro, k, void, got>>
      /\ s_waiting' = s_waiting /\ s_chosen' = s_chosen /\ s_fresh' = s_fresh
      /\ s_asleep' = s_asleep /\ s_aborted' = s_aborted
    BY DEF AbortItems, slots_avail
<1>3. /\ i_waiting' = {} /\ i_fresh' = {} /\ i_asleep' = i_asleep
      /\ i_chosen' = i_chosen \cup i_waiting /\ i_aborted' = i_aborted \cup i_waiting
    BY DEF AbortItems, Items!Abort
<1>4. "slots" \in {"slots", "done"}
    OBVIOUS
<1>5. /\ \A u \in Producers \cup Consumers : pc'[u] = pc[u] /\ k'[u] = k[u]
      /\ \A u \in Aborters : pc'[u] # "away" <=> pc[u] # "away"
      /\ ~ Unaborted'
      /\ \A u \in Consumers : Popping(u)' <=> Popping(u)
      /\ Core' /\ InvalidCounted'
      /\ head_counter' = head_counter /\ tail_counter' = tail_counter
      /\ k' = k /\ void' = void
    BY <1>2, <1>4, AborterMoves
<1>6. PushSide'
    BY <1>1, <1>2, <1>5 DEF PushSide, RoomSeen
<1>7. PopSide'
    <2>1. ItemSeen'
        BY <1>1, <1>3, <1>5 DEF PopSide, ItemSeen
    <2>2. GivenBackLast'
        BY <1>1, <1>5 DEF PopSide, GivenBackLast
    <2> QED BY <2>1, <2>2, <1>1, <1>3, <1>5 DEF PopSide
<1>8. Sides'
    BY <1>1, <1>5, <1>6, <1>7 DEF Sides
<1> QED BY <1>8, SidesMakeNext

LEMMA AbortSlotsKeeps ==
    ASSUME QueueInv, NEW a \in Aborters, AbortSlots(a)
    PROVE  QueueInv'
<1>1. Sides /\ PushSide /\ PopSide
    BY SidesOf DEF Sides
<1>2. /\ pc[a] = "slots" /\ Goto(a, "done") /\ UNCHANGED <<counters, micro, k, void, got>>
      /\ i_waiting' = i_waiting /\ i_chosen' = i_chosen /\ i_fresh' = i_fresh
      /\ i_asleep' = i_asleep /\ i_aborted' = i_aborted
    BY DEF AbortSlots, items_avail
<1>3. /\ s_waiting' = {} /\ s_fresh' = {} /\ s_asleep' = s_asleep
      /\ s_chosen' = s_chosen \cup s_waiting /\ s_aborted' = s_aborted \cup s_waiting
    BY DEF AbortSlots, Slots!Abort
<1>4. "done" \in {"slots", "done"}
    OBVIOUS
<1>5. /\ \A u \in Producers \cup Consumers : pc'[u] = pc[u] /\ k'[u] = k[u]
      /\ \A u \in Aborters : pc'[u] # "away" <=> pc[u] # "away"
      /\ ~ Unaborted'
      /\ \A u \in Consumers : Popping(u)' <=> Popping(u)
      /\ Core' /\ InvalidCounted'
      /\ head_counter' = head_counter /\ tail_counter' = tail_counter
      /\ k' = k /\ void' = void
    BY <1>2, <1>4, AborterMoves
<1>6. PushSide'
    BY <1>1, <1>3, <1>5 DEF PushSide, RoomSeen
<1>7. PopSide'
    <2>1. ItemSeen'
        BY <1>1, <1>2, <1>5 DEF PopSide, ItemSeen
    <2>2. GivenBackLast'
        BY <1>1, <1>2, <1>5 DEF PopSide, GivenBackLast
    <2> QED BY <2>1, <2>2, <1>1, <1>2, <1>5 DEF PopSide
<1>8. Sides'
    BY <1>1, <1>5, <1>6, <1>7 DEF Sides
<1> QED BY <1>8, SidesMakeNext

LEMMA StutterKeeps ==
    ASSUME QueueInv, UNCHANGED vars
    PROVE  QueueInv'
<1>1. Sides /\ Core /\ TypedState /\ InvalidCounted /\ PushSide /\ PopSide
    BY SidesOf DEF Sides, Core
<1>2. /\ UNCHANGED <<counters, micro>>
      /\ pc' = pc /\ k' = k /\ void' = void /\ got' = got
      /\ head_counter' = head_counter /\ tail_counter' = tail_counter
      /\ mhead' = mhead /\ mtail' = mtail /\ pages' = pages
    BY DEF vars, counters, micro
<1>3. /\ i_waiting' = i_waiting /\ i_chosen' = i_chosen /\ i_fresh' = i_fresh
      /\ i_asleep' = i_asleep /\ i_aborted' = i_aborted
      /\ s_waiting' = s_waiting /\ s_chosen' = s_chosen /\ s_fresh' = s_fresh
      /\ s_asleep' = s_asleep /\ s_aborted' = s_aborted
    BY DEF vars, monitors, items_avail, slots_avail
<1>4. TypedState'
    BY <1>1, <1>2 DEF TypedState
<1>5. SamePushers /\ SamePoppers
    BY <1>2 DEF SamePushers, SamePush, Pushing, Claimed, Inside, SamePoppers, SamePop, Popping, HasTicket
<1>6. Core' /\ InvalidCounted' /\ Stored' = Stored
    BY <1>1, <1>2, <1>4, <1>5, CoreStays
<1>7. PushSide'
    BY <1>1, <1>2, <1>3, <1>6 DEF PushSide, RoomSeen, Unaborted
<1>8. PopSide'
    BY <1>1, <1>2, <1>3 DEF PopSide, ItemSeen, GivenBackLast, Unaborted, Popping, HasTicket
<1>9. Sides'
    BY <1>1, <1>2, <1>6, <1>7, <1>8 DEF Sides
<1> QED BY <1>9, SidesMakeNext

LEMMA StepKeeps ==
    ASSUME QueueInv, [Next]_vars
    PROVE  QueueInv'
<1>1. ASSUME NEW p \in Producers, Push(p) \/ TryPush(p) \/ PushStep(p)
      PROVE  QueueInv'
    BY <1>1, PushKeeps, TryPushKeeps, PushFullKeeps, PushPrepareKeeps, PushTestKeeps,
       PushCommitKeeps, PushWakeKeeps, PushCancelKeeps, PushLeaveKeeps, TryPushFullKeeps,
       TryPushClaimKeeps, PushTurnKeeps, PushStoreKeeps, PushSpoiltKeeps, PushPublishKeeps,
       PushNotifyKeeps, Zenon DEF PushStep
<1>2. ASSUME NEW c \in Consumers, PopStart(c) \/ PopStep(c)
      PROVE  QueueInv'
    BY <1>2, PopClaimKeeps, TryPopKeeps, PopEmptyKeeps, PopPrepareKeeps, PopTestKeeps,
       PopCommitKeeps, PopWakeKeeps, PopCancelKeeps, PopLeaveKeeps, PopGiveBackKeeps,
       TryPopEmptyKeeps, TryPopClaimKeeps, PopTurnKeeps, PopFinishKeeps, PopNotifyKeeps, Zenon
       DEF PopStart, PopStep
<1>3. ASSUME NEW a \in Aborters, AbortItems(a) \/ AbortSlots(a)
      PROVE  QueueInv'
    BY <1>3, AbortItemsKeeps, AbortSlotsKeeps
<1> QED BY <1>1, <1>2, <1>3, StutterKeeps DEF Next

\* A micro queue starts before its first page.
LEMMA FirstPage == PageNo(0) = 0 /\ PageNo(0 - NQueue) = -1
<1>1. NQueue \in Nat \ {0} /\ PerPage \in Nat \ {0} /\ NQueue * 0 = 0 /\ NQueue * (-1) = 0 - NQueue
    BY QueueAssumption
<1>2. 0 \div PerPage = 0
    BY <1>1
<1>3. (-1) \div PerPage = -1
    <2>1. -1 = PerPage * (-1) + (PerPage - 1) /\ PerPage - 1 \in 0 .. PerPage - 1
        BY <1>1
    <2> QED BY <2>1, <1>1, DivisionUnique
<1>4. PageNo(NQueue * 0) = 0 \div PerPage /\ PageNo(NQueue * (-1)) = (-1) \div PerPage
    <2>1. 0 \in Int /\ -1 \in Int
        OBVIOUS
    <2> QED BY <2>1, PageOfRound
<1> QED BY <1>1, <1>2, <1>3, <1>4

LEMMA InitKeeps ==
    ASSUME LoneAborts, Init
    PROVE  QueueInv
<1>1. /\ head_counter = 0 /\ tail_counter = 0 /\ n_invalid_entries = 0
      /\ mhead = [q \in 0..(NQueue - 1) |-> 0] /\ mtail = [q \in 0..(NQueue - 1) |-> 0]
      /\ pages = [q \in 0..(NQueue - 1) |-> <<>>]
      /\ k = [t \in Producers \cup Consumers |-> 0] /\ void = {}
      /\ got = [c \in Consumers |-> Absent]
      /\ s_waiting = {} /\ s_chosen = {} /\ s_fresh = {} /\ s_asleep = {} /\ s_aborted = {}
      /\ i_waiting = {} /\ i_chosen = {} /\ i_fresh = {} /\ i_asleep = {} /\ i_aborted = {}
    BY DEF Init, Slots!Init, Items!Init
<1>2. PICK users \in Populations : pc = [t \in Threads |-> IF t \in users THEN "idle" ELSE "away"]
    BY DEF Init
<1>3. /\ pc \in [Threads -> Locs] /\ \A t \in Threads : pc[t] \in {"idle", "away"}
      /\ \A t \in Threads : pc[t] # "away" => t \in users
    BY <1>2 DEF Locs
<1>4. /\ \A u \in Producers : u \in Threads /\ ~ Pushing(u) /\ ~ Inside(u) /\ pc[u] \in {"idle", "away"}
      /\ \A u \in Consumers : u \in Threads /\ ~ Popping(u) /\ pc[u] \in {"idle", "away"}
      /\ \A u \in Aborters : u \in Threads /\ pc[u] \in {"idle", "away"}
    BY <1>3, RolesApart DEF Pushing, Claimed, Inside, Popping, HasTicket
<1>5. TypedState
    <2>1. <<>> \in Seq(Page)
        OBVIOUS
    <2>2. pages \in [0..(NQueue - 1) -> Seq(Page)]
        BY <2>1, <1>1
    <2> QED BY <2>2, <1>1, <1>3, Sizes DEF TypedState
<1>6. \A q \in 0 .. NQueue - 1 : mhead[q] = 0 /\ mtail[q] = 0 /\ pages[q] = <<>> /\ Len(pages[q]) = 0
                                  /\ DOMAIN pages[q] = {}
    BY <1>1
<1>7. \A t \in AllTickets : mtail[Queue(t)] <= Turn(t) /\ mhead[Queue(t)] <= Turn(t) /\ t >= 0
    <2> SUFFICES ASSUME NEW t \in AllTickets
                 PROVE  mtail[Queue(t)] <= Turn(t) /\ mhead[Queue(t)] <= Turn(t) /\ t >= 0
        OBVIOUS
    <2>1. t \in Nat
        BY Sizes
    <2>2. Queue(t) \in 0 .. NQueue - 1 /\ Turn(t) \in Nat
        BY <2>1, TicketTyped
    <2> QED BY <2>1, <2>2, <1>6
<1>8. PushesInLine /\ PopsInLine
    <2>1. \A t \in AllTickets : ~ (t < 0)
        BY Sizes
    <2>2. \A u \in Consumers : pc[u] # "finish"
        BY <1>4
    <2> QED BY <2>1, <2>2, <1>1, <1>4, <1>6, <1>7 DEF PushesInLine, PopsInLine
<1>9. DOMAIN pages = 0 .. NQueue - 1
    BY <1>1
<1>10. PagesInOrder
    BY <1>6, <1>9 DEF PagesInOrder
<1>11. PagesReach
    <2>1. 0 % NQueue = 0
        BY QueueAssumption
    <2>2. \A q \in 0 .. NQueue - 1 : LastIn(q) = 0 - NQueue
        BY <1>4, <1>6 DEF LastIn
    <2> QED BY <2>1, <2>2, <1>6, FirstPage DEF PagesReach
<1>12. Stored = {}
    BY <1>6, <1>9 DEF Stored
<1>13. StoredPushed
    BY <1>4, <1>12 DEF StoredPushed
<1>14. InvalidCounted
    <2>1. Invalid = {}
        BY <1>1 DEF Invalid
    <2> QED BY <2>1, <1>1, FS_EmptySet DEF InvalidCounted
<1>15. PushSide
    BY <1>1, <1>4, <1>12 DEF PushSide, RoomSeen
<1>16. PopSide
    <2>1. GivenBackLast
        <3>1. ASSUME NEW a \in Aborters, pc[a] # "away",
                     NEW c \in Consumers, NEW d \in Consumers, pc[c] # "away", pc[d] # "away"
              PROVE  c = d
            BY <3>1, <1>3, <1>4 DEF LoneAborts
        <3> QED BY <3>1, <1>1, <1>4 DEF GivenBackLast
    <2> QED BY <2>1, <1>1, <1>4 DEF PopSide, ItemSeen
<1>17. head_counter <= MaxTickets + Cardinality(Consumers) + 1
    BY <1>1, Sizes
<1>18. Sides
    BY <1>5, <1>8, <1>10, <1>11, <1>13, <1>14, <1>15, <1>16, <1>17 DEF Sides, Core
<1> QED BY <1>18, SidesMake

-----------------------------------------------------------------------------
(* The exchange that the queue implements. *)

\* A push that has claimed a ticket for an item and still has the item.
Holding(p) == p \notin void /\ Claimed(p)

LEMMA LiveIs ==
    \A v : v \in Live <=> v \in Stored \/ \E p \in Producers : Holding(p) /\ k[p] = v
BY DEF Live, Holding

LEMMA LiveIsNext ==
    \A v : v \in Live' <=> v \in Stored' \/ \E p \in Producers : Holding(p)' /\ k'[p] = v
BY DEF Live, Holding

LEMMA LiveStays ==
    ASSUME Stored' = Stored,
           \A p \in Producers : /\ Holding(p)' <=> Holding(p)
                                /\ Holding(p) => k'[p] = k[p]
    PROVE  Live' = Live
BY LiveIs, LiveIsNext

\* What the other pushes hold, when one of them moves.
LEMMA OthersHold ==
    ASSUME NEW p \in Producers, \A u \in Producers \ {p} : pc'[u] = pc[u] /\ k'[u] = k[u],
           \A u \in Producers \ {p} : u \in void' <=> u \in void
    PROVE  \A u \in Producers \ {p} : /\ Holding(u)' <=> Holding(u)
                                      /\ k'[u] = k[u]
BY DEF Holding, Claimed

\* A ticket of the push counter that has an item: its push is over, or has it.
LEMMA LiveFacts ==
    ASSUME QueueInv, NEW v \in Live
    PROVE  v \in Nat /\ v < tail_counter /\ v \in AllTickets /\ v \in Tickets /\ v # Absent
<1>1. Core /\ TypedState
    BY SidesOf DEF Sides, Core
<1>2. tail_counter \in Nat /\ tail_counter <= MaxTickets
    BY <1>1, Sizes DEF TypedState
<1>3. ASSUME NEW p \in Producers, Pushing(p)
      PROVE  k[p] \in Nat /\ k[p] < tail_counter
    BY <1>1, <1>3 DEF Core, TypedState, PushesInLine
<1>4. v \in Nat /\ v < tail_counter
    <2>1. CASE v \in Stored
        <3>1. v \in Nat /\ v \in AllTickets
            BY <2>1, <1>1, StoredIs, Sizes DEF StoredThere
        <3>2. CASE mtail[Queue(v)] > Turn(v)
            <4>1. mtail[Queue(v)] \in Nat /\ Turn(v) \in Nat
                BY <3>1, <1>1, TicketFacts
            <4>2. v >= tail_counter => mtail[Queue(v)] <= Turn(v)
                BY <3>1, <1>1 DEF Core, PushesInLine
            <4> QED BY <4>1, <4>2, <3>1, <3>2, <1>2
        <3>3. CASE \E p \in Producers : pc[p] = "publish" /\ k[p] = v
            BY <3>3, <1>3, InsidePushes
        <3> QED BY <2>1, <3>2, <3>3, <1>1 DEF Core, StoredPushed
    <2>2. CASE \E p \in Producers : Holding(p) /\ k[p] = v
        BY <2>2, <1>3 DEF Holding, Pushing
    <2> QED BY <2>1, <2>2, LiveIs
<1> QED BY <1>2, <1>4, Sizes DEF AllTickets, Tickets

\* Nobody has stored the item of a push that has not.
LEMMA NotStored ==
    ASSUME QueueInv, NEW p \in Producers, Pushing(p), pc[p] # "publish"
    PROVE  /\ k[p] \notin Stored
           /\ \A u \in Producers \ {p} : ~ (Holding(u) /\ k[u] = k[p])
<1>1. Core /\ TypedState
    BY SidesOf DEF Sides, Core
<1>2. k[p] \in Nat /\ mtail[Queue(k[p])] <= Turn(k[p])
    BY <1>1 DEF Core, TypedState, PushesInLine
<1>3. mtail[Queue(k[p])] \in Nat /\ Turn(k[p]) \in Nat
    BY <1>1, <1>2, TicketFacts
<1>4. \A u \in Producers : Pushing(u) /\ k[u] = k[p] => u = p
    BY <1>1 DEF Core, PushesInLine
<1>5. \A u \in Producers : Holding(u) \/ pc[u] = "publish" => Pushing(u)
    BY InsidePushes DEF Holding, Pushing
<1>6. k[p] \notin Stored
    <2> SUFFICES ASSUME k[p] \in Stored
                 PROVE  FALSE
        OBVIOUS
    <2>1. ~ (mtail[Queue(k[p])] > Turn(k[p]))
        BY <1>2, <1>3
    <2>2. PICK u \in Producers : pc[u] = "publish" /\ k[u] = k[p]
        BY <2>1, <1>1 DEF Core, StoredPushed
    <2> QED BY <2>2, <1>4, <1>5
<1> QED BY <1>4, <1>5, <1>6

\* When its push is over, a ticket has its item if the item was stored.
LEMMA LiveWhenPassed ==
    ASSUME QueueInv, NEW t \in Nat, mtail[Queue(t)] > Turn(t)
    PROVE  t \in Live <=> t \in Stored
<1>1. Core /\ TypedState
    BY SidesOf DEF Sides, Core
<1>2. mtail[Queue(t)] \in Nat /\ Turn(t) \in Nat
    BY <1>1, TicketFacts
<1>3. \A p \in Producers : Pushing(p) => mtail[Queue(k[p])] <= Turn(k[p])
    BY <1>1 DEF Core, PushesInLine
<1>4. \A p \in Producers : Holding(p) => k[p] # t
    BY <1>2, <1>3 DEF Holding, Pushing
<1> QED BY <1>4, LiveIs

\* The hand that the exchange sees.
HandOf(c) == IF ~ HasTicket(c) THEN got[c] ELSE IF k[c] \in Live THEN k[c] ELSE Absent

Stutters == UNCHANGED <<tail_counter, Unasked, Ahead, InHand>>

\* A step that keeps the hands exact, and is one of the exchange or none.
Refined == HandsExact' /\ (Ex!Next \/ Stutters)

LEMMA ViewsAre ==
    /\ DOMAIN Ahead = Early /\ DOMAIN Ahead' = Early'
    /\ \A c \in Early : c \in Consumers /\ Ahead[c] = {d \in Early : k[d] < k[c]}
    /\ \A c \in Early' : c \in Consumers /\ Ahead'[c] = {d \in Early' : k'[d] < k'[c]}
    /\ DOMAIN InHand = Consumers /\ DOMAIN InHand' = Consumers
    /\ InHand = [c \in Consumers |-> HandOf(c)] /\ InHand' = [c \in Consumers |-> HandOf(c)']
    /\ \A c \in Consumers : InHand[c] = HandOf(c) /\ InHand'[c] = HandOf(c)'
    /\ \A v : v \in Unasked <=> v \in Live /\ v >= head_counter
    /\ \A v : v \in Unasked' <=> v \in Live' /\ v >= head_counter'
    /\ \A c : c \in Early <=> c \in Consumers /\ HasTicket(c) /\ k[c] >= tail_counter
    /\ \A c : c \in Early' <=> c \in Consumers /\ HasTicket(c)' /\ k'[c] >= tail_counter'
<1>1. /\ \A c : c \in Early <=> c \in Consumers /\ HasTicket(c) /\ k[c] >= tail_counter
      /\ \A c : c \in Early' <=> c \in Consumers /\ HasTicket(c)' /\ k'[c] >= tail_counter'
    BY DEF Early
<1>2. /\ \A v : v \in Unasked <=> v \in Live /\ v >= head_counter
      /\ \A v : v \in Unasked' <=> v \in Live' /\ v >= head_counter'
    BY DEF Unasked
<1>3. /\ DOMAIN Ahead = Early /\ DOMAIN Ahead' = Early'
      /\ \A c \in Early : Ahead[c] = {d \in Early : k[d] < k[c]}
      /\ \A c \in Early' : Ahead'[c] = {d \in Early' : k'[d] < k'[c]}
    BY DEF Ahead
<1>4. InHand = [c \in Consumers |-> HandOf(c)] /\ InHand' = [c \in Consumers |-> HandOf(c)']
    BY DEF InHand, HandOf
<1> QED BY <1>1, <1>2, <1>3, <1>4

\* The pops that wait are the same, in the same order.
LEMMA AheadSame ==
    ASSUME \A c \in Consumers : /\ c \in Early' <=> c \in Early
                                /\ c \in Early => k'[c] = k[c]
    PROVE  Early' = Early /\ Ahead' = Ahead
<1>1. Early' = Early
    BY ViewsAre
<1>2. \A c \in Early : {d \in Early : k'[d] < k'[c]} = {d \in Early : k[d] < k[c]}
    BY ViewsAre
<1>3. Ahead' = [c \in Early |-> {d \in Early : k'[d] < k'[c]}]
    BY <1>1 DEF Ahead
<1> QED BY <1>1, <1>2, <1>3 DEF Ahead

\* A step that the exchange does not see.
LEMMA Unseen ==
    ASSUME tail_counter' = tail_counter, head_counter' = head_counter,
           \A v : v >= head_counter => (v \in Live' <=> v \in Live),
           \A c \in Consumers : /\ c \in Early' <=> c \in Early
                                /\ c \in Early => k'[c] = k[c]
                                /\ HandOf(c)' = HandOf(c)
    PROVE  Stutters
<1>1. Ahead' = Ahead
    BY AheadSame
<1>2. InHand' = InHand
    BY ViewsAre
<1>3. Unasked' = Unasked
    BY ViewsAre
<1> QED BY <1>1, <1>2, <1>3 DEF Stutters

LEMMA HandSame ==
    ASSUME NEW c \in Consumers, HasTicket(c)' <=> HasTicket(c),
           HasTicket(c) => k'[c] = k[c] /\ (k[c] \in Live' <=> k[c] \in Live),
           ~ HasTicket(c) => got'[c] = got[c]
    PROVE  HandOf(c)' = HandOf(c)
BY DEF HandOf

\* What the consumers have when none of them moves.
LEMMA HandsStay ==
    ASSUME QueueInv, HandsExact, got' = got, QueueInv',
           \A c \in Consumers : pc'[c] = pc[c] /\ k'[c] = k[c],
           \A q \in 0 .. NQueue - 1 : mtail'[q] >= mtail[q],
           \A p \in void' : pc'[p] \in {"leave", "turn", "store", "skip"}
    PROVE  HandsExact'
<1>1. ASSUME NEW c \in Consumers, got[c] # Absent
      PROVE  mtail'[Queue(k[c])] > Turn(k[c])
    <2>1. k[c] \in Nat /\ Core
        BY PopperFacts, SidesOf DEF Sides
    <2>2. Queue(k[c]) \in 0 .. NQueue - 1 /\ mtail[Queue(k[c])] \in Nat /\ Turn(k[c]) \in Nat
        BY <2>1, TicketFacts
    <2>3. mtail' \in [0 .. NQueue - 1 -> Nat]
        BY DEF QueueInv, TypeOK
    <2>4. mtail[Queue(k[c])] > Turn(k[c])
        BY <1>1 DEF HandsExact
    <2>5. mtail'[Queue(k[c])] \in Nat /\ mtail'[Queue(k[c])] >= mtail[Queue(k[c])]
        BY <2>2, <2>3
    <2> QED BY <2>2, <2>4, <2>5
<1> QED BY <1>1 DEF HandsExact

\* What nobody else has, when one consumer moves.
LEMMA HandsOfOthers ==
    ASSUME HandsExact, NEW c \in Consumers, void' = void, mtail' = mtail,
           \A p \in Producers : pc'[p] = pc[p], void \subseteq Producers,
           \A u \in Consumers \ {c} : pc'[u] = pc[u] /\ k'[u] = k[u] /\ got'[u] = got[u],
           got'[c] # Absent => /\ pc'[c] \in {"finish", "notify"} /\ got'[c] = k'[c]
                               /\ mtail[Queue(k'[c])] > Turn(k'[c])
    PROVE  HandsExact'
<1>1. ASSUME NEW u \in Consumers, got'[u] # Absent
      PROVE  /\ pc'[u] \in {"finish", "notify"} /\ got'[u] = k'[u]
             /\ mtail'[Queue(k'[u])] > Turn(k'[u])
    <2>1. CASE u = c
        BY <2>1, <1>1
    <2>2. CASE u # c
        BY <2>2, <1>1 DEF HandsExact
    <2> QED BY <2>1, <2>2
<1> QED BY <1>1 DEF HandsExact

\* A step of a push that leaves the items as they are.
LEMMA PusherQuiet ==
    ASSUME QueueInv, HandsExact, QueueInv', NEW p \in Producers, NEW loc \in Locs, Goto(p, loc),
           UNCHANGED counters, got' = got, Live' = Live,
           \A u \in Producers \cup Consumers : u # p => k'[u] = k[u],
           \A q \in 0 .. NQueue - 1 : mtail'[q] >= mtail[q],
           \A u \in Producers \ {p} : u \in void' => u \in void,
           p \in void' => loc \in {"leave", "turn", "store", "skip"}
    PROVE  Refined
<1>1. TypedState /\ void' \subseteq Producers
    BY SidesOf DEF Sides, Core, QueueInv, TypeOK
<1>2. /\ pc'[p] = loc /\ \A u \in Producers \ {p} : pc'[u] = pc[u]
      /\ \A u \in Consumers : pc'[u] = pc[u] /\ k'[u] = k[u]
    BY <1>1, PusherMoves
<1>3. tail_counter' = tail_counter /\ head_counter' = head_counter
    BY DEF counters
<1>4. HandsExact'
    <2>1. \A u \in void' : pc'[u] \in {"leave", "turn", "store", "skip"}
        BY <1>1, <1>2 DEF HandsExact
    <2> QED BY <2>1, <1>2, HandsStay
<1>5. \A c \in Consumers : HasTicket(c)' <=> HasTicket(c)
    BY <1>2 DEF HasTicket
<1>6. \A c \in Consumers : HandOf(c)' = HandOf(c)
    BY <1>2, <1>5 DEF HandOf
<1>7. \A c \in Consumers : c \in Early' <=> c \in Early
    BY <1>2, <1>3, <1>5, ViewsAre
<1>8. Stutters
    BY <1>2, <1>3, <1>6, <1>7, Unseen
<1> QED BY <1>4, <1>8 DEF Refined

\* A step outside the micro queues.
LEMMA PusherRests ==
    ASSUME QueueInv, HandsExact, QueueInv', NEW p \in Producers, NEW loc \in Locs, Goto(p, loc),
           UNCHANGED <<counters, micro>>, got' = got, void' = void,
           \A u \in Producers \cup Consumers : u # p => k'[u] = k[u],
           Claimed(p) <=> loc \in {"full", "prepare", "test", "commit", "asleep", "cancel", "leave",
                                   "turn", "store"},
           Claimed(p) => k'[p] = k[p],
           p \in void => loc \in {"leave", "turn", "store", "skip"}
    PROVE  Refined
<1>1. TypedState /\ mtail \in [0 .. NQueue - 1 -> Nat]
    BY SidesOf DEF Sides, Core, TypedState
<1>2. pc'[p] = loc /\ \A u \in Producers \ {p} : pc'[u] = pc[u] /\ k'[u] = k[u]
    BY <1>1, PusherMoves
<1>3. mtail' = mtail /\ pages' = pages /\ UNCHANGED counters
    BY DEF micro
<1>4. \A q \in 0 .. NQueue - 1 : mtail'[q] >= mtail[q]
    BY <1>1, <1>3
<1>5. Holding(p)' <=> Holding(p)
    BY <1>2 DEF Holding, Claimed
<1>6. \A u \in Producers : /\ Holding(u)' <=> Holding(u)
                           /\ Holding(u) => k'[u] = k[u]
    BY <1>2, <1>5, OthersHold DEF Holding
<1>7. Stored' = Stored
    BY <1>3 DEF Stored
<1>8. Live' = Live
    BY <1>6, <1>7, LiveStays
<1> QED BY <1>3, <1>4, <1>8, PusherQuiet

\* A step of a pop that leaves the items, its ticket and what it found as they are.
LEMMA PopperQuiet ==
    ASSUME QueueInv, HandsExact, NEW c \in Consumers, NEW loc \in Locs, Goto(c, loc),
           UNCHANGED counters, mtail' = mtail, void' = void, got' = got,
           \A v : v >= head_counter => (v \in Live' <=> v \in Live),
           \A u \in Consumers : HasTicket(u) => (k[u] \in Live' <=> k[u] \in Live),
           \A u \in Producers \cup Consumers : u # c => k'[u] = k[u],
           HasTicket(c) <=> loc \in {"full", "prepare", "test", "commit", "asleep", "cancel",
                                     "leave", "giveback", "turn"},
           HasTicket(c) => k'[c] = k[c],
           got[c] # Absent => loc \in {"finish", "notify"} /\ k'[c] = k[c]
    PROVE  Refined
<1>1. TypedState /\ void \subseteq Producers
    BY SidesOf DEF Sides, Core, QueueInv, TypeOK
<1>2. /\ pc'[c] = loc /\ \A u \in Consumers \ {c} : pc'[u] = pc[u] /\ k'[u] = k[u]
      /\ \A u \in Producers : pc'[u] = pc[u]
    BY <1>1, PopperMoves
<1>3. tail_counter' = tail_counter /\ head_counter' = head_counter
    BY DEF counters
<1>4. HandsExact'
    <2>1. got'[c] # Absent => /\ pc'[c] \in {"finish", "notify"} /\ got'[c] = k'[c]
                              /\ mtail[Queue(k'[c])] > Turn(k'[c])
        BY <1>2 DEF HandsExact
    <2> QED BY <2>1, <1>1, <1>2, HandsOfOthers
<1>5. \A u \in Consumers : /\ HasTicket(u)' <=> HasTicket(u)
                           /\ HasTicket(u) => k'[u] = k[u]
    BY <1>2 DEF HasTicket
<1>6. \A u \in Consumers : HandOf(u)' = HandOf(u)
    BY <1>5, HandSame
<1>7. \A u \in Consumers : /\ u \in Early' <=> u \in Early
                           /\ u \in Early => k'[u] = k[u]
    BY <1>3, <1>5, ViewsAre
<1>8. Stutters
    BY <1>3, <1>6, <1>7, Unseen
<1> QED BY <1>4, <1>8 DEF Refined

\* A step outside the micro queues.
LEMMA PopperRests ==
    ASSUME QueueInv, HandsExact, NEW c \in Consumers, NEW loc \in Locs, Goto(c, loc),
           UNCHANGED <<counters, micro>>, void' = void, got' = got,
           \A u \in Producers \cup Consumers : u # c => k'[u] = k[u],
           HasTicket(c) <=> loc \in {"full", "prepare", "test", "commit", "asleep", "cancel",
                                     "leave", "giveback", "turn"},
           HasTicket(c) => k'[c] = k[c], pc[c] \notin {"finish", "notify"}
    PROVE  Refined
<1>1. TypedState
    BY SidesOf DEF Sides, Core
<1>2. \A u \in Producers : pc'[u] = pc[u] /\ k'[u] = k[u]
    BY <1>1, PopperMoves
<1>3. mtail' = mtail /\ pages' = pages /\ UNCHANGED counters
    BY DEF micro
<1>4. \A u \in Producers : Holding(u)' <=> Holding(u)
    BY <1>2 DEF Holding, Claimed
<1>5. Stored' = Stored
    BY <1>3 DEF Stored
<1>6. Live' = Live
    BY <1>2, <1>4, <1>5, LiveStays
<1>7. got[c] = Absent
    BY DEF HandsExact
<1> QED BY <1>3, <1>6, <1>7, PopperQuiet

-----------------------------------------------------------------------------
(* The steps of a push. *)

LEMMA PushFullRefines ==
    ASSUME QueueInv, HandsExact, NEW p \in Producers, PushFull(p), QueueInv'
    PROVE  Refined
<1> DEFINE loc == IF IsFull(k[p]) THEN "prepare" ELSE "turn"
<1>1. /\ pc[p] = "full" /\ Goto(p, loc) /\ loc \in Locs /\ loc \in {"prepare", "turn"}
      /\ UNCHANGED <<counters, micro>> /\ k' = k /\ void' = void /\ got' = got
    BY DEF PushFull, Locs
<1>2. Claimed(p) /\ p \notin void
    BY <1>1 DEF Claimed, HandsExact
<1> HIDE DEF loc
<1> QED BY <1>1, <1>2, PusherRests

LEMMA PushPrepareRefines ==
    ASSUME QueueInv, HandsExact, NEW p \in Producers, PushPrepare(p), QueueInv'
    PROVE  Refined
<1>1. /\ pc[p] = "prepare" /\ k' = k /\ void' = void /\ got' = got
      /\ "prepare" \in Locs /\ "test" \in Locs /\ UNCHANGED <<counters, micro>>
    BY DEF PushPrepare, Locs
<1>2. Goto(p, "prepare") \/ Goto(p, "test")
    <2>1. pc \in [Threads -> Locs]
        BY SidesOf DEF Sides, Core, TypedState
    <2> QED BY <2>1, <1>1 DEF PushPrepare, Goto
<1>3. Claimed(p) /\ p \notin void
    BY <1>1 DEF Claimed, HandsExact
<1> QED BY <1>1, <1>2, <1>3, PusherRests

LEMMA PushTestRefines ==
    ASSUME QueueInv, HandsExact, NEW p \in Producers, PushTest(p), QueueInv'
    PROVE  Refined
<1> DEFINE loc == IF IsFull(k[p]) THEN "commit" ELSE "cancel"
<1>1. /\ pc[p] = "test" /\ Goto(p, loc) /\ loc \in Locs /\ loc \in {"commit", "cancel"}
      /\ UNCHANGED <<counters, micro>> /\ k' = k /\ void' = void /\ got' = got
    BY DEF PushTest, Locs
<1>2. Claimed(p) /\ p \notin void
    BY <1>1 DEF Claimed, HandsExact
<1> HIDE DEF loc
<1> QED BY <1>1, <1>2, PusherRests

LEMMA PushCommitRefines ==
    ASSUME QueueInv, HandsExact, NEW p \in Producers, PushCommit(p), QueueInv'
    PROVE  Refined
<1>1. /\ pc[p] = "commit" /\ k' = k /\ void' = void /\ got' = got
      /\ "prepare" \in Locs /\ "asleep" \in Locs /\ UNCHANGED <<counters, micro>>
      /\ Goto(p, "prepare") \/ Goto(p, "asleep")
    BY DEF PushCommit, Locs
<1>2. Claimed(p) /\ p \notin void
    BY <1>1 DEF Claimed, HandsExact
<1> QED BY <1>1, <1>2, PusherRests

LEMMA PushCancelRefines ==
    ASSUME QueueInv, HandsExact, NEW p \in Producers, PushCancel(p), QueueInv'
    PROVE  Refined
<1>1. /\ pc[p] = "cancel" /\ Goto(p, "leave") /\ "leave" \in Locs
      /\ UNCHANGED <<counters, micro>> /\ k' = k /\ void' = void /\ got' = got
    BY DEF PushCancel, Locs
<1>2. Claimed(p) /\ p \notin void
    BY <1>1 DEF Claimed, HandsExact
<1> QED BY <1>1, <1>2, PusherRests

LEMMA PushLeaveRefines ==
    ASSUME QueueInv, HandsExact, NEW p \in Producers, PushLeave(p), QueueInv'
    PROVE  Refined
<1>1. /\ pc[p] = "leave" /\ Goto(p, "turn") /\ "turn" \in Locs
      /\ UNCHANGED <<counters, micro>> /\ k' = k /\ void' = void /\ got' = got
    BY DEF PushLeave, Locs
<1>2. Claimed(p)
    BY <1>1 DEF Claimed
<1> QED BY <1>1, <1>2, PusherRests

LEMMA TryPushRefines ==
    ASSUME QueueInv, HandsExact, NEW p \in Producers, TryPush(p), QueueInv'
    PROVE  Refined
<1>1. /\ pc[p] = "idle" /\ Goto(p, "try") /\ "try" \in Locs
      /\ UNCHANGED <<counters, micro>> /\ void' = void /\ got' = got
      /\ k' = [k EXCEPT ![p] = tail_counter]
    BY DEF TryPush, Locs
<1>2. ~ Claimed(p) /\ p \notin void
    BY <1>1 DEF Claimed, HandsExact
<1>3. \A u \in Producers \cup Consumers : u # p => k'[u] = k[u]
    BY <1>1, PusherFacts
<1> QED BY <1>1, <1>2, <1>3, PusherRests

LEMMA TryPushFullRefines ==
    ASSUME QueueInv, HandsExact, NEW p \in Producers, TryPushFull(p), QueueInv'
    PROVE  Refined
<1>1. /\ pc[p] = "try" /\ "idle" \in Locs /\ "cas" \in Locs
      /\ Goto(p, "idle") \/ Goto(p, "cas")
      /\ UNCHANGED <<counters, micro>> /\ void' = void /\ got' = got
      /\ k' = [k EXCEPT ![p] = 0] \/ k' = k
    BY DEF TryPushFull, Finish, Locs
<1>2. ~ Claimed(p) /\ p \notin void
    BY <1>1 DEF Claimed, HandsExact
<1>3. \A u \in Producers \cup Consumers : u # p => k'[u] = k[u]
    BY <1>1, PusherFacts
<1> QED BY <1>1, <1>2, <1>3, PusherRests

LEMMA PushTurnRefines ==
    ASSUME QueueInv, HandsExact, NEW p \in Producers, PushTurn(p), QueueInv'
    PROVE  Refined
<1>1. TypedState /\ mtail \in [0 .. NQueue - 1 -> Nat]
    BY SidesOf DEF Sides, Core, TypedState
<1>2. /\ pc[p] = "turn" /\ Goto(p, "store") /\ "store" \in Locs
      /\ UNCHANGED counters /\ mtail' = mtail /\ k' = k /\ void' = void /\ got' = got
    BY DEF PushTurn, Locs
<1>3. pc'[p] = "store" /\ \A u \in Producers \ {p} : pc'[u] = pc[u] /\ k'[u] = k[u]
    BY <1>1, <1>2, PusherMoves
<1>4. \A u \in Producers : Holding(u)' <=> Holding(u)
    BY <1>2, <1>3 DEF Holding, Claimed
<1>5. Live' = Live
    BY <1>2, <1>4, PushTurnKeeps, LiveStays
<1>6. \A q \in 0 .. NQueue - 1 : mtail'[q] >= mtail[q]
    BY <1>1, <1>2
<1> QED BY <1>2, <1>5, <1>6, PusherQuiet

\* The item goes from the push into the page.
LEMMA PushStoreRefines ==
    ASSUME QueueInv, HandsExact, NEW p \in Producers, PushStore(p), QueueInv'
    PROVE  Refined
<1>1. TypedState /\ mtail \in [0 .. NQueue - 1 -> Nat]
    BY SidesOf DEF Sides, Core, TypedState
<1>2. /\ pc[p] = "store" /\ p \notin void /\ Goto(p, "publish") /\ "publish" \in Locs
      /\ UNCHANGED counters /\ mtail' = mtail /\ k' = k /\ void' = void /\ got' = got
    BY DEF PushStore, Locs
<1>3. pc'[p] = "publish" /\ \A u \in Producers \ {p} : pc'[u] = pc[u] /\ k'[u] = k[u]
    BY <1>1, <1>2, PusherMoves
<1>4. \A u \in Producers \ {p} : Holding(u)' <=> Holding(u)
    BY <1>2, <1>3 DEF Holding, Claimed
<1>5. Holding(p) /\ ~ Holding(p)'
    BY <1>2, <1>3 DEF Holding, Claimed
<1>6. Live' = Live
    <2>1. Stored' = Stored \cup {k[p]}
        BY PushStoreKeeps
    <2>2. \A v : v \in Live' <=> v \in Live
        BY <2>1, <1>2, <1>4, <1>5, LiveIs, LiveIsNext
    <2> QED BY <2>2
<1>7. \A q \in 0 .. NQueue - 1 : mtail'[q] >= mtail[q]
    BY <1>1, <1>2
<1> QED BY <1>2, <1>6, <1>7, PusherQuiet

LEMMA PushPublishRefines ==
    ASSUME QueueInv, HandsExact, NEW p \in Producers, PushPublish(p), QueueInv'
    PROVE  Refined
<1>1. TypedState /\ mtail \in [0 .. NQueue - 1 -> Nat] /\ NQueue \in Nat
    BY SidesOf, Sizes DEF Sides, Core, TypedState
<1>2. /\ pc[p] \in {"publish", "skip"} /\ "notify" \in Locs /\ "idle" \in Locs
      /\ Goto(p, "notify") \/ Goto(p, "idle")
      /\ UNCHANGED counters /\ got' = got /\ pages' = pages
      /\ mtail' = [mtail EXCEPT ![Queue(k[p])] = @ + NQueue]
      /\ k' = [k EXCEPT ![p] = 0] \/ k' = k
      /\ void' \subseteq void /\ \A u \in Producers \ {p} : u \in void' <=> u \in void
    BY DEF PushPublish, Finish, Locs
<1>3. p \notin void'
    BY <1>2 DEF PushPublish, HandsExact
<1>4. \A u \in Producers \cup Consumers : u # p => k'[u] = k[u]
    BY <1>2, PusherFacts
<1>5. /\ pc'[p] \in {"notify", "idle"}
      /\ \A u \in Producers \ {p} : pc'[u] = pc[u] /\ k'[u] = k[u]
    BY <1>1, <1>2, <1>4, PusherMoves
<1>6. ~ Holding(p) /\ ~ Holding(p)'
    BY <1>2, <1>5 DEF Holding, Claimed
<1>7. Live' = Live
    <2>1. Stored' = Stored
        BY <1>2 DEF Stored
    <2> QED BY <2>1, <1>2, <1>5, <1>6, OthersHold, LiveStays
<1>8. \A q \in 0 .. NQueue - 1 : mtail'[q] >= mtail[q]
    BY <1>1, <1>2
<1> QED BY <1>2, <1>3, <1>4, <1>7, <1>8, PusherQuiet

LEMMA PushNotifyRefines ==
    ASSUME QueueInv, HandsExact, NEW p \in Producers, PushNotify(p), QueueInv'
    PROVE  Refined
<1>1. /\ pc[p] = "notify" /\ Goto(p, "idle") /\ "idle" \in Locs
      /\ UNCHANGED <<counters, micro>> /\ void' = void /\ got' = got
      /\ k' = [k EXCEPT ![p] = 0]
    BY DEF PushNotify, Finish, Locs
<1>2. ~ Claimed(p) /\ p \notin void
    BY <1>1 DEF Claimed, HandsExact
<1>3. \A u \in Producers \cup Consumers : u # p => k'[u] = k[u]
    BY <1>1, PusherFacts
<1> QED BY <1>1, <1>2, <1>3, PusherRests

\* A push that is aborted, or whose item throws, withdraws the item it holds.
LEMMA Withdrawn ==
    ASSUME QueueInv, HandsExact, QueueInv', NEW p \in Producers, NEW loc \in Locs, Goto(p, loc),
           Holding(p), loc \in {"leave", "skip"}, p \in void' \/ loc = "skip",
           UNCHANGED counters, mtail' = mtail, pages' = pages, k' = k, got' = got,
           \A u \in Producers \ {p} : u \in void' <=> u \in void
    PROVE  Refined
<1> DEFINE v == k[p]
<1>1. TypedState /\ Core /\ void' \subseteq Producers
    BY SidesOf DEF Sides, Core, QueueInv, TypeOK
<1>2. /\ pc'[p] = loc /\ \A u \in Producers \ {p} : pc'[u] = pc[u] /\ k'[u] = k[u]
      /\ \A u \in Consumers : pc'[u] = pc[u] /\ k'[u] = k[u]
    BY <1>1, PusherMoves
<1>3. tail_counter' = tail_counter /\ head_counter' = head_counter /\ Stored' = Stored
    BY DEF counters, Stored
<1>4. HandsExact'
    <2>1. \A u \in void' : pc'[u] \in {"leave", "turn", "store", "skip"}
        BY <1>1, <1>2 DEF HandsExact
    <2>2. \A q \in 0 .. NQueue - 1 : mtail'[q] >= mtail[q]
        BY <1>1 DEF TypedState
    <2> QED BY <2>1, <2>2, <1>2, HandsStay
<1>5. Pushing(p) /\ pc[p] # "publish" /\ ~ Holding(p)'
    BY <1>2 DEF Holding, Pushing, Claimed
<1>6. v \notin Stored /\ \A u \in Producers \ {p} : ~ (Holding(u) /\ k[u] = v)
    BY <1>5, NotStored
<1>7. \A u \in Producers \ {p} : Holding(u)' <=> Holding(u)
    BY <1>2, OthersHold
<1>8. \A w : w \in Live' <=> w \in Live /\ w # v
    BY <1>3, <1>5, <1>6, <1>7, LiveIs, LiveIsNext
<1>9. v \in Live /\ v \in Nat /\ v < tail_counter /\ v # Absent /\ tail_counter \in Nat
    <2>1. v \in Live
        BY LiveIs
    <2> QED BY <2>1, LiveFacts, PusherFacts
<1>10. ~ (mtail[Queue(v)] > Turn(v))
    <2>1. mtail[Queue(v)] <= Turn(v)
        BY <1>1, <1>5 DEF Core, PushesInLine
    <2>2. mtail[Queue(v)] \in Nat /\ Turn(v) \in Nat
        BY <1>1, <1>9, TicketFacts
    <2> QED BY <2>1, <2>2
<1>11. \A c \in Consumers : got[c] # v
    BY <1>9, <1>10 DEF HandsExact
<1>12. \A c \in Consumers : HasTicket(c)' <=> HasTicket(c)
    BY <1>2 DEF HasTicket
<1>13. \A c \in Consumers : HandOf(c)' = IF HandOf(c) = v THEN Absent ELSE HandOf(c)
    BY <1>8, <1>9, <1>11, <1>12 DEF HandOf
<1> HIDE DEF v
<1>14. InHand' = [c \in Consumers |-> IF InHand[c] = v THEN Absent ELSE InHand[c]]
    BY <1>13, ViewsAre
<1>15. Unasked' = Unasked \ {v}
    BY <1>3, <1>8, ViewsAre
<1>16. Ahead' = Ahead
    <2>1. \A c \in Consumers : c \in Early' <=> c \in Early
        BY <1>3, <1>12, ViewsAre
    <2> QED BY <2>1, AheadSame
<1>17. Ex!Withdraw(v)
    BY <1>3, <1>14, <1>15, <1>16 DEF Ex!Withdraw
<1>18. v \in 0 .. tail_counter - 1
    BY <1>9
<1> QED BY <1>4, <1>17, <1>18 DEF Refined, Ex!Next

LEMMA PushWakeRefines ==
    ASSUME QueueInv, HandsExact, NEW p \in Producers, PushWake(p), QueueInv'
    PROVE  Refined
<1>1. /\ pc[p] = "asleep" /\ Goto(p, "leave") /\ "leave" \in Locs
      /\ UNCHANGED <<counters, micro>> /\ k' = k /\ got' = got
      /\ void' = void \cup {p} \/ void' = void
    BY DEF PushWake, Locs
<1>2. Claimed(p) /\ p \notin void
    BY <1>1 DEF Claimed, HandsExact
<1>3. CASE void' = void
    BY <1>1, <1>2, <1>3, PusherRests
<1>4. CASE void' = void \cup {p}
    BY <1>1, <1>2, <1>4, Withdrawn DEF Holding, micro
<1> QED BY <1>1, <1>3, <1>4

LEMMA PushSpoiltRefines ==
    ASSUME QueueInv, HandsExact, NEW p \in Producers, PushSpoilt(p), QueueInv'
    PROVE  Refined
<1>1. /\ pc[p] = "store" /\ Goto(p, "skip") /\ "skip" \in Locs /\ UNCHANGED counters
      /\ mtail' = mtail /\ pages' = pages /\ k' = k /\ void' = void /\ got' = got
    BY DEF PushSpoilt, Locs
<1>2. TypedState /\ mtail \in [0 .. NQueue - 1 -> Nat]
    BY SidesOf DEF Sides, Core, TypedState
<1>3. CASE p \notin void
    <2>1. Holding(p)
        BY <1>1, <1>3 DEF Holding, Claimed
    <2> QED BY <2>1, <1>1, <1>3, Withdrawn
<1>4. CASE p \in void
    <2>1. \A u \in Producers \ {p} : pc'[u] = pc[u] /\ k'[u] = k[u]
        BY <1>1, <1>2, PusherMoves
    <2>2. ~ Holding(p) /\ ~ Holding(p)'
        BY <1>1, <1>4 DEF Holding
    <2>3. Stored' = Stored
        BY <1>1 DEF Stored
    <2>4. Live' = Live
        BY <2>1, <2>2, <2>3, <1>1, OthersHold, LiveStays
    <2>5. \A q \in 0 .. NQueue - 1 : mtail'[q] >= mtail[q]
        BY <1>1, <1>2
    <2> QED BY <2>4, <2>5, <1>1, PusherQuiet
<1> QED BY <1>3, <1>4

\* A push that claims a ticket offers its item to the pop that has that ticket, or to
\* the queue when no pop has it.
LEMMA Offered ==
    ASSUME QueueInv, HandsExact, QueueInv', NEW p \in Producers, NEW loc \in {"full", "turn"},
           Goto(p, loc), pc[p] \in {"idle", "cas"}, tail_counter < MaxTickets,
           tail_counter' = tail_counter + 1, head_counter' = head_counter, UNCHANGED micro,
           void' = void, got' = got, k' = [k EXCEPT ![p] = tail_counter]
    PROVE  Refined
<1> DEFINE v == tail_counter
<1>1. TypedState /\ Core /\ void \subseteq Producers /\ loc \in Locs
    BY SidesOf DEF Sides, Core, QueueInv, TypeOK, Locs
<1>2. k'[p] = v /\ \A u \in Producers \cup Consumers : u # p => k'[u] = k[u]
    BY PusherFacts
<1>3. /\ pc'[p] = loc /\ \A u \in Producers \ {p} : pc'[u] = pc[u] /\ k'[u] = k[u]
      /\ \A u \in Consumers : pc'[u] = pc[u] /\ k'[u] = k[u]
    BY <1>1, <1>2, PusherMoves
<1>4. v \in Nat /\ head_counter \in Nat /\ v # Absent /\ v \in AllTickets
      /\ \A c \in Consumers : k[c] \in Nat
    BY PusherFacts, PopperFacts, Sizes DEF AllTickets
<1>5. p \notin void
    BY DEF HandsExact
<1>6. HandsExact'
    <2>1. \A u \in void' : pc'[u] \in {"leave", "turn", "store", "skip"}
        BY <1>1, <1>3, <1>5 DEF HandsExact
    <2>2. \A q \in 0 .. NQueue - 1 : mtail'[q] >= mtail[q]
        <3>1. mtail' = mtail
            BY DEF micro
        <3>2. mtail \in [0 .. NQueue - 1 -> Nat]
            BY <1>1 DEF TypedState
        <3> QED BY <3>1, <3>2
    <2> QED BY <2>1, <2>2, <1>3, HandsStay
<1>7. Holding(p)' /\ ~ Holding(p) /\ \A u \in Producers \ {p} : Holding(u)' <=> Holding(u)
    BY <1>3, <1>5, OthersHold DEF Holding, Claimed
<1>8. Stored' = Stored
    BY DEF Stored, micro
<1>9. \A w : w \in Live' <=> w \in Live \/ w = v
    BY <1>2, <1>3, <1>7, <1>8, LiveIs, LiveIsNext
<1>10. v \notin Live
    BY <1>4, LiveFacts
<1>11. \A c \in Consumers : /\ HasTicket(c)' <=> HasTicket(c)
                            /\ HasTicket(c) => k[c] < head_counter
    BY <1>1, <1>3 DEF HasTicket, Popping, Core, PopsInLine
<1>12. \A c : c \in Early' <=> c \in Early /\ k[c] # v
    BY <1>3, <1>4, <1>11, ViewsAre
<1>13. \A c \in Consumers : HandOf(c)' = IF HasTicket(c) /\ k[c] = v THEN v ELSE HandOf(c)
    BY <1>3, <1>9, <1>11 DEF HandOf
<1>14. CASE head_counter <= v
    <2>1. \A c : c \notin Early /\ c \notin Early'
        BY <1>4, <1>11, <1>12, <1>14, ViewsAre
    <2>2. Ahead' = Ahead /\ DOMAIN Ahead = {}
        BY <2>1, AheadSame, ViewsAre
    <2>3. InHand' = InHand
        BY <1>4, <1>11, <1>13, <1>14, ViewsAre
    <2>4. Unasked' = Unasked \cup {v}
        BY <1>4, <1>9, <1>14, ViewsAre
    <2>5. Ex!Offer
        BY <2>2, <2>3, <2>4 DEF Ex!Offer
    <2> QED BY <2>5, <1>6 DEF Refined, Ex!Next
<1>15. CASE ~ (head_counter <= v)
    <2>1. mtail[Queue(v)] <= Turn(v) /\ mhead[Queue(v)] <= Turn(v)
        <3>1. mtail[Queue(v)] <= Turn(v)
            BY <1>1, <1>4 DEF Core, PushesInLine
        <3>2. mtail[Queue(v)] \in Nat /\ mhead[Queue(v)] \in Nat /\ Turn(v) \in Nat
              /\ mhead[Queue(v)] <= mtail[Queue(v)]
            BY <1>1, <1>4, TicketFacts
        <3> QED BY <3>1, <3>2
    <2>2. PICK c \in Consumers : Popping(c) /\ k[c] = v
        BY <2>1, <1>1, <1>4, <1>15 DEF Core, PopsInLine
    <2>3. pc[c] # "finish"
        <3>1. mtail[Queue(v)] \in Nat /\ Turn(v) \in Nat
            BY <1>1, <1>4, TicketFacts
        <3>2. pc[c] = "finish" => mtail[Queue(v)] > Turn(v)
            BY <2>2, <1>1 DEF Core, PopsInLine
        <3> QED BY <3>1, <3>2, <2>1
    <2>4. HasTicket(c)
        BY <2>2, <2>3 DEF Popping
    <2>5. \A d \in Consumers : HasTicket(d) /\ k[d] = v => d = c
        BY <2>2, <1>1 DEF Core, PopsInLine, Popping
    <2>6. c \in Early /\ Ahead[c] = {}
        <3>1. c \in Early
            BY <2>2, <2>4, <1>4, ViewsAre
        <3>2. \A d \in Early : ~ (k[d] < k[c])
            BY <2>2, <1>4, ViewsAre
        <3> QED BY <3>1, <3>2, ViewsAre
    <2>7. Early' = Early \ {c}
        BY <2>2, <2>5, <1>12, ViewsAre
    <2>8. \A d \in Early' : Ahead'[d] = Ahead[d] \ {c}
        BY <2>7, <1>3, ViewsAre
    <2>9. Ahead' = [d \in DOMAIN Ahead \ {c} |-> Ahead[d] \ {c}]
        BY <2>7, <2>8, ViewsAre DEF Ahead
    <2>10. InHand' = [InHand EXCEPT ![c] = v]
        <3>1. \A d \in Consumers : HandOf(d)' = IF d = c THEN v ELSE HandOf(d)
            BY <2>2, <2>4, <2>5, <1>13
        <3> QED BY <3>1, ViewsAre
    <2>11. Unasked' = Unasked
        BY <1>4, <1>9, <1>15, ViewsAre
    <2>12. Ex!Offer
        BY <2>6, <2>9, <2>10, <2>11, ViewsAre DEF Ex!Offer, Ex!Dismiss
    <2> QED BY <2>12, <1>6 DEF Refined, Ex!Next
<1> QED BY <1>14, <1>15

LEMMA PushRefines ==
    ASSUME QueueInv, HandsExact, NEW p \in Producers, Push(p), QueueInv'
    PROVE  Refined
<1>1. /\ pc[p] = "idle" /\ Goto(p, "full") /\ "full" \in {"full", "turn"}
      /\ tail_counter < MaxTickets /\ tail_counter' = tail_counter + 1
      /\ head_counter' = head_counter /\ UNCHANGED micro /\ void' = void /\ got' = got
      /\ k' = [k EXCEPT ![p] = tail_counter]
    BY DEF Push
<1> QED BY <1>1, Offered

LEMMA TryPushClaimRefines ==
    ASSUME QueueInv, HandsExact, NEW p \in Producers, TryPushClaim(p), QueueInv'
    PROVE  Refined
<1>1. /\ pc[p] = "cas" /\ "idle" \in Locs /\ "try" \in Locs /\ "turn" \in {"full", "turn"}
      /\ UNCHANGED micro /\ void' = void /\ got' = got
    BY DEF TryPushClaim, Locs
<1>2. k \in [Producers \cup Consumers -> Nat] /\ k[p] < MaxTickets
    BY <1>1, PusherFacts
<1>3. CASE /\ k[p] = tail_counter
           /\ tail_counter' = tail_counter + 1
           /\ Goto(p, "turn") /\ UNCHANGED <<head_counter, k>>
    <2>1. k' = [k EXCEPT ![p] = tail_counter]
        BY <1>2, <1>3
    <2> QED BY <2>1, <1>1, <1>2, <1>3, Offered
<1>4. CASE /\ Goto(p, "try") \/ Goto(p, "idle")
           /\ k' = [k EXCEPT ![p] = tail_counter] \/ k' = [k EXCEPT ![p] = 0]
           /\ UNCHANGED counters
    <2>1. \A u \in Producers \cup Consumers : u # p => k'[u] = k[u]
        BY <1>2, <1>4
    <2>2. ~ Claimed(p) /\ p \notin void
        BY <1>1 DEF Claimed, HandsExact
    <2> QED BY <2>1, <2>2, <1>1, <1>4, PusherRests
<1> QED BY <1>3, <1>4 DEF TryPushClaim, Finish

-----------------------------------------------------------------------------
(* The steps of a pop. *)

LEMMA PopEmptyRefines ==
    ASSUME QueueInv, HandsExact, NEW c \in Consumers, PopEmpty(c)
    PROVE  Refined
<1> DEFINE loc == IF IsEmpty(k[c]) THEN "prepare" ELSE "turn"
<1>1. /\ pc[c] = "full" /\ Goto(c, loc) /\ loc \in Locs /\ loc \in {"prepare", "turn"}
      /\ UNCHANGED <<counters, micro>> /\ k' = k /\ void' = void /\ got' = got
    BY DEF PopEmpty, Locs
<1>2. HasTicket(c)
    BY <1>1 DEF HasTicket
<1> HIDE DEF loc
<1> QED BY <1>1, <1>2, PopperRests

LEMMA PopPrepareRefines ==
    ASSUME QueueInv, HandsExact, NEW c \in Consumers, PopPrepare(c)
    PROVE  Refined
<1>1. /\ pc[c] = "prepare" /\ k' = k /\ void' = void /\ got' = got
      /\ "prepare" \in Locs /\ "test" \in Locs /\ UNCHANGED <<counters, micro>>
    BY DEF PopPrepare, Locs
<1>2. Goto(c, "prepare") \/ Goto(c, "test")
    <2>1. pc \in [Threads -> Locs]
        BY SidesOf DEF Sides, Core, TypedState
    <2> QED BY <2>1, <1>1 DEF PopPrepare, Goto
<1>3. HasTicket(c)
    BY <1>1 DEF HasTicket
<1> QED BY <1>1, <1>2, <1>3, PopperRests

LEMMA PopTestRefines ==
    ASSUME QueueInv, HandsExact, NEW c \in Consumers, PopTest(c)
    PROVE  Refined
<1> DEFINE loc == IF IsEmpty(k[c]) THEN "commit" ELSE "cancel"
<1>1. /\ pc[c] = "test" /\ Goto(c, loc) /\ loc \in Locs /\ loc \in {"commit", "cancel"}
      /\ UNCHANGED <<counters, micro>> /\ k' = k /\ void' = void /\ got' = got
    BY DEF PopTest, Locs
<1>2. HasTicket(c)
    BY <1>1 DEF HasTicket
<1> HIDE DEF loc
<1> QED BY <1>1, <1>2, PopperRests

LEMMA PopCommitRefines ==
    ASSUME QueueInv, HandsExact, NEW c \in Consumers, PopCommit(c)
    PROVE  Refined
<1>1. /\ pc[c] = "commit" /\ k' = k /\ void' = void /\ got' = got
      /\ "prepare" \in Locs /\ "asleep" \in Locs /\ UNCHANGED <<counters, micro>>
      /\ Goto(c, "prepare") \/ Goto(c, "asleep")
    BY DEF PopCommit, Locs
<1>2. HasTicket(c)
    BY <1>1 DEF HasTicket
<1> QED BY <1>1, <1>2, PopperRests

LEMMA PopWakeRefines ==
    ASSUME QueueInv, HandsExact, NEW c \in Consumers, PopWake(c)
    PROVE  Refined
<1> DEFINE loc == IF c \in i_aborted THEN "giveback" ELSE "leave"
<1>1. /\ pc[c] = "asleep" /\ Goto(c, loc) /\ loc \in Locs /\ loc \in {"giveback", "leave"}
      /\ UNCHANGED <<counters, micro>> /\ k' = k /\ void' = void /\ got' = got
    BY DEF PopWake, Locs
<1>2. HasTicket(c)
    BY <1>1 DEF HasTicket
<1> HIDE DEF loc
<1> QED BY <1>1, <1>2, PopperRests

LEMMA PopCancelRefines ==
    ASSUME QueueInv, HandsExact, NEW c \in Consumers, PopCancel(c)
    PROVE  Refined
<1>1. /\ pc[c] = "cancel" /\ Goto(c, "leave") /\ "leave" \in Locs
      /\ UNCHANGED <<counters, micro>> /\ k' = k /\ void' = void /\ got' = got
    BY DEF PopCancel, Locs
<1>2. HasTicket(c)
    BY <1>1 DEF HasTicket
<1> QED BY <1>1, <1>2, PopperRests

LEMMA PopLeaveRefines ==
    ASSUME QueueInv, HandsExact, NEW c \in Consumers, PopLeave(c)
    PROVE  Refined
<1>1. /\ pc[c] = "leave" /\ Goto(c, "turn") /\ "turn" \in Locs
      /\ UNCHANGED <<counters, micro>> /\ k' = k /\ void' = void /\ got' = got
    BY DEF PopLeave, Locs
<1>2. HasTicket(c)
    BY <1>1 DEF HasTicket
<1> QED BY <1>1, <1>2, PopperRests

LEMMA TryPopRefines ==
    ASSUME QueueInv, HandsExact, NEW c \in Consumers, TryPop(c)
    PROVE  Refined
<1>1. /\ pc[c] \in {"idle", "again"} /\ Goto(c, "try") /\ "try" \in Locs
      /\ UNCHANGED <<counters, micro>> /\ void' = void /\ got' = got
      /\ k' = [k EXCEPT ![c] = head_counter]
    BY DEF TryPop, Locs
<1>2. ~ HasTicket(c)
    BY <1>1 DEF HasTicket
<1>3. \A u \in Producers \cup Consumers : u # c => k'[u] = k[u]
    BY <1>1, PopperFacts
<1> QED BY <1>1, <1>2, <1>3, PopperRests

LEMMA TryPopEmptyRefines ==
    ASSUME QueueInv, HandsExact, NEW c \in Consumers, TryPopEmpty(c)
    PROVE  Refined
<1>1. /\ pc[c] = "try" /\ "idle" \in Locs /\ "cas" \in Locs
      /\ Goto(c, "idle") \/ Goto(c, "cas")
      /\ UNCHANGED <<counters, micro>> /\ void' = void /\ got' = got
      /\ k' = [k EXCEPT ![c] = 0] \/ k' = k
    BY DEF TryPopEmpty, Finish, Locs
<1>2. ~ HasTicket(c)
    BY <1>1 DEF HasTicket
<1>3. \A u \in Producers \cup Consumers : u # c => k'[u] = k[u]
    BY <1>1, PopperFacts
<1> QED BY <1>1, <1>2, <1>3, PopperRests

\* A pop that takes a ticket takes the first of the items nobody has asked for, or
\* waits behind the others; a ticket without an item is not seen.
LEMMA Taken ==
    ASSUME QueueInv, HandsExact, NEW c \in Consumers, NEW loc \in {"full", "turn"},
           Goto(c, loc), pc[c] \in {"idle", "again", "cas"},
           tail_counter' = tail_counter, head_counter' = head_counter + 1, UNCHANGED micro,
           void' = void, got' = got, k' = [k EXCEPT ![c] = head_counter]
    PROVE  Refined
<1> DEFINE h == head_counter
<1>1. TypedState /\ Core /\ void \subseteq Producers /\ loc \in Locs
    BY SidesOf DEF Sides, Core, QueueInv, TypeOK, Locs
<1>2. k'[c] = h /\ \A u \in Producers \cup Consumers : u # c => k'[u] = k[u]
    BY PopperFacts
<1>3. /\ pc'[c] = loc /\ \A u \in Consumers \ {c} : pc'[u] = pc[u] /\ k'[u] = k[u]
      /\ \A u \in Producers : pc'[u] = pc[u] /\ k'[u] = k[u]
    BY <1>1, <1>2, PopperMoves
<1>4. /\ h \in Nat /\ tail_counter \in Nat /\ \A u \in Consumers : k[u] \in Nat
      /\ Stored' = Stored /\ mtail' = mtail
    BY PopperFacts DEF micro, Stored
<1>5. got[c] = Absent
    BY DEF HandsExact
<1>6. HandsExact'
    BY <1>1, <1>3, <1>4, <1>5, HandsOfOthers
<1>7. Live' = Live /\ \A v \in Live : v \in Nat /\ v < tail_counter /\ v # Absent
    <2>1. \A u \in Producers : Holding(u)' <=> Holding(u)
        BY <1>3 DEF Holding, Claimed
    <2> QED BY <2>1, <1>3, <1>4, LiveStays, LiveFacts
<1>8. /\ ~ HasTicket(c) /\ HasTicket(c)'
      /\ \A u \in Consumers \ {c} : HasTicket(u)' <=> HasTicket(u)
      /\ \A u \in Consumers : HasTicket(u) => k[u] < h
    BY <1>1, <1>3 DEF HasTicket, Popping, Core, PopsInLine
<1>9. \A u : u \in Early' <=> u \in Early \/ (u = c /\ h >= tail_counter)
    BY <1>2, <1>3, <1>8, ViewsAre
<1>10. /\ HandOf(c) = Absent /\ HandOf(c)' = IF h \in Live THEN h ELSE Absent
       /\ \A u \in Consumers \ {c} : HandOf(u)' = HandOf(u)
    BY <1>2, <1>3, <1>5, <1>7, <1>8 DEF HandOf
<1>11. \A v : v \in Unasked' <=> v \in Unasked /\ v # h
    BY <1>4, <1>7, ViewsAre
<1>12. c \notin Early
    BY <1>8, ViewsAre
<1>13. ASSUME h < tail_counter
       PROVE  Ahead' = Ahead
    <2>1. \A u \in Consumers : u \in Early' <=> u \in Early
        BY <1>4, <1>9, <1>13
    <2> QED BY <2>1, <1>3, <1>12, AheadSame
<1>14. CASE h \in Live
    <2>1. Ahead' = Ahead
        BY <1>7, <1>13, <1>14
    <2>2. h \in Unasked /\ \A w \in Unasked : h <= w
        BY <1>4, <1>7, <1>14, ViewsAre
    <2>3. InHand' = [InHand EXCEPT ![c] = h]
        BY <1>10, <1>14, ViewsAre
    <2>4. Unasked' = Unasked \ {h}
        BY <1>11
    <2>5. InHand[c] = Absent /\ c \notin DOMAIN Ahead
        BY <1>10, <1>12, ViewsAre
    <2>6. Ex!Take(c)
        BY <2>1, <2>2, <2>3, <2>4, <2>5 DEF Ex!Take
    <2> QED BY <2>6, <1>6 DEF Refined, Ex!Next
<1>15. CASE h \notin Live
    <2>1. InHand' = InHand
        BY <1>10, <1>15, ViewsAre
    <2>2. Unasked' = Unasked
        BY <1>11, <1>15, ViewsAre
    <2>3. CASE h < tail_counter
        BY <2>1, <2>2, <2>3, <1>6, <1>13 DEF Refined, Stutters
    <2>4. CASE ~ (h < tail_counter)
        <3>1. Unasked = {}
            BY <2>4, <1>4, <1>7, ViewsAre
        <3>2. Early' = Early \cup {c}
            BY <2>4, <1>4, <1>9
        <3>3. \A u \in Early' : Ahead'[u] = IF u = c THEN Early ELSE Ahead[u]
            <4>1. Ahead'[c] = Early
                <5>1. \A d \in Early' : k'[d] < k'[c] <=> d \in Early
                    BY <3>2, <1>2, <1>3, <1>4, <1>8, ViewsAre
                <5>2. c \in Early' /\ Ahead'[c] = {d \in Early' : k'[d] < k'[c]}
                    BY <3>2, ViewsAre
                <5>3. {d \in Early' : k'[d] < k'[c]} = Early
                    BY <5>1, <3>2
                <5> QED BY <5>2, <5>3
            <4>2. ASSUME NEW u \in Early
                  PROVE  Ahead'[u] = Ahead[u]
                <5>1. \A d \in Early' : k'[d] < k'[u] <=> d \in Early /\ k[d] < k[u]
                    BY <3>2, <1>2, <1>3, <1>4, <1>8, <1>12, ViewsAre
                <5>2. /\ u \in Early' /\ Ahead'[u] = {d \in Early' : k'[d] < k'[u]}
                      /\ Ahead[u] = {d \in Early : k[d] < k[u]}
                    BY <3>2, ViewsAre
                <5>3. {d \in Early' : k'[d] < k'[u]} = {d \in Early : k[d] < k[u]}
                    BY <5>1, <3>2
                <5> QED BY <5>2, <5>3
            <4> QED BY <4>1, <4>2, <3>2, <1>12
        <3>4. Ahead' = [u \in Early \cup {c} |-> IF u = c THEN Early ELSE Ahead[u]]
            BY <3>2, <3>3 DEF Ahead
        <3>5. InHand[c] = Absent /\ c \notin DOMAIN Ahead /\ DOMAIN Ahead = Early
            BY <1>10, <1>12, ViewsAre
        <3>6. Ex!Take(c)
            BY <3>1, <3>4, <3>5, <2>1, <2>2 DEF Ex!Take
        <3> QED BY <3>6, <1>6 DEF Refined, Ex!Next
    <2> QED BY <2>3, <2>4
<1> QED BY <1>14, <1>15

LEMMA PopClaimRefines ==
    ASSUME QueueInv, HandsExact, NEW c \in Consumers, PopClaim(c)
    PROVE  Refined
<1>1. /\ pc[c] \in {"idle", "again"} /\ Goto(c, "full") /\ "full" \in {"full", "turn"}
      /\ tail_counter' = tail_counter /\ head_counter' = head_counter + 1
      /\ UNCHANGED micro /\ void' = void /\ got' = got
      /\ k' = [k EXCEPT ![c] = head_counter]
    BY DEF PopClaim
<1> QED BY <1>1, Taken

LEMMA TryPopClaimRefines ==
    ASSUME QueueInv, HandsExact, NEW c \in Consumers, TryPopClaim(c)
    PROVE  Refined
<1>1. /\ pc[c] = "cas" /\ "try" \in Locs /\ "turn" \in {"full", "turn"}
      /\ UNCHANGED micro /\ void' = void /\ got' = got
    BY DEF TryPopClaim, Locs
<1>2. k \in [Producers \cup Consumers -> Nat]
    BY PopperFacts
<1>3. CASE /\ k[c] = head_counter
           /\ head_counter' = head_counter + 1
           /\ Goto(c, "turn") /\ UNCHANGED <<tail_counter, k>>
    <2>1. k' = [k EXCEPT ![c] = head_counter]
        BY <1>2, <1>3
    <2> QED BY <2>1, <1>1, <1>3, Taken
<1>4. CASE /\ k' = [k EXCEPT ![c] = head_counter]
           /\ Goto(c, "try") /\ UNCHANGED counters
    <2>1. \A u \in Producers \cup Consumers : u # c => k'[u] = k[u]
        BY <1>2, <1>4
    <2>2. ~ HasTicket(c)
        BY <1>1 DEF HasTicket
    <2> QED BY <2>1, <2>2, <1>1, <1>4, PopperRests
<1> QED BY <1>3, <1>4 DEF TryPopClaim

\* The pop finds in the slot what the exchange has given it.
LEMMA PopTurnRefines ==
    ASSUME QueueInv, HandsExact, NEW c \in Consumers, PopTurn(c)
    PROVE  Refined
<1> DEFINE t == k[c]
           found == pages[Queue(t)][1][Slot(t)]
<1>1. TypedState /\ Core /\ void \subseteq Producers
    BY SidesOf DEF Sides, Core, QueueInv, TypeOK
<1>2. /\ pc[c] = "turn" /\ Goto(c, "finish") /\ "finish" \in Locs
      /\ mhead[Queue(t)] = Turn(t) /\ mtail[Queue(t)] # Turn(t)
      /\ got' = [got EXCEPT ![c] = found]
      /\ tail_counter' = tail_counter /\ head_counter' = head_counter
      /\ mtail' = mtail /\ pages' = pages /\ k' = k /\ void' = void
    BY DEF PopTurn, MyTurn, counters, Locs
<1>3. /\ pc'[c] = "finish" /\ \A u \in Consumers \ {c} : pc'[u] = pc[u]
      /\ \A u \in Producers : pc'[u] = pc[u]
    BY <1>1, <1>2, PopperMoves
<1>4. t \in Nat /\ t < tail_counter /\ t \in Tickets /\ tail_counter \in Nat
    BY <1>2, PopperFacts, Sizes DEF Tickets
<1>5. mtail[Queue(t)] > Turn(t)
    <2>1. mtail[Queue(t)] \in Nat /\ Turn(t) \in Nat /\ mhead[Queue(t)] <= mtail[Queue(t)]
        BY <1>1, <1>4, TicketFacts
    <2> QED BY <2>1, <1>2
<1>6. found = IF t \in Live THEN t ELSE Absent
    BY <1>1, <1>2, <1>4, <1>5, FoundIs, LiveWhenPassed
<1> HIDE DEF found
<1>7. got'[c] = found /\ \A u \in Consumers \ {c} : got'[u] = got[u]
    BY <1>2, PopperFacts
<1>8. HandsExact'
    <2>1. got'[c] # Absent => /\ pc'[c] \in {"finish", "notify"} /\ got'[c] = k'[c]
                              /\ mtail[Queue(k'[c])] > Turn(k'[c])
        BY <1>2, <1>3, <1>5, <1>6, <1>7
    <2> QED BY <2>1, <1>1, <1>2, <1>3, <1>7, HandsOfOthers
<1>9. Live' = Live
    <2>1. \A u \in Producers : Holding(u)' <=> Holding(u)
        BY <1>2, <1>3 DEF Holding, Claimed
    <2>2. Stored' = Stored
        BY <1>2 DEF Stored
    <2> QED BY <2>1, <2>2, <1>2, LiveStays
<1>10. /\ HasTicket(c) /\ ~ HasTicket(c)'
       /\ \A u \in Consumers \ {c} : HasTicket(u)' <=> HasTicket(u)
    BY <1>2, <1>3 DEF HasTicket
<1>11. \A u \in Consumers : HandOf(u)' = HandOf(u)
    BY <1>2, <1>6, <1>7, <1>9, <1>10 DEF HandOf
<1>12. \A u \in Consumers : u \in Early' <=> u \in Early
    BY <1>2, <1>4, <1>10, ViewsAre
<1>13. Stutters
    BY <1>2, <1>9, <1>11, <1>12, Unseen
<1> QED BY <1>8, <1>13 DEF Refined

LEMMA CoreOf == QueueInv => TypedState /\ Core
    BY SidesOf DEF Sides, Core

LEMMA CoreOfNext == QueueInv' => TypedState' /\ Core'
    BY CoreOf, PTL

\* The page that goes away has no item that is still wanted.
LEMMA PopFinishRefines ==
    ASSUME QueueInv, HandsExact, NEW c \in Consumers, PopFinish(c), QueueInv'
    PROVE  Refined
<1> DEFINE t == k[c]
           loc == IF got[c] = Absent THEN "again" ELSE "notify"
<1>1. TypedState /\ Core /\ TypedState' /\ Core'
    BY CoreOf, CoreOfNext
<1>2. /\ pc[c] = "finish" /\ Goto(c, loc) /\ loc \in Locs /\ loc \in {"again", "notify"}
      /\ pages' = IF Slot(t) = PerPage - 1
                  THEN [pages EXCEPT ![Queue(t)] = Tail(@)] ELSE pages
      /\ mhead' = [mhead EXCEPT ![Queue(t)] = Turn(t) + NQueue]
      /\ UNCHANGED counters /\ tail_counter' = tail_counter /\ head_counter' = head_counter
      /\ mtail' = mtail /\ k' = k /\ void' = void /\ got' = got
    BY DEF PopFinish, counters, Locs
<1>3. /\ pc'[c] = loc /\ \A u \in Consumers \ {c} : pc'[u] = pc[u]
      /\ \A u \in Producers : pc'[u] = pc[u]
    BY <1>1, <1>2, PopperMoves
<1>4. t \in Nat /\ t < tail_counter /\ t \in Tickets
    BY <1>2, PopperFacts, Sizes DEF Tickets
<1>5. /\ Stored' \subseteq Stored
      /\ \A v \in Stored : v \notin Stored' => Queue(v) = Queue(t) /\ Turn(v) <= Turn(t)
    BY <1>1, <1>2, <1>4, KeptItems
<1>6. \A u \in Producers : Holding(u)' <=> Holding(u)
    BY <1>2, <1>3 DEF Holding, Claimed
<1>7. ASSUME NEW v \in Live, v \notin Live'
      PROVE  v < head_counter /\ ~ (mhead'[Queue(v)] <= Turn(v))
    <2>1. v \in Stored /\ v \notin Stored'
        BY <1>2, <1>6, <1>7, LiveIs, LiveIsNext
    <2>2. v \in Nat /\ v \in AllTickets
        BY LiveFacts
    <2>3. Turn(v) \in Nat /\ Turn(t) \in Nat /\ Queue(t) \in 0 .. NQueue - 1
          /\ NQueue \in Nat \ {0} /\ head_counter \in Nat
        BY <2>2, <1>4, TicketTyped, Sizes, PopperFacts
    <2>4. mhead'[Queue(v)] = Turn(t) + NQueue
        <3>1. mhead \in [0 .. NQueue - 1 -> Nat]
            BY <1>1 DEF TypedState
        <3>2. Queue(v) = Queue(t)
            BY <2>1, <1>5
        <3> QED BY <3>1, <3>2, <2>3, <1>2
    <2>5. ~ (mhead'[Queue(v)] <= Turn(v))
        BY <2>1, <2>3, <2>4, <1>5
    <2>6. v >= head_counter => mhead'[Queue(v)] <= Turn(v)
        BY <2>2, <1>1, <1>2 DEF Core, PopsInLine
    <2> QED BY <2>2, <2>3, <2>5, <2>6
<1>8. \A v : v \in Live' => v \in Live
    BY <1>2, <1>5, <1>6, LiveIs, LiveIsNext
<1>9. \A v : v >= head_counter => (v \in Live' <=> v \in Live)
    <2>1. \A v \in Live : v \in Nat
        BY LiveFacts
    <2>2. head_counter \in Nat
        BY PopperFacts
    <2> QED BY <2>1, <2>2, <1>7, <1>8
<1>10. ~ HasTicket(c) /\ \A u \in Consumers : HasTicket(u)' <=> HasTicket(u)
    BY <1>2, <1>3 DEF HasTicket
<1>11. \A u \in Consumers : HasTicket(u) => (k[u] \in Live' <=> k[u] \in Live)
    <2>1. \A u \in Consumers : HasTicket(u) => mhead'[Queue(k[u])] <= Turn(k[u])
        BY <1>1, <1>2, <1>10 DEF Core, PopsInLine, Popping
    <2> QED BY <2>1, <1>7, <1>8
<1>12. got[c] # Absent => loc = "notify"
    OBVIOUS
<1> HIDE DEF loc
<1> QED BY <1>2, <1>9, <1>10, <1>11, <1>12, PopperQuiet

LEMMA PopNotifyRefines ==
    ASSUME QueueInv, HandsExact, NEW c \in Consumers, PopNotify(c)
    PROVE  Refined
<1>1. TypedState /\ void \subseteq Producers /\ got \in [Consumers -> Tickets \cup {Absent}]
    BY SidesOf DEF Sides, Core, QueueInv, TypeOK
<1>2. /\ pc[c] = "notify" /\ Goto(c, "idle") /\ "idle" \in Locs
      /\ tail_counter' = tail_counter /\ head_counter' = head_counter
      /\ mtail' = mtail /\ pages' = pages /\ void' = void
      /\ k' = [k EXCEPT ![c] = 0] /\ got' = [got EXCEPT ![c] = Absent]
    BY DEF PopNotify, Finish, counters, micro, Locs
<1>3. \A u \in Producers \cup Consumers : u # c => k'[u] = k[u]
    BY <1>2, PopperFacts
<1>4. /\ pc'[c] = "idle" /\ \A u \in Consumers \ {c} : pc'[u] = pc[u] /\ k'[u] = k[u]
      /\ \A u \in Producers : pc'[u] = pc[u] /\ k'[u] = k[u]
    BY <1>1, <1>2, <1>3, PopperMoves
<1>5. got'[c] = Absent /\ \A u \in Consumers \ {c} : got'[u] = got[u]
    BY <1>1, <1>2
<1>6. HandsExact'
    BY <1>1, <1>2, <1>4, <1>5, HandsOfOthers
<1>7. Live' = Live
    <2>1. \A u \in Producers : Holding(u)' <=> Holding(u)
        BY <1>2, <1>4 DEF Holding, Claimed
    <2>2. Stored' = Stored
        BY <1>2 DEF Stored
    <2> QED BY <2>1, <2>2, <1>4, LiveStays
<1>8. ~ HasTicket(c) /\ \A u \in Consumers : HasTicket(u)' <=> HasTicket(u)
    BY <1>2, <1>4 DEF HasTicket
<1>9. \A u \in Consumers : HandOf(u)' = IF u = c THEN Absent ELSE HandOf(u)
    BY <1>4, <1>5, <1>7, <1>8 DEF HandOf
<1>10. \A u \in Consumers : /\ u \in Early' <=> u \in Early
                            /\ u \in Early => k'[u] = k[u]
    BY <1>2, <1>4, <1>8, ViewsAre
<1>11. CASE got[c] = Absent
    <2>1. \A u \in Consumers : HandOf(u)' = HandOf(u)
        BY <1>8, <1>9, <1>11 DEF HandOf
    <2>2. Stutters
        BY <2>1, <1>2, <1>7, <1>10, Unseen
    <2> QED BY <2>2, <1>6 DEF Refined
<1>12. CASE got[c] # Absent
    <2>1. InHand[c] # Absent
        BY <1>8, <1>12, ViewsAre DEF HandOf
    <2>2. InHand' = [InHand EXCEPT ![c] = Absent]
        BY <1>9, ViewsAre
    <2>3. Unasked' = Unasked
        BY <1>2, <1>7, ViewsAre
    <2>4. Ahead' = Ahead
        BY <1>10, AheadSame
    <2>5. Ex!Keep(c)
        BY <2>1, <2>2, <2>3, <2>4, <1>2 DEF Ex!Keep
    <2> QED BY <2>5, <1>6 DEF Refined, Ex!Next
<1> QED BY <1>11, <1>12

\* A ticket that is given back is the last one, and no other pop is under way: its item
\* is again the first that nobody has asked for.
LEMMA PopGiveBackRefines ==
    ASSUME QueueInv, HandsExact, NEW c \in Consumers, PopGiveBack(c)
    PROVE  Refined
<1> DEFINE t == k[c]
<1>1. TypedState /\ Core /\ PopSide /\ void \subseteq Producers
    BY SidesOf DEF Sides, Core, QueueInv, TypeOK
<1>2. /\ pc[c] = "giveback" /\ Goto(c, "idle") /\ "idle" \in Locs
      /\ head_counter' = head_counter - 1 /\ tail_counter' = tail_counter
      /\ mtail' = mtail /\ pages' = pages /\ void' = void /\ got' = got
      /\ k' = [k EXCEPT ![c] = 0]
    BY DEF PopGiveBack, Finish, micro, Locs
<1>3. \A u \in Producers \cup Consumers : u # c => k'[u] = k[u]
    BY <1>2, PopperFacts
<1>4. /\ pc'[c] = "idle" /\ \A u \in Consumers \ {c} : pc'[u] = pc[u] /\ k'[u] = k[u]
      /\ \A u \in Producers : pc'[u] = pc[u] /\ k'[u] = k[u]
    BY <1>1, <1>2, <1>3, PopperMoves
<1>5. got[c] = Absent
    BY <1>2 DEF HandsExact
<1>6. HandsExact'
    BY <1>1, <1>2, <1>4, <1>5, HandsOfOthers
<1>7. Live' = Live /\ \A v \in Live : v \in Nat /\ v < tail_counter /\ v # Absent
    <2>1. \A u \in Producers : Holding(u)' <=> Holding(u)
        BY <1>2, <1>4 DEF Holding, Claimed
    <2>2. Stored' = Stored
        BY <1>2 DEF Stored
    <2> QED BY <2>1, <2>2, <1>4, LiveStays, LiveFacts
<1>8. HasTicket(c) /\ ~ HasTicket(c)' /\ Popping(c)
    BY <1>2, <1>4 DEF HasTicket, Popping
<1>9. t = head_counter - 1 /\ \A u \in Consumers \ {c} : pc[u] = "away"
    <2>1. ~ Unaborted
        BY <1>2, PopperFacts
    <2>2. \E a \in Aborters : pc[a] # "away"
        BY <2>1 DEF Unaborted
    <2>3. pc[c] # "away"
        BY <1>2
    <2> QED BY <2>2, <2>3, <1>1, <1>8 DEF PopSide, GivenBackLast
<1>10. t \in Nat /\ head_counter \in Nat /\ tail_counter \in Nat
    BY PopperFacts
<1>11. \A u \in Consumers \ {c} : ~ HasTicket(u) /\ ~ HasTicket(u)'
    BY <1>4, <1>9 DEF HasTicket
<1>12. /\ HandOf(c) = (IF t \in Live THEN t ELSE Absent) /\ HandOf(c)' = Absent
       /\ \A u \in Consumers \ {c} : HandOf(u)' = HandOf(u)
    BY <1>2, <1>5, <1>8, <1>11 DEF HandOf
<1>13. /\ \A u : u \notin Early'
       /\ \A u : u \in Early <=> u = c /\ t >= tail_counter
    BY <1>2, <1>8, <1>11, ViewsAre
<1>14. \A v : v \in Unasked' <=> v \in Unasked \/ (v = t /\ t \in Live)
    BY <1>2, <1>7, <1>9, <1>10, ViewsAre
<1>15. CASE t \in Live
    <2>1. Ahead' = Ahead
        <3>1. \A u : u \notin Early
            BY <1>7, <1>10, <1>13, <1>15
        <3> QED BY <3>1, <1>13, AheadSame
    <2>2. InHand[c] = t /\ t # Absent
        BY <1>7, <1>12, <1>15, ViewsAre
    <2>3. InHand' = [InHand EXCEPT ![c] = Absent]
        BY <1>12, ViewsAre
    <2>4. Unasked' = Unasked \cup {t}
        BY <1>14, <1>15
    <2>5. Ex!GiveBack(c)
        BY <2>1, <2>2, <2>3, <2>4, <1>2 DEF Ex!GiveBack
    <2> QED BY <2>5, <1>6 DEF Refined, Ex!Next
<1>16. CASE t \notin Live
    <2>1. InHand' = InHand
        BY <1>12, <1>16, ViewsAre
    <2>2. Unasked' = Unasked
        BY <1>14, <1>16
    <2>3. CASE t >= tail_counter
        <3>1. c \in DOMAIN Ahead
            BY <2>3, <1>13, ViewsAre
        <3>2. DOMAIN Ahead \ {c} = {} /\ Early' = {}
            BY <1>13, ViewsAre
        <3>3. Ahead' = [d \in DOMAIN Ahead \ {c} |-> Ahead[d] \ {c}]
            BY <3>2 DEF Ahead
        <3>4. Ex!GiveBack(c)
            BY <3>1, <3>3, <2>1, <2>2, <1>2 DEF Ex!GiveBack, Ex!Dismiss
        <3> QED BY <3>4, <1>6 DEF Refined, Ex!Next
    <2>4. CASE ~ (t >= tail_counter)
        <3>1. \A u : u \notin Early
            BY <2>4, <1>13
        <3>2. Ahead' = Ahead
            BY <3>1, <1>13, AheadSame
        <3> QED BY <3>2, <2>1, <2>2, <1>2, <1>6 DEF Refined, Stutters
    <2> QED BY <2>3, <2>4
<1> QED BY <1>15, <1>16

-----------------------------------------------------------------------------
(* Every step. *)

LEMMA NobodyMoves ==
    ASSUME QueueInv, HandsExact, QueueInv', UNCHANGED <<counters, micro, k, void, got>>,
           \A u \in Producers \cup Consumers : pc'[u] = pc[u]
    PROVE  Refined
<1>1. /\ tail_counter' = tail_counter /\ head_counter' = head_counter
      /\ mtail' = mtail /\ pages' = pages /\ k' = k /\ void' = void /\ got' = got
    BY DEF counters, micro
<1>2. void \subseteq Producers /\ mtail \in [0 .. NQueue - 1 -> Nat]
    BY DEF QueueInv, TypeOK
<1>3. HandsExact'
    <2>1. \A q \in 0 .. NQueue - 1 : mtail'[q] >= mtail[q]
        BY <1>1, <1>2
    <2>2. \A u \in void' : pc'[u] \in {"leave", "turn", "store", "skip"}
        BY <1>1, <1>2 DEF HandsExact
    <2> QED BY <2>1, <2>2, <1>1, HandsStay
<1>4. Live' = Live
    <2>1. \A u \in Producers : Holding(u)' <=> Holding(u)
        BY <1>1 DEF Holding, Claimed
    <2>2. Stored' = Stored
        BY <1>1 DEF Stored
    <2> QED BY <2>1, <2>2, <1>1, LiveStays
<1>5. \A u \in Consumers : HasTicket(u)' <=> HasTicket(u)
    BY DEF HasTicket
<1>6. \A u \in Consumers : HandOf(u)' = HandOf(u) /\ (u \in Early' <=> u \in Early)
    BY <1>1, <1>4, <1>5, HandSame, ViewsAre
<1>7. Stutters
    BY <1>1, <1>4, <1>6, Unseen
<1> QED BY <1>3, <1>7 DEF Refined

LEMMA StepRefines ==
    ASSUME QueueInv, HandsExact, [Next]_vars
    PROVE  Refined
<1>1. QueueInv'
    BY StepKeeps
<1>2. ASSUME NEW p \in Producers, Push(p) \/ TryPush(p) \/ PushStep(p)
      PROVE  Refined
    BY <1>1, <1>2, PushRefines, TryPushRefines, PushFullRefines, PushPrepareRefines,
       PushTestRefines, PushCommitRefines, PushWakeRefines, PushCancelRefines, PushLeaveRefines,
       TryPushFullRefines, TryPushClaimRefines, PushTurnRefines, PushStoreRefines,
       PushSpoiltRefines, PushPublishRefines, PushNotifyRefines, Zenon DEF PushStep
<1>3. ASSUME NEW c \in Consumers, PopStart(c) \/ PopStep(c)
      PROVE  Refined
    BY <1>1, <1>3, PopClaimRefines, TryPopRefines, PopEmptyRefines, PopPrepareRefines,
       PopTestRefines, PopCommitRefines, PopWakeRefines, PopCancelRefines, PopLeaveRefines,
       PopGiveBackRefines, TryPopEmptyRefines, TryPopClaimRefines, PopTurnRefines,
       PopFinishRefines, PopNotifyRefines, Zenon
       DEF PopStart, PopStep
<1>4. ASSUME NEW a \in Aborters, AbortItems(a) \/ AbortSlots(a)
      PROVE  Refined
    <2>1. \E loc \in {"slots", "done"} : Goto(a, loc)
        BY <1>4 DEF AbortItems, AbortSlots
    <2>2. UNCHANGED <<counters, micro, k, void, got>> /\ pc[a] \in {"idle", "slots"}
        BY <1>4 DEF AbortItems, AbortSlots
    <2> QED BY <2>1, <2>2, <1>1, AborterMoves, NobodyMoves
<1>5. ASSUME UNCHANGED vars
      PROVE  Refined
    BY <1>1, <1>5, NobodyMoves DEF vars
<1> QED BY <1>2, <1>3, <1>4, <1>5 DEF Next

LEMMA InitRefines ==
    ASSUME QueueInv, Init
    PROVE  HandsExact /\ Ex!Init
<1>1. /\ tail_counter = 0 /\ void = {} /\ got = [c \in Consumers |-> Absent]
      /\ \A c \in Consumers : pc[c] \in {"idle", "away"}
    BY RolesApart DEF Init
<1>2. \A v : v \notin Live
    <2>1. ASSUME NEW v \in Live
          PROVE  FALSE
        <3>1. v \in Nat /\ v < tail_counter
            BY LiveFacts
        <3> QED BY <3>1, <1>1
    <2> QED BY <2>1
<1>3. \A c \in Consumers : ~ HasTicket(c)
    BY <1>1 DEF HasTicket
<1>4. Unasked = {} /\ Early = {}
    BY <1>2, <1>3, ViewsAre
<1>5. Ahead = [c \in {} |-> {}]
    BY <1>4 DEF Ahead
<1>6. InHand = [c \in Consumers |-> Absent]
    BY <1>1, <1>3 DEF InHand
<1> QED BY <1>1, <1>4, <1>5, <1>6 DEF HandsExact, Ex!Init

\* Where no two threads pop while another aborts, every state has the two sides in
\* line: each ticket of the counters is held by one push and one pop, or has passed
\* its micro queue; each micro queue has the pages from its next pop to its last push
\* with each item in its slot; the invalid entries are counted; a thread that has been
\* told to go on has room, or an item coming; and a pop has found its own item.
THEOREM Invariant ==
    ASSUME LoneAborts
    PROVE  Spec => []IInv
<1>1. Init => IInv
    BY InitKeeps, InitRefines DEF IInv
<1>2. IInv /\ [Next]_vars => IInv'
    BY StepKeeps, StepRefines DEF IInv, Refined
<1> QED BY <1>1, <1>2, PTL DEF Spec

\* The bounded queue is an exchange: items go to the pops one by one, in the order in
\* which the pushes took their tickets and to the pops in the order of theirs, whatever
\* the capacity and however the threads overtake each other; an item that threw, or whose
\* push was aborted, is nobody's, and a pop that was aborted leaves no trace.
THEOREM Refinement ==
    ASSUME LoneAborts
    PROVE  Spec => RefinesExchange
<1>1. Init => Ex!Init
    BY InitKeeps, InitRefines
<1>2. IInv /\ [Next]_vars => [Ex!Next]_(Ex!vars)
    BY StepRefines DEF IInv, Refined, Stutters, Ex!vars
<1> QED BY <1>1, <1>2, Invariant, PTL DEF Spec, RefinesExchange, Ex!Spec

-----------------------------------------------------------------------------
(* What the invariant is for. *)

\* What nobody is doing when no call is in progress.
LEMMA AtRest ==
    ASSUME QueueInv, Quiescent
    PROVE  /\ \A p \in Producers : ~ Pushing(p) /\ ~ Inside(p)
           /\ \A c \in Consumers : ~ Popping(c)
<1>1. \A t \in Threads : pc[t] \in {"idle", "away", "done"}
    BY DEF Quiescent
<1> QED BY <1>1, RolesApart DEF Pushing, Claimed, Inside, Popping, HasTicket

\* A drained queue keeps at most one page in a micro queue.
LEMMA Drained ==
    ASSUME QueueInv, Quiescent, head_counter = tail_counter, NEW q \in 0 .. NQueue - 1
    PROVE  Len(pages[q]) <= 1
<1>1. Core /\ TypedState
    BY SidesOf DEF Sides, Core
<1>2. /\ mhead[q] \in Nat /\ mtail[q] \in Nat /\ mhead[q] <= mtail[q]
      /\ mhead[q] < mtail[q] => mhead[q] + NQueue <= mtail[q]
      /\ Len(pages[q]) = PageNo(LastIn(q)) - PageNo(mhead[q]) + 1
      /\ PageNo(LastIn(q)) \in Int /\ PageNo(mhead[q]) \in Int
    BY <1>1, CountersTyped DEF Core
<1>3. ~ (mhead[q] < mtail[q])
    <2> SUFFICES ASSUME mhead[q] < mtail[q]
                 PROVE  FALSE
        OBVIOUS
    <2>1. PICK t \in 0 .. tail_counter - 1 : Queue(t) = q /\ Turn(t) + NQueue = mtail[q]
        <3>1. q \in 0 .. NQueue - 1 /\ mtail[q] # 0
            BY <1>2
        <3>2. PushesInLine
            BY <1>1 DEF Core
        <3> QED BY <3>1, <3>2, Zenon DEF PushesInLine
    <2>2. tail_counter \in Nat /\ tail_counter <= MaxTickets /\ t \in Nat
        BY <1>1, Sizes DEF TypedState
    <2>3. t \in AllTickets /\ t < head_counter
        BY <2>2, Sizes DEF AllTickets
    <2>4. mhead[Queue(t)] <= Turn(t)
        <3>1. Turn(t) \in Nat
            BY <2>2, TicketTyped
        <3> QED BY <3>1, <2>1, <1>2, Sizes
    <2>5. \E c \in Consumers : Popping(c)
        BY <2>3, <2>4, <1>1 DEF Core, PopsInLine
    <2> QED BY <2>5, AtRest
<1>4. LastIn(q) = mhead[q] - NQueue
    BY <1>2, <1>3, AtRest DEF LastIn
<1>5. PageNo(mhead[q] - NQueue) <= PageNo(mhead[q])
    <2>1. mhead[q] - NQueue \in Int /\ mhead[q] \in Int /\ mhead[q] - NQueue <= mhead[q]
        BY <1>2, Sizes
    <2> QED BY <2>1, PageNoTyped
<1> QED BY <1>2, <1>4, <1>5

LEMMA AssertionsFollow ==
    ASSUME QueueInv
    PROVE  SourceAssertions
<1>1. Core /\ TypedState /\ DOMAIN pages = 0 .. NQueue - 1
    BY SidesOf DEF Sides, Core, TypedState
<1>2. \A c \in Consumers : pc[c] = "turn" => tail_counter - k[c] > 0
    BY PopperFacts
<1>3. Unaborted => \A p \in Producers : pc[p] = "turn" => k[p] - head_counter < Capacity
    BY PusherFacts, Sizes
<1>4. ASSUME NEW c \in Consumers, pc[c] = "turn", MyTurn(c)
      PROVE  pages[Queue(k[c])] # <<>>
    <2>1. k[c] \in Nat /\ k[c] \in Tickets
        BY <1>4, PopperFacts, Sizes DEF Tickets
    <2>2. mhead[Queue(k[c])] = Turn(k[c]) /\ mtail[Queue(k[c])] > Turn(k[c])
        <3>1. mtail[Queue(k[c])] \in Nat /\ Turn(k[c]) \in Nat
              /\ mhead[Queue(k[c])] <= mtail[Queue(k[c])]
            BY <2>1, <1>1, TicketFacts
        <3> QED BY <3>1, <1>4 DEF MyTurn
    <2>3. 1 \in 1 .. Len(pages[Queue(k[c])])
        BY <2>1, <2>2, <1>1, FoundIs
    <2> QED BY <2>3
<1>5. ASSUME NEW p \in Producers, pc[p] = "store"
      PROVE  /\ pages[Queue(k[p])] # <<>>
             /\ Last(pages[Queue(k[p])])[Slot(k[p])] = Absent
    <2>1. Inside(p)
        BY <1>5, InsidePushes
    <2>2. /\ Len(pages[Queue(k[p])]) \in 1 .. Len(pages[Queue(k[p])])
          /\ pages[Queue(k[p])][Len(pages[Queue(k[p])])][Slot(k[p])] = Absent
        BY <2>1, <1>1, <1>5, EntersPage
    <2> QED BY <2>2 DEF Last
<1>6. Quiescent /\ head_counter = tail_counter => \A q \in DOMAIN pages : Len(pages[q]) <= 1
    BY <1>1, Drained
<1> QED BY <1>2, <1>3, <1>4, <1>5, <1>6 DEF SourceAssertions

LEMMA CapacityFollows ==
    ASSUME QueueInv
    PROVE  CapacityKept
<1> SUFFICES ASSUME Unaborted
             PROVE  Cardinality({t \in Stored : t >= head_counter}) <= Capacity
    BY DEF CapacityKept
<1> DEFINE S == {t \in Stored : t >= head_counter}
<1>1. head_counter \in Nat /\ Capacity \in Nat /\ \A t \in Stored : t \in Nat
    BY SidesOf, Sizes DEF Sides, Core, TypedState, Stored
<1>2. \A t \in Stored : t < head_counter + Capacity
    BY DEF QueueInv, RoomSeen
<1>3. S \subseteq head_counter .. head_counter + Capacity - 1
    BY <1>1, <1>2
<1>4. /\ IsFiniteSet(head_counter .. head_counter + Capacity - 1)
      /\ Cardinality(head_counter .. head_counter + Capacity - 1) = Capacity
    <2>1. head_counter \in Int /\ head_counter + Capacity - 1 \in Int
        BY <1>1
    <2>2. /\ IsFiniteSet(head_counter .. head_counter + Capacity - 1)
          /\ Cardinality(head_counter .. head_counter + Capacity - 1)
                = IF head_counter > head_counter + Capacity - 1 THEN 0
                  ELSE (head_counter + Capacity - 1) - head_counter + 1
        BY <2>1, FS_Interval
    <2> QED BY <2>2, <1>1
<1> HIDE DEF S
<1>5. Cardinality(S) <= Capacity
    BY <1>3, <1>4, FS_Subset
<1> QED BY <1>5 DEF S

LEMMA SizeFollows ==
    ASSUME QueueInv
    PROVE  SizeExact
<1> SUFFICES ASSUME Quiescent
             PROVE  tail_counter - head_counter - n_invalid_entries
                       = Cardinality({t \in Stored : t >= head_counter})
    BY DEF SizeExact
<1> DEFINE S == {t \in Stored : t >= head_counter}
           Between == head_counter .. tail_counter - 1
<1>1. Core /\ TypedState /\ InvalidCounted /\ head_counter \in AllTickets
    BY SidesOf DEF Sides, Core
<1>2. /\ head_counter \in Nat /\ tail_counter \in Nat /\ tail_counter <= MaxTickets
      /\ tail_counter \in AllTickets
      /\ \A t \in Stored : t \in Nat /\ t \in AllTickets
    BY <1>1, Sizes DEF TypedState, AllTickets, Stored
<1>3. \A p \in Producers : ~ Pushing(p) /\ pc[p] \notin {"publish", "skip"}
    BY AtRest, InsidePushes
<1>4. \A c \in Consumers : ~ Popping(c) /\ pc[c] # "finish"
    BY AtRest, InsidePushes
\* A ticket below a counter has passed the micro queue's counter, and no other.
<1>5. \A t \in AllTickets : /\ mtail[Queue(t)] > Turn(t) <=> t < tail_counter
                            /\ mhead[Queue(t)] <= Turn(t) <=> t >= head_counter
    <2> SUFFICES ASSUME NEW t \in AllTickets
                 PROVE  /\ mtail[Queue(t)] > Turn(t) <=> t < tail_counter
                        /\ mhead[Queue(t)] <= Turn(t) <=> t >= head_counter
        OBVIOUS
    <2>1. t \in Nat
        BY Sizes
    <2>2. mtail[Queue(t)] \in Nat /\ mhead[Queue(t)] \in Nat /\ Turn(t) \in Nat
        BY <2>1, <1>1, TicketFacts
    <2>3. /\ t >= tail_counter => mtail[Queue(t)] <= Turn(t)
          /\ t < tail_counter => ~ (mtail[Queue(t)] <= Turn(t))
        BY <1>1, <1>3 DEF Core, PushesInLine
    <2>4. /\ t >= head_counter => mhead[Queue(t)] <= Turn(t)
          /\ t < head_counter => ~ (mhead[Queue(t)] <= Turn(t))
        BY <1>1, <1>4 DEF Core, PopsInLine
    <2> QED BY <2>1, <2>2, <2>3, <2>4, <1>2
<1>6. head_counter <= tail_counter
    <2>1. tail_counter \in Nat /\ mhead[Queue(tail_counter)] <= mtail[Queue(tail_counter)]
          /\ mtail[Queue(tail_counter)] \in Nat /\ mhead[Queue(tail_counter)] \in Nat
          /\ Turn(tail_counter) \in Nat
        BY <1>1, <1>2, TicketFacts
    <2>2. ~ (mtail[Queue(tail_counter)] > Turn(tail_counter))
        BY <1>2, <1>5
    <2>3. mhead[Queue(tail_counter)] <= Turn(tail_counter)
        BY <2>1, <2>2
    <2> QED BY <2>3, <1>2, <1>5
<1>7. \A t \in Stored : t < tail_counter
    BY <1>1, <1>2, <1>3, <1>5 DEF Core, StoredPushed
<1>8. \A t \in 0 .. tail_counter - 1 : t \in Invalid <=> t >= head_counter /\ t \notin Stored
    <2> SUFFICES ASSUME NEW t \in 0 .. tail_counter - 1
                 PROVE  t \in Invalid <=> t >= head_counter /\ t \notin Stored
        OBVIOUS
    <2>1. t \in AllTickets /\ t < tail_counter
        BY <1>2, Sizes DEF AllTickets
    <2>2. Passed(t) /\ (Unpopped(t) <=> t >= head_counter)
        BY <2>1, <1>4, <1>5 DEF Passed, Unpopped
    <2> QED BY <2>2 DEF Invalid
<1>9. Between = Invalid \cup S /\ Invalid \cap S = {}
    <2>1. Invalid \subseteq 0 .. tail_counter - 1
        BY DEF Invalid
    <2>2. \A t \in Between : t \in 0 .. tail_counter - 1 /\ t >= head_counter
        BY <1>2
    <2>3. \A t \in S : t \in Between /\ t \in 0 .. tail_counter - 1
        BY <1>2, <1>7
    <2>4. \A t \in Invalid : t \in Between /\ t \notin Stored
        BY <2>1, <1>2, <1>8
    <2> QED BY <2>2, <2>3, <2>4, <1>8
<1>10. IsFiniteSet(Between) /\ Cardinality(Between) = tail_counter - head_counter
    <2>1. head_counter \in Int /\ tail_counter - 1 \in Int
        BY <1>2
    <2>2. /\ IsFiniteSet(Between)
          /\ Cardinality(Between) = IF head_counter > tail_counter - 1 THEN 0
                                    ELSE (tail_counter - 1) - head_counter + 1
        BY <2>1, FS_Interval
    <2> QED BY <2>2, <1>2, <1>6
<1> HIDE DEF S, Between
<1>11. /\ IsFiniteSet(Invalid) /\ IsFiniteSet(S)
       /\ Cardinality(Invalid) \in Nat /\ Cardinality(S) \in Nat
    BY <1>9, <1>10, FS_Subset, FS_CardinalityType
<1>12. Cardinality(Between) = Cardinality(Invalid) + Cardinality(S)
    <2>1. Cardinality(Invalid \cup S)
             = Cardinality(Invalid) + Cardinality(S) - Cardinality(Invalid \cap S)
        BY <1>11, FS_Union
    <2>2. Cardinality(Invalid \cap S) = 0
        BY <1>9, FS_EmptySet
    <2>3. Cardinality(Between) = Cardinality(Invalid \cup S)
        BY <1>9
    <2> QED BY <2>1, <2>2, <2>3, <1>11
<1>13. n_invalid_entries = Cardinality(Invalid)
    BY <1>1 DEF InvalidCounted
<1> QED BY <1>2, <1>10, <1>11, <1>12, <1>13 DEF S

\* The assertions of internal_push, internal_pop, micro_queue::pop and
\* internal_finish_clear never fire: room for the push and an item for the pop that go
\* on, a page where one is read or written, at most one page left when drained.
THEOREM SourceAssertionsInvariant ==
    ASSUME LoneAborts
    PROVE  Spec => []SourceAssertions
BY Invariant, AssertionsFollow, PTL DEF IInv

\* The items that no pop has asked for are never more than the capacity, for any number
\* of producers and consumers that overtake each other, until a pop is aborted.
THEOREM CapacityInvariant ==
    ASSUME LoneAborts
    PROVE  Spec => []CapacityKept
BY Invariant, CapacityFollows, PTL DEF IInv

\* When no call is in progress, size() is the number of items that are left, also after
\* items that threw, pushes that were aborted and tickets that were given back.
THEOREM SizeInvariant ==
    ASSUME LoneAborts
    PROVE  Spec => []SizeExact
BY Invariant, SizeFollows, PTL DEF IInv

=============================================================================
