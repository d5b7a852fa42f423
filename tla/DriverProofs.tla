----------------------------- MODULE DriverProofs -----------------------------
(***************************************************************************)
(* Proofs about Driver, for any set of pages, pool limit, chunk size and   *)
(* bounds on the HCA's requests.                                           *)
(*                                                                         *)
(* The inductive invariant ties everything to where main is: the HCA's     *)
(* state and objects, whether the handler exists, and which command may be *)
(* in progress. Of a thread that gives or takes pages it says how many it  *)
(* has in its hands.                                                       *)
(***************************************************************************)
EXTENDS Driver, FiniteSetTheorems, TLAPS

(* Main before, during and after the handler's life. *)
Early == {"enable", "query_issi", "set_issi", "query_boot", "give_boot",
          "query_cap", "set_cap", "query_init", "give_init", "init",
          "set_driver", "alloc_uar", "create_eq", "query_eq", "spawn"}
During == {"spawned", "arm", "query_armed", "alloc_dbr", "alloc_pd",
           "dealloc_pd", "serve", "stop", "join"}
Late == {"destroy_eq", "dealloc_uar", "teardown", "reclaim", "free", "disable",
         "done"}

(* The state of the HCA and its objects when main is at a label. *)
HcaAt(l) ==
  IF l \in {"enable", "done"} THEN "off"
  ELSE IF l \in {"reclaim", "free", "disable"} THEN "closed"
  ELSE IF l \in {"query_issi", "set_issi", "query_boot", "give_boot", "query_cap",
                 "set_cap", "query_init", "give_init", "init"} THEN "enabled"
  ELSE "ready"

ObjectsAt(l) ==
  IF l \in {"create_eq", "dealloc_uar"} THEN {"uar"}
  ELSE IF l = "dealloc_pd" THEN {"uar", "eq", "pd"}
  ELSE IF l \in {"query_eq", "spawn", "destroy_eq"} \cup During THEN {"uar", "eq"}
  ELSE {}

Position ==
  /\ pc \in [Thread -> MainLabels \cup HandlerLabels]
  /\ pc["main"] \in MainLabels /\ pc["handler"] \in HandlerLabels
  /\ pc["main"] \in Early <=> pc["handler"] = "unborn"
  /\ pc["main"] \in Late => pc["handler"] = "exited"
  /\ pc["handler"] = "exited" => pc["main"] \in Late \cup {"join"}
  /\ active <=> pc["main"] \in During \ {"join"}
  /\ hca = HcaAt(pc["main"]) /\ objects = ObjectsAt(pc["main"])
  /\ pc["main"] \in {"disable", "done"} => hca_pages = {}

(* A thread waits for a command only where it issues that one. *)
InCommand ==
  /\ command["main"] # "none" =>
       \/ \E s \in Script : pc["main"] = s[1] /\ command["main"] = s[2]
       \/ pc["main"] \in QueryLabels /\ command["main"] = "QUERY_PAGES"
       \/ pc["main"] \in GiveLabels /\ command["main"] = "GIVE_PAGES"
       \/ pc["main"] = "reclaim" /\ command["main"] = "TAKE_PAGES"
  /\ command["handler"] # "none" =>
       \/ pc["handler"] = "give" /\ command["handler"] = "GIVE_PAGES"
       \/ pc["handler"] = "take" /\ command["handler"] = "TAKE_PAGES"

(* What a thread has in its hands while it gives pages, frees pages or makes
   room for a doorbell record; otherwise it has nothing. *)
HandsOf(t) ==
  /\ fresh[t] = {} \/ \E p \in Page : fresh[t] = {p}
  /\ fresh[t] # {} => /\ command[t] = "none"
                      /\ pc[t] \in GiveLabels \cup {"alloc_dbr"}
  /\ batch[t] # {} => pc[t] \in GiveLabels \cup {"free"}
  /\ pc[t] \in GiveLabels => Cardinality(batch[t] \cup fresh[t]) <= NextChunk(t)
  /\ command[t] = "GIVE_PAGES" => Cardinality(batch[t]) = NextChunk(t)

Hands == \A t \in Thread : HandsOf(t)

Inv ==
  /\ TypeOK /\ Position /\ InCommand /\ Hands /\ PagesAccounted /\ FaultsConfined
  /\ IsFiniteSet(held)

-----------------------------------------------------------------------------
(* Main's three phases, and the commands of its script. *)
LEMMA Phases ==
  /\ Early \cap During = {} /\ Early \cap Late = {} /\ During \cap Late = {}
  /\ MainLabels = Early \cup During \cup Late
  /\ \A s \in Script :
       s[1] \notin {"spawn", "spawned", "arm", "alloc_dbr", "serve", "stop", "join",
                   "free", "done", "reclaim"} \cup QueryLabels \cup GiveLabels
<1> DEFINE First == {"enable", "init", "query_issi", "set_issi", "query_cap",
                     "set_cap", "set_driver", "alloc_uar", "dealloc_uar",
                     "create_eq", "query_eq", "query_armed", "destroy_eq",
                     "alloc_pd", "dealloc_pd", "teardown", "disable"}
<1>1. ASSUME NEW s \in Script
      PROVE  s[1] \in First
  BY DEF Script, InitScript, IssiScript, CapScript, VersionScript, UarScript,
         EqScript, PdScript, TeardownScript
<1>2. ASSUME NEW l \in First
      PROVE  \E s \in Script : l = s[1]
  <2>1. /\ \A r \in InitScript \cup IssiScript \cup CapScript \cup VersionScript :
             r \in Script
        /\ \A r \in UarScript \cup EqScript \cup PdScript \cup TeardownScript :
             r \in Script
    BY DEF Script
  <2>2. /\ <<"enable", "ENABLE_HCA", "query_issi">> \in Script
        /\ <<"init", "INIT_HCA", "set_driver">> \in Script
        /\ <<"query_issi", "QUERY_ISSI", "set_issi">> \in Script
        /\ <<"set_issi", "SET_ISSI", "query_boot">> \in Script
        /\ <<"query_cap", "QUERY_HCA_CAP", "set_cap">> \in Script
        /\ <<"set_cap", "SET_HCA_CAP", "query_init">> \in Script
        /\ <<"set_driver", "SET_DRIVER_VERSION", "alloc_uar">> \in Script
    BY <2>1 DEF InitScript, IssiScript, CapScript, VersionScript
  <2>3. /\ <<"alloc_uar", "ALLOC_UAR", "create_eq">> \in Script
        /\ <<"dealloc_uar", "DEALLOC_UAR", "teardown">> \in Script
        /\ <<"create_eq", "CREATE_EQ", "query_eq">> \in Script
        /\ <<"query_eq", "QUERY_EQ", "spawn">> \in Script
        /\ <<"query_armed", "QUERY_EQ", "alloc_dbr">> \in Script
        /\ <<"destroy_eq", "DESTROY_EQ", "dealloc_uar">> \in Script
        /\ <<"alloc_pd", "ALLOC_PD", "dealloc_pd">> \in Script
        /\ <<"dealloc_pd", "DEALLOC_PD", "serve">> \in Script
        /\ <<"teardown", "TEARDOWN_HCA", "reclaim">> \in Script
        /\ <<"disable", "DISABLE_HCA", "done">> \in Script
    BY <2>1 DEF UarScript, EqScript, PdScript, TeardownScript
  <2> QED
    BY <2>2, <2>3
<1>3. {s[1] : s \in Script} = First
  BY <1>1, <1>2
<1>4. Early \cap During = {} /\ Early \cap Late = {} /\ During \cap Late = {}
  BY DEF Early, During, Late
<1> QED
  BY <1>1, <1>3, <1>4 DEF MainLabels, QueryLabels, GiveLabels, Early, During, Late

(* A row of the script stays in its phase; it is not where pages are handled. *)
LEMMA Row ==
  ASSUME NEW s \in Script
  PROVE  /\ s[2] \in Command /\ s[2] # "none" /\ s[3] \in MainLabels
         /\ s[2] \notin {"QUERY_PAGES", "GIVE_PAGES", "TAKE_PAGES"}
         /\ \/ s[1] \in Early /\ s[3] \in Early
            \/ s[1] \in During \ {"join"} /\ s[3] \in During \ {"join"}
            \/ s[1] \in Late /\ s[3] \in Late
         /\ s[1] \in During => s[2] \in {"QUERY_EQ", "ALLOC_PD", "DEALLOC_PD"}
         /\ s[3] \notin GiveLabels \cup {"free", "disable"}
         /\ s[3] = "done" => s[1] = "disable"
<1>1. s[2] \in Command
  BY DEF Command
<1>2. CASE s \in InitScript \cup IssiScript \cup CapScript \cup VersionScript
  BY <1>1, <1>2, Phases
  DEF InitScript, IssiScript, CapScript, VersionScript, Early, During, Late,
      QueryLabels, GiveLabels
<1>3. CASE s \in UarScript \cup EqScript \cup PdScript \cup TeardownScript
  BY <1>1, <1>3, Phases
  DEF UarScript, EqScript, PdScript, TeardownScript, Early, During, Late,
      QueryLabels, GiveLabels
<1> QED
  BY <1>2, <1>3 DEF Script

(* The two tables of the HCA, read at one command. *)
LEMMA Accepted ==
  /\ Accepts("ENABLE_HCA") <=> hca = "off"
  /\ \A o \in {"QUERY_ISSI", "SET_ISSI", "QUERY_PAGES", "QUERY_HCA_CAP",
               "SET_HCA_CAP", "INIT_HCA"} : Accepts(o) <=> hca = "enabled"
  /\ \A o \in {"SET_DRIVER_VERSION", "ALLOC_UAR", "ALLOC_PD"} :
       Accepts(o) <=> hca = "ready"
  /\ Accepts("CREATE_EQ") <=> hca = "ready" /\ "uar" \in objects
  /\ \A o \in {"QUERY_EQ", "DESTROY_EQ"} :
       Accepts(o) <=> hca = "ready" /\ "eq" \in objects
  /\ Accepts("DEALLOC_PD") <=> hca = "ready" /\ "pd" \in objects
  /\ Accepts("DEALLOC_UAR") <=> hca = "ready" /\ objects = {"uar"}
  /\ Accepts("GIVE_PAGES") <=> hca \in {"enabled", "ready"}
  /\ Accepts("TAKE_PAGES") <=> hca \in {"ready", "closed"}
  /\ Accepts("TEARDOWN_HCA") <=> hca = "ready" /\ objects = {}
  /\ Accepts("DISABLE_HCA") <=> hca = "closed" /\ hca_pages = {}
BY DEF Accepts

LEMMA Effects ==
  ASSUME NEW o, Effect(o)
  PROVE  /\ o = "ENABLE_HCA" => hca' = "enabled"
         /\ o = "INIT_HCA" => hca' = "ready"
         /\ o = "TEARDOWN_HCA" => hca' = "closed"
         /\ o = "DISABLE_HCA" => hca' = "off"
         /\ o \notin {"ENABLE_HCA", "INIT_HCA", "TEARDOWN_HCA", "DISABLE_HCA"} =>
              hca' = hca
         /\ o = "ALLOC_UAR" => objects' = objects \cup {"uar"}
         /\ o = "CREATE_EQ" => objects' = objects \cup {"eq"}
         /\ o = "ALLOC_PD" => objects' = objects \cup {"pd"}
         /\ o = "DEALLOC_UAR" => objects' = objects \ {"uar"}
         /\ o = "DESTROY_EQ" => objects' = objects \ {"eq"}
         /\ o = "DEALLOC_PD" => objects' = objects \ {"pd"}
         /\ o \notin {"ALLOC_UAR", "CREATE_EQ", "ALLOC_PD", "DEALLOC_UAR",
                      "DESTROY_EQ", "DEALLOC_PD"} => objects' = objects
         /\ hca_pages' = hca_pages
<1>1. o = "ENABLE_HCA" => hca' = "enabled"
  BY DEF Effect
<1>2. o = "INIT_HCA" => hca' = "ready"
  BY DEF Effect
<1>3. o = "TEARDOWN_HCA" => hca' = "closed"
  BY DEF Effect
<1>4. o = "DISABLE_HCA" => hca' = "off"
  BY DEF Effect
<1>5. o \notin {"ENABLE_HCA", "INIT_HCA", "TEARDOWN_HCA", "DISABLE_HCA"} =>
        hca' = hca
  BY DEF Effect
<1>6. /\ o = "ALLOC_UAR" => objects' = objects \cup {"uar"}
      /\ o = "CREATE_EQ" => objects' = objects \cup {"eq"}
      /\ o = "ALLOC_PD" => objects' = objects \cup {"pd"}
  BY DEF Effect
<1>7. /\ o = "DEALLOC_UAR" => objects' = objects \ {"uar"}
      /\ o = "DESTROY_EQ" => objects' = objects \ {"eq"}
      /\ o = "DEALLOC_PD" => objects' = objects \ {"pd"}
  BY DEF Effect
<1>8. o \notin {"ALLOC_UAR", "CREATE_EQ", "ALLOC_PD", "DEALLOC_UAR",
                "DESTROY_EQ", "DEALLOC_PD"} => objects' = objects
  BY DEF Effect
<1>9. hca_pages' = hca_pages
  BY DEF Effect
<1> QED
  BY <1>1, <1>2, <1>3, <1>4, <1>5, <1>6, <1>7, <1>8, <1>9

(* The HCA accepts the row's command, which takes it from the state of the one
   label to the state of the other. *)
LEMMA RowEffect ==
  ASSUME NEW s \in Script, hca = HcaAt(s[1]), objects = ObjectsAt(s[1]),
         s[1] = "disable" => hca_pages = {}
  PROVE  /\ Accepts(s[2])
         /\ Effect(s[2]) => hca' = HcaAt(s[3]) /\ objects' = ObjectsAt(s[3])
<1> USE Accepted, Effects DEF HcaAt, ObjectsAt, During
<1>1. CASE s \in InitScript
  BY <1>1 DEF InitScript
<1>2. CASE s \in IssiScript
  BY <1>2 DEF IssiScript
<1>3. CASE s \in CapScript
  BY <1>3 DEF CapScript
<1>4. CASE s \in VersionScript
  BY <1>4 DEF VersionScript
<1>5. CASE s \in UarScript
  BY <1>5 DEF UarScript
<1>6. CASE s \in EqScript
  BY <1>6 DEF EqScript
<1>7. CASE s \in PdScript
  BY <1>7 DEF PdScript
<1>8. CASE s \in TeardownScript
  BY <1>8 DEF TeardownScript
<1> QED
  BY <1>1, <1>2, <1>3, <1>4, <1>5, <1>6, <1>7, <1>8 DEF Script

-----------------------------------------------------------------------------
(* What the invariant says of main and the handler, in the form the proofs
   use: main is in one of its phases, the handler lives during the second, and
   a thread between two commands waits for none. *)
LEMMA Lives ==
  ASSUME TypeOK, Position
  PROVE  /\ pc["main"] \in Early \cup During \cup Late
         /\ pc["main"] \in Early => pc["handler"] = "unborn"
         /\ pc["main"] \in Late => pc["handler"] = "exited"
         /\ pc["handler"] \notin {"unborn", "exited"} => pc["main"] \in During
         /\ pc["main"] \in During \ {"join"} =>
              pc["handler"] \notin {"unborn", "exited"}
BY Phases DEF TypeOK, Position

LEMMA MainWaits ==
  ASSUME TypeOK, Position, InCommand, command["main"] # "none"
  PROVE  /\ pc["main"] \notin {"spawn", "spawned", "arm", "alloc_dbr", "serve",
                               "stop", "join", "free", "done"}
         /\ command["main"] = "QUERY_PAGES" => pc["main"] \in QueryLabels
         /\ command["main"] = "GIVE_PAGES" => pc["main"] \in {"give_boot", "give_init"}
         /\ command["main"] = "TAKE_PAGES" => pc["main"] = "reclaim"
         /\ pc["main"] \in During =>
              command["main"] \in {"QUERY_EQ", "ALLOC_PD", "DEALLOC_PD"}
<1>1. pc["main"] # "give"
  BY Lives DEF Early, During, Late
<1>2. ASSUME NEW s \in Script
      PROVE  s[1] \notin {"spawn", "spawned", "arm", "alloc_dbr", "serve", "stop",
                          "join", "free", "done"}
  BY Phases
<1> QED
  BY <1>1, <1>2, Row DEF InCommand, QueryLabels, GiveLabels, During

LEMMA HandlerWaits ==
  ASSUME TypeOK, Position, InCommand, command["handler"] # "none"
  PROVE  /\ pc["main"] \in During
         /\ \/ pc["handler"] = "give" /\ command["handler"] = "GIVE_PAGES"
            \/ pc["handler"] = "take" /\ command["handler"] = "TAKE_PAGES"
BY Lives DEF InCommand

(* Goto changes the label of one thread. *)
LEMMA GotoStep ==
  ASSUME Position, NEW t \in Thread, NEW l, Goto(t, l)
  PROVE  /\ pc'[t] = l /\ pc'[Other(t)] = pc[Other(t)]
         /\ l \in MainLabels \cup HandlerLabels =>
              pc' \in [Thread -> MainLabels \cup HandlerLabels]
         /\ t = "main" => pc'["main"] = l /\ pc'["handler"] = pc["handler"]
         /\ t = "handler" => pc'["handler"] = l /\ pc'["main"] = pc["main"]
BY DEF Position, Goto, Other, Thread

LEMMA MainMoves ==
  ASSUME TypeOK, Position, NEW l \in MainLabels, Goto("main", l),
         hca' = HcaAt(l), objects' = ObjectsAt(l), active' = active,
         \/ pc["main"] \in Early /\ l \in Early
         \/ pc["main"] \in During \ {"join"} /\ l \in During \ {"join"}
         \/ pc["main"] \in Late /\ l \in Late,
         l \in {"disable", "done"} => hca_pages' = {}
  PROVE  Position'
<1>1. /\ pc'["main"] = l /\ pc'["handler"] = pc["handler"]
      /\ pc' \in [Thread -> MainLabels \cup HandlerLabels]
  BY GotoStep DEF Thread
<1>2. Early \cap During = {} /\ Early \cap Late = {} /\ During \cap Late = {}
  BY Phases
<1> QED
  BY <1>1, <1>2 DEF Position

LEMMA HandlerMoves ==
  ASSUME TypeOK, Position, NEW l \in HandlerLabels \ {"unborn"},
         Goto("handler", l), pc["handler"] \notin {"unborn", "exited"},
         l = "exited" => ~active, UNCHANGED <<hca, objects, active>>
  PROVE  Position'
<1>1. /\ pc'["handler"] = l /\ pc'["main"] = pc["main"]
      /\ pc' \in [Thread -> MainLabels \cup HandlerLabels]
  BY GotoStep DEF Thread
<1>2. pc["main"] \in During
  BY Lives
<1>3. pc["main"] \notin Early \cup Late \cup {"disable", "done"}
  BY <1>2, Phases DEF Late
<1> QED
  BY <1>1, <1>2, <1>3 DEF Position

(* Steps of main from one label to another. *)
LEMMA MainPosition ==
  ASSUME Inv,
         \/ MainReturns \/ SkipDriverVersion \/ QueryPagesReturns
         \/ SpawnHandler \/ CreateThreadReturns \/ ArmEq \/ SetDbr \/ Kill
         \/ Deactivate \/ Join \/ ProvideReturns("main")
         \/ TakePagesReturns("main") \/ ReclaimReturns("main")
  PROVE  Position'
<1> USE DEF Inv
<1>1. CASE MainReturns
  <2>1. PICK s \in Script : /\ pc["main"] = s[1] /\ Effect(s[2]) /\ Goto("main", s[3])
                            /\ active' = active
    BY <1>1 DEF MainReturns, At, handler_vars
  <2>2. hca' = HcaAt(s[3]) /\ objects' = ObjectsAt(s[3]) /\ hca_pages' = hca_pages
    BY <2>1, RowEffect, Effects DEF Position
  <2> QED
    BY <2>1, <2>2, Row, MainMoves DEF Position
<1>2. CASE SkipDriverVersion
  BY <1>2, MainMoves, Phases
  DEF SkipDriverVersion, Moves, At, device, handler_vars, Position, HcaAt,
      ObjectsAt, Early, During
<1>3. CASE QueryPagesReturns
  <2>1. command["main"] = "QUERY_PAGES"
    BY <1>3 DEF QueryPagesReturns, Returns
  <2>2. pc["main"] \in QueryLabels
    BY <2>1, MainWaits
  <2>3. CASE pc["main"] = "query_boot"
    BY <1>3, <2>3, MainMoves, Phases
    DEF QueryPagesReturns, device, handler_vars, Position, HcaAt, ObjectsAt,
        Early, During
  <2>4. CASE pc["main"] = "query_init"
    BY <1>3, <2>4, MainMoves, Phases
    DEF QueryPagesReturns, device, handler_vars, Position, HcaAt, ObjectsAt,
        Early, During
  <2> QED
    BY <2>2, <2>3, <2>4 DEF QueryLabels
<1>4. CASE SpawnHandler
  <2>1. /\ pc["main"] = "spawn" /\ pc'["main"] = "spawned" /\ pc'["handler"] = "start"
        /\ pc' \in [Thread -> MainLabels \cup HandlerLabels]
        /\ active' = TRUE /\ UNCHANGED <<hca, objects>>
    BY <1>4, Phases
    DEF SpawnHandler, At, Thread, Position, device, During, HandlerLabels
  <2> QED
    BY <2>1, Phases DEF Position, HcaAt, ObjectsAt, During, Late, HandlerLabels
<1>5. CASE CreateThreadReturns
  BY <1>5, MainMoves, Phases
  DEF CreateThreadReturns, Moves, At, device, handler_vars, Position, HcaAt,
      ObjectsAt, During
<1>6. CASE ArmEq
  BY <1>6, MainMoves, Phases
  DEF ArmEq, Moves, At, device, handler_vars, Position, HcaAt, ObjectsAt, During
<1>7. CASE SetDbr
  BY <1>7, MainMoves, Phases
  DEF SetDbr, device, handler_vars, Position, HcaAt, ObjectsAt, During
<1>8. CASE Kill
  BY <1>8, MainMoves, Phases
  DEF Kill, Moves, At, device, handler_vars, Position, HcaAt, ObjectsAt, During
<1>9. CASE Deactivate
  <2>1. /\ pc["main"] = "stop" /\ pc'["main"] = "join"
        /\ pc'["handler"] = pc["handler"]
        /\ pc' \in [Thread -> MainLabels \cup HandlerLabels]
        /\ active' = FALSE /\ UNCHANGED <<hca, objects>>
    BY <1>9, GotoStep, Phases
    DEF Deactivate, At, Thread, device, During
  <2> QED
    BY <2>1, Phases DEF Position, HcaAt, ObjectsAt, During, Late, HandlerLabels
<1>10. CASE Join
  <2>1. /\ pc["main"] = "join" /\ pc'["main"] = "destroy_eq"
        /\ pc["handler"] = "exited" /\ pc'["handler"] = pc["handler"]
        /\ pc' \in [Thread -> MainLabels \cup HandlerLabels]
        /\ UNCHANGED <<hca, objects, active>>
    BY <1>10, GotoStep, Phases
    DEF Join, Joined, Moves, At, Thread, device, handler_vars, Late
  <2> QED
    BY <2>1, Phases DEF Position, HcaAt, ObjectsAt, During, Late, HandlerLabels
<1>11. CASE ProvideReturns("main")
  <2>1. pc["main"] \in {"give_boot", "give_init"}
    BY <1>11, Lives DEF ProvideReturns, Giving, GiveLabels, Early, During, Late
  <2>2. CASE pc["main"] = "give_boot"
    <3>1. Goto("main", "query_cap") /\ UNCHANGED <<device, handler_vars>>
      BY <1>11, <2>2 DEF ProvideReturns, Moves
    <3> QED
      BY <2>2, <3>1, MainMoves, Phases
      DEF device, handler_vars, Position, HcaAt, ObjectsAt, Early, During
  <2>3. CASE pc["main"] = "give_init"
    <3>1. Goto("main", "init") /\ UNCHANGED <<device, handler_vars>>
      BY <1>11, <2>3 DEF ProvideReturns, Moves
    <3> QED
      BY <2>3, <3>1, MainMoves, Phases
      DEF device, handler_vars, Position, HcaAt, ObjectsAt, Early, During
  <2> QED
    BY <2>1, <2>2, <2>3
<1>12. CASE TakePagesReturns("main")
  <2>1. pc["main"] = "reclaim"
    BY <1>12, MainWaits DEF TakePagesReturns, Returns
  <2>2. PICK back \in SUBSET hca_pages :
          /\ GivesBack(back, Chunk) /\ hca_pages' = hca_pages \ back
          /\ Goto("main", IF back = {} THEN "disable" ELSE "free")
    BY <1>12 DEF TakePagesReturns, Wanted, AfterTake
  <2>3. back = {} => hca_pages = {}
    BY <2>1, <2>2, FS_EmptySet, DriverAssumption DEF Position, HcaAt, GivesBack
  <2> QED
    BY <1>12, <2>1, <2>2, <2>3, MainMoves, Phases
    DEF TakePagesReturns, handler_vars, Position, HcaAt, ObjectsAt, During, Late
<1>13. CASE ReclaimReturns("main")
  BY <1>13, MainMoves, Phases
  DEF ReclaimReturns, At, device, handler_vars, Position, HcaAt, ObjectsAt,
      During, Late
<1> QED
  BY <1>1, <1>2, <1>3, <1>4, <1>5, <1>6, <1>7, <1>8, <1>9, <1>10, <1>11, <1>12,
     <1>13

(* Steps of the handler from one label to another. *)
LEMMA HandlerPosition ==
  ASSUME Inv,
         \/ HandlerStarts \/ HandlerChecks \/ NoEvent \/ PageEvent
         \/ ProvideReturns("handler") \/ TakePagesReturns("handler")
         \/ ReclaimReturns("handler")
  PROVE  Position'
<1> USE DEF Inv
<1>1. CASE HandlerStarts
  BY <1>1, HandlerMoves
  DEF HandlerStarts, At, device, handler_vars, HandlerLabels
<1>2. CASE HandlerChecks \/ NoEvent
  BY <1>2, HandlerMoves
  DEF HandlerChecks, NoEvent, Moves, At, Loops, device, handler_vars, HandlerLabels
<1>3. CASE PageEvent
  BY <1>3, HandlerMoves DEF PageEvent, At, device, HandlerLabels
<1>4. CASE ProvideReturns("handler")
  <2>1. pc["handler"] = "give"
    BY <1>4 DEF ProvideReturns, Giving, GiveLabels, TypeOK, HandlerLabels
  <2>2. Goto("handler", "check") /\ UNCHANGED <<device, handler_vars>>
    BY <1>4, <2>1 DEF ProvideReturns, Moves
  <2> QED
    BY <2>1, <2>2, HandlerMoves DEF device, handler_vars, HandlerLabels
<1>5. CASE TakePagesReturns("handler")
  <2>1. pc["handler"] = "take"
    BY <1>5, HandlerWaits DEF TakePagesReturns, Returns
  <2> QED
    BY <1>5, <2>1, HandlerMoves
    DEF TakePagesReturns, AfterTake, handler_vars, HandlerLabels
<1>6. CASE ReclaimReturns("handler")
  BY <1>6, HandlerMoves
  DEF ReclaimReturns, At, device, handler_vars, HandlerLabels
<1> QED
  BY <1>1, <1>2, <1>3, <1>4, <1>5, <1>6

(* The other steps leave both threads at their labels. *)
LEMMA StayPosition ==
  ASSUME Inv, UNCHANGED <<pc, hca, objects, active>>,
         hca_pages' = hca_pages \/ \E t \in Thread : command[t] = "GIVE_PAGES"
  PROVE  Position'
<1>1. ASSUME pc["main"] \in {"disable", "done"}
      PROVE  hca_pages' = {}
  <2>1. command["handler"] = "none"
    BY <1>1, HandlerWaits, Phases DEF Inv, Late
  <2>2. command["main"] # "GIVE_PAGES"
    BY <1>1, MainWaits DEF Inv
  <2> QED
    BY <1>1, <2>1, <2>2 DEF Inv, Position, Thread
<1> QED
  BY <1>1 DEF Inv, Position

LEMMA PositionStep ==
  ASSUME Inv, [Next]_vars
  PROVE  Position'
<1>1. ASSUME NEW t \in Thread, PageStep(t)
      PROVE  Position'
  <2>1. CASE \/ AllocPage(t) \/ AddPage(t) \/ GivePages(t) \/ GivePagesReturns(t)
             \/ TakePages(t) \/ FreePage(t) \/ CommandFails(t)
    BY <2>1, StayPosition
    DEF AllocPage, AddPage, GivePages, GivePagesReturns, TakePages, FreePage,
        CommandFails, Returns, device, handler_vars
  <2> QED
    BY <1>1, <2>1, MainPosition, HandlerPosition DEF PageStep, Thread
<1>2. CASE MainIssues \/ QueryPages \/ AllocDbr \/ UNCHANGED vars
  BY <1>2, StayPosition
  DEF MainIssues, QueryPages, AllocDbr, device, handler_vars, vars
<1> QED
  BY <1>1, <1>2, MainPosition, HandlerPosition
  DEF Next, MainStep, HandlerStep, Thread

-----------------------------------------------------------------------------
(* A command is issued where the thread waits for it ... *)
LEMMA IssueStep ==
  ASSUME TypeOK, NEW t \in Thread, NEW o, Issue(t, o)
  PROVE  /\ command[t] = "none" /\ command'[t] = o
         /\ command'[Other(t)] = command[Other(t)]
         /\ fault' = IF command[Other(t)] = "none" THEN "none" ELSE "overlap"
BY DEF Issue, Free, TypeOK, Other, Thread

LEMMA ReturnStep ==
  ASSUME TypeOK, NEW t \in Thread, NEW o, Returns(t, o)
  PROVE  /\ command[t] = o /\ command'[t] = "none"
         /\ command'[Other(t)] = command[Other(t)]
BY DEF Returns, TypeOK, Other, Thread

(* ... and a thread that goes on waits for none. *)
LEMMA NoneAfter ==
  ASSUME InCommand, NEW t \in Thread, command'[t] = "none",
         pc'[Other(t)] = pc[Other(t)],
         command'[Other(t)] = command[Other(t)]
  PROVE  InCommand'
BY DEF InCommand, Thread, Other

LEMMA InCommandStep ==
  ASSUME Inv, [Next]_vars
  PROVE  InCommand'
<1> USE DEF Inv
<1>1. CASE MainIssues
  BY <1>1, IssueStep DEF MainIssues, At, InCommand, Thread, Other
<1>2. CASE QueryPages
  BY <1>2, IssueStep DEF QueryPages, At, InCommand, Thread, Other
<1>3. ASSUME NEW t \in Thread, GivePages(t)
      PROVE  InCommand'
  BY <1>3, IssueStep
  DEF GivePages, Giving, GiveLabels, InCommand, Thread, Other, TypeOK,
      HandlerLabels
<1>4. ASSUME NEW t \in Thread, TakePages(t)
      PROVE  InCommand'
  <2>1. CASE command' = command
    BY <1>4, <2>1 DEF TakePages, InCommand
  <2>2. CASE Issue(t, "TAKE_PAGES")
    <3>1. /\ t = "main" => pc[t] = "reclaim"
          /\ t = "handler" => pc[t] = "take"
      BY <1>4, Lives
      DEF TakePages, TypeOK, HandlerLabels, Early, During, Late, Thread
    <3> QED
      BY <1>4, <2>2, <3>1, IssueStep DEF TakePages, InCommand, Thread, Other
  <2> QED
    BY <1>4, <2>1, <2>2 DEF TakePages
<1>5. CASE MainReturns \/ QueryPagesReturns
  <2>1. PICK o : Returns("main", o)
    BY <1>5 DEF MainReturns, QueryPagesReturns
  <2>2. \E l : Goto("main", l)
    BY <1>5 DEF MainReturns, QueryPagesReturns
  <2> QED
    BY <2>1, <2>2, ReturnStep, GotoStep, NoneAfter DEF Thread
<1>6. ASSUME NEW t \in Thread, GivePagesReturns(t) \/ TakePagesReturns(t)
      PROVE  InCommand'
  <2>1. PICK o : Returns(t, o)
    BY <1>6 DEF GivePagesReturns, TakePagesReturns
  <2>2. pc'[Other(t)] = pc[Other(t)]
    BY <1>6, GotoStep DEF GivePagesReturns, TakePagesReturns
  <2> QED
    BY <2>1, <2>2, ReturnStep, NoneAfter
<1>7. ASSUME NEW t \in Thread, ProvideReturns(t) \/ ReclaimReturns(t)
      PROVE  InCommand'
  <2>1. command[t] = "none" /\ command' = command
    BY <1>7, MainWaits, HandlerWaits
    DEF ProvideReturns, Giving, Free, Moves, ReclaimReturns, At, Thread
  <2>2. \E l : Goto(t, l)
    BY <1>7 DEF ProvideReturns, Moves, ReclaimReturns
  <2> QED
    BY <2>1, <2>2, GotoStep, NoneAfter
<1>8. CASE SpawnHandler
  <2>1. pc["main"] = "spawn" /\ command' = command
    BY <1>8 DEF SpawnHandler, At
  <2>2. command["main"] = "none" /\ command["handler"] = "none"
    BY <2>1, MainWaits, HandlerWaits DEF During
  <2> QED
    BY <2>1, <2>2 DEF InCommand
<1>9. CASE \/ SkipDriverVersion \/ CreateThreadReturns \/ ArmEq \/ SetDbr
           \/ Kill \/ Deactivate \/ Join
  <2>1. command["main"] = "none" /\ command' = command
    BY <1>9, MainWaits
    DEF SkipDriverVersion, CreateThreadReturns, ArmEq, SetDbr, Kill, Deactivate,
        Join, Moves, At, Free
  <2>2. \E l : Goto("main", l)
    BY <1>9
    DEF SkipDriverVersion, CreateThreadReturns, ArmEq, SetDbr, Kill, Deactivate,
        Join, Moves
  <2> QED
    BY <2>1, <2>2, GotoStep, NoneAfter DEF Thread
<1>10. CASE HandlerStarts \/ HandlerChecks \/ NoEvent \/ PageEvent
  <2>1. command["handler"] = "none" /\ command' = command
    BY <1>10, HandlerWaits
    DEF HandlerStarts, HandlerChecks, NoEvent, PageEvent, Moves, At
  <2>2. \E l : Goto("handler", l)
    BY <1>10 DEF HandlerStarts, HandlerChecks, NoEvent, PageEvent, Moves
  <2> QED
    BY <2>1, <2>2, GotoStep, NoneAfter DEF Thread
<1>11. ASSUME UNCHANGED <<pc, command>>
       PROVE  InCommand'
  BY <1>11 DEF InCommand
<1>12. ASSUME NEW t \in Thread,
              AllocPage(t) \/ AddPage(t) \/ FreePage(t) \/ CommandFails(t)
       PROVE  InCommand'
  BY <1>11, <1>12 DEF AllocPage, AddPage, FreePage, CommandFails
<1>13. CASE AllocDbr \/ UNCHANGED vars
  BY <1>11, <1>13 DEF AllocDbr, vars
<1> QED
  BY <1>1, <1>2, <1>3, <1>4, <1>5, <1>6, <1>7, <1>8, <1>9, <1>10, <1>12, <1>13
  DEF Next, MainStep, HandlerStep, PageStep, Thread

-----------------------------------------------------------------------------
(* PagesAccounted page by page: who owns it is in one place, and what the pool
   and the map say of it follows. *)
Owners(p) ==
  /\ p \in held <=>
       \/ p \in hca_pages \/ p \in batch["main"] \/ p \in batch["handler"]
       \/ p \in dbr \/ p \in fresh["main"] \/ p \in fresh["handler"]
  /\ p \in index <=>
       p \in held /\ p \notin fresh["main"] /\ p \notin fresh["handler"]
  /\ p \in hca_pages =>
       /\ p \notin batch["main"] /\ p \notin batch["handler"] /\ p \notin dbr
       /\ p \notin fresh["main"] /\ p \notin fresh["handler"]
  /\ p \in batch["main"] =>
       /\ p \notin batch["handler"] /\ p \notin dbr
       /\ p \notin fresh["main"] /\ p \notin fresh["handler"]
  /\ p \in batch["handler"] =>
       p \notin dbr /\ p \notin fresh["main"] /\ p \notin fresh["handler"]
  /\ p \in dbr => p \notin fresh["main"] /\ p \notin fresh["handler"]
  /\ p \in fresh["main"] => p \notin fresh["handler"]

EachOwned == \A p : Owners(p)

LEMMA PageByPage == PagesAccounted <=> EachOwned
<1> DEFINE owners == <<hca_pages, batch["main"], batch["handler"], dbr,
                       fresh["main"], fresh["handler"]>>
<1>1. /\ owners[1] = hca_pages /\ owners[2] = batch["main"]
      /\ owners[3] = batch["handler"] /\ owners[4] = dbr
      /\ owners[5] = fresh["main"] /\ owners[6] = fresh["handler"]
  OBVIOUS
<1> HIDE DEF owners
<1>2. \A i : i \in 1..6 <=> i = 1 \/ i = 2 \/ i = 3 \/ i = 4 \/ i = 5 \/ i = 6
  OBVIOUS
<1>3. \A p : p \in UNION {owners[i] : i \in 1..6} <=>
        \/ p \in hca_pages \/ p \in batch["main"] \/ p \in batch["handler"]
        \/ p \in dbr \/ p \in fresh["main"] \/ p \in fresh["handler"]
  BY <1>1, <1>2
<1>4. PagesAccounted <=>
        /\ held = UNION {owners[i] : i \in 1..6}
        /\ index = held \ (fresh["main"] \cup fresh["handler"])
        /\ \A i, j \in 1..6 : i # j => owners[i] \cap owners[j] = {}
  BY DEF PagesAccounted, owners
<1>5. ASSUME PagesAccounted, NEW p
      PROVE  Owners(p)
  <2>1. \A i, j \in 1..6 : i # j => p \notin owners[i] \/ p \notin owners[j]
    BY <1>4, <1>5
  <2>2. /\ 1 \in 1..6 /\ 2 \in 1..6 /\ 3 \in 1..6 /\ 4 \in 1..6 /\ 5 \in 1..6
        /\ 6 \in 1..6
    OBVIOUS
  <2>3. /\ p \in held <=> p \in UNION {owners[i] : i \in 1..6}
        /\ p \in index <=>
             p \in held /\ p \notin fresh["main"] /\ p \notin fresh["handler"]
    BY <1>4, <1>5
  <2> QED
    BY <1>1, <1>3, <2>1, <2>2, <2>3 DEF Owners
<1>6. ASSUME \A p : Owners(p)
      PROVE  PagesAccounted
  <2>1. held = UNION {owners[i] : i \in 1..6}
    BY <1>3, <1>6 DEF Owners
  <2>2. index = held \ (fresh["main"] \cup fresh["handler"])
    BY <1>6 DEF Owners
  <2>3. ASSUME NEW i \in 1..6, NEW j \in 1..6, i # j, NEW p \in owners[i] \cap owners[j]
        PROVE  FALSE
    BY <1>1, <1>2, <1>6, <2>3 DEF Owners
  <2> QED
    BY <1>4, <2>1, <2>2, <2>3
<1> QED
  BY <1>5, <1>6 DEF EachOwned

(* Who owns a page does not change when nothing that owns pages changes. *)
LEMMA SamePages ==
  ASSUME PagesAccounted, IsFiniteSet(held), UNCHANGED <<batch, pages, hca_pages>>
  PROVE  PagesAccounted' /\ IsFiniteSet(held')
BY DEF PagesAccounted, pages

(* The pool hands t one page more, or it is full. *)
LEMMA TakeStep ==
  ASSUME TypeOK, PagesAccounted, IsFiniteSet(held), NEW t \in Thread,
         fresh[t] = {}, TakeFromPool(t), UNCHANGED <<batch, index, dbr, hca_pages>>
  PROVE  /\ PagesAccounted' /\ IsFiniteSet(held') /\ Cardinality(held') <= Max
         /\ held' \subseteq Page /\ fresh'[Other(t)] = fresh[Other(t)]
         /\ \/ fault' = "null_page" /\ fresh' = fresh
            \/ /\ fault' = fault
               /\ \E p \in Page \ held : fresh' = [fresh EXCEPT ![t] = {p}]
<1>1. CASE UNCHANGED <<held, fresh>> /\ fault' = "null_page"
  <2>1. UNCHANGED <<batch, pages, hca_pages>>
    BY <1>1 DEF pages
  <2> QED
    BY <1>1, <2>1, SamePages DEF TypeOK
<1>2. ASSUME NEW p \in Page, Pool!Alloc(p), fresh' = [fresh EXCEPT ![t] = {p}],
             fault' = fault
      PROVE  /\ PagesAccounted' /\ IsFiniteSet(held') /\ Cardinality(held') <= Max
             /\ held' \subseteq Page /\ fresh'[Other(t)] = fresh[Other(t)]
             /\ p \notin held
  <2>1. p \notin held /\ Cardinality(held) < Max /\ held' = held \cup {p}
    BY <1>2 DEF Pool!Alloc, Pool!Cardinality, Pool!IsFiniteSet, Cardinality,
                IsFiniteSet
  <2>2. /\ IsFiniteSet(held') /\ Cardinality(held') = Cardinality(held) + 1
        /\ Cardinality(held) \in Nat
    BY <2>1, FS_AddElement, FS_CardinalityType
  <2>3. fresh'[t] = {p} /\ fresh'[Other(t)] = fresh[Other(t)]
    BY <1>2 DEF TypeOK, Other, Thread
  <2>4. \A q : Owners(q)
    BY PageByPage DEF EachOwned
  <2>5. EachOwned'
    BY <2>1, <2>3, <2>4 DEF EachOwned, Owners, Thread, Other
  <2>6. PagesAccounted'
    BY <2>5, PageByPage, PTL
  <2> QED
    BY <2>1, <2>2, <2>3, <2>6, DriverAssumption DEF TypeOK
<1> QED
  BY <1>1, <1>2 DEF TakeFromPool

(* Pages go from one owner to another, or back to the pool. *)
LEMMA PagesStep ==
  ASSUME Inv, [Next]_vars
  PROVE  PagesAccounted' /\ IsFiniteSet(held')
<1> USE DEF Inv
<1>1. \A q : Owners(q)
  BY PageByPage DEF EachOwned
<1>2. EachOwned' => PagesAccounted'
  BY PageByPage, PTL
<1>3. ASSUME NEW t \in Thread, AllocPage(t)
      PROVE  PagesAccounted' /\ IsFiniteSet(held')
  BY <1>3, TakeStep DEF AllocPage, Giving, device
<1>4. CASE AllocDbr
  BY <1>4, TakeStep DEF AllocDbr, Thread, device
<1>5. ASSUME NEW t \in Thread, AddPage(t)
      PROVE  PagesAccounted' /\ IsFiniteSet(held')
  <2>1. /\ index' = index \cup fresh[t]
        /\ fresh'[t] = {} /\ fresh'[Other(t)] = fresh[Other(t)]
        /\ batch'[t] = batch[t] \cup fresh[t] /\ batch'[Other(t)] = batch[Other(t)]
        /\ UNCHANGED <<held, dbr, hca_pages>>
    BY <1>5 DEF AddPage, PutIntoMap, TypeOK, Thread, Other, device
  <2> QED
    BY <1>1, <1>2, <2>1 DEF EachOwned, Owners, Thread, Other
<1>6. CASE SetDbr
  <2>1. /\ index' = index \cup fresh["main"] /\ dbr' = dbr \cup fresh["main"]
        /\ fresh'["main"] = {} /\ fresh'["handler"] = fresh["handler"]
        /\ UNCHANGED <<batch, held, hca_pages>>
    BY <1>6 DEF SetDbr, PutIntoMap, TypeOK, Thread, device
  <2> QED
    BY <1>1, <1>2, <2>1 DEF EachOwned, Owners
<1>7. ASSUME NEW t \in Thread, GivePagesReturns(t)
      PROVE  PagesAccounted' /\ IsFiniteSet(held')
  <2>1. /\ hca_pages' = hca_pages \cup batch[t]
        /\ batch'[t] = {} /\ batch'[Other(t)] = batch[Other(t)]
        /\ UNCHANGED <<held, index, dbr, fresh>>
    BY <1>7 DEF GivePagesReturns, TypeOK, Thread, Other, pages
  <2> QED
    BY <1>1, <1>2, <2>1 DEF EachOwned, Owners, Thread, Other
<1>8. ASSUME NEW t \in Thread, TakePagesReturns(t)
      PROVE  PagesAccounted' /\ IsFiniteSet(held')
  <2>1. batch[t] = {}
    BY <1>8, MainWaits, HandlerWaits
    DEF TakePagesReturns, Returns, Hands, HandsOf, GiveLabels, Thread
  <2>2. PICK back \in SUBSET hca_pages :
          /\ hca_pages' = hca_pages \ back
          /\ batch'[t] = back /\ batch'[Other(t)] = batch[Other(t)]
          /\ UNCHANGED <<held, index, dbr, fresh>>
    BY <1>8 DEF TakePagesReturns, ToFree, TypeOK, Thread, Other, pages
  <2> QED
    BY <1>1, <1>2, <2>1, <2>2 DEF EachOwned, Owners, Thread, Other
<1>9. ASSUME NEW t \in Thread, FreePage(t)
      PROVE  PagesAccounted' /\ IsFiniteSet(held')
  <2>1. PICK p \in batch[t] :
          /\ index' = index \ {p} /\ held' = held \ {p}
          /\ batch'[t] = batch[t] \ {p} /\ batch'[Other(t)] = batch[Other(t)]
          /\ UNCHANGED <<dbr, fresh, hca_pages>>
    BY <1>9 DEF FreePage, Pool!Free, TypeOK, Thread, Other, device
  <2>2. IsFiniteSet(held')
    BY <2>1, FS_RemoveElement
  <2> QED
    BY <1>1, <1>2, <2>1, <2>2 DEF EachOwned, Owners, Thread, Other
<1>10. ASSUME NEW t \in Thread, ReclaimReturns(t) \/ ProvideReturns(t)
       PROVE  PagesAccounted' /\ IsFiniteSet(held')
  BY <1>10, SamePages DEF ReclaimReturns, ProvideReturns, Moves, work, device
<1>11. ASSUME NEW t \in Thread, GivePages(t) \/ TakePages(t) \/ CommandFails(t)
       PROVE  PagesAccounted' /\ IsFiniteSet(held')
  BY <1>11, SamePages DEF GivePages, TakePages, CommandFails, work, device
<1>12. CASE \/ MainIssues \/ MainReturns \/ SkipDriverVersion \/ QueryPages
            \/ QueryPagesReturns \/ SpawnHandler \/ CreateThreadReturns \/ ArmEq
            \/ Deactivate \/ Join \/ Kill \/ UNCHANGED vars
  BY <1>12, SamePages
  DEF MainIssues, MainReturns, Effect, SkipDriverVersion, QueryPages,
      QueryPagesReturns, SpawnHandler, CreateThreadReturns, ArmEq, Deactivate,
      Join, Kill, Moves, vars, work, device
<1>13. CASE HandlerStarts \/ HandlerChecks \/ NoEvent \/ PageEvent
  BY <1>13, SamePages
  DEF HandlerStarts, HandlerChecks, NoEvent, PageEvent, Moves, work, device
<1> QED
  BY <1>3, <1>4, <1>5, <1>6, <1>7, <1>8, <1>9, <1>10, <1>11, <1>12, <1>13
  DEF Next, MainStep, HandlerStep, PageStep, Thread

-----------------------------------------------------------------------------
(* A thread that does nothing keeps what it has in its hands. *)
LEMMA SameHands ==
  ASSUME NEW t \in Thread, HandsOf(t), pc'[t] = pc[t], command'[t] = command[t],
         batch'[t] = batch[t], fresh'[t] = fresh[t], todo'[t] = todo[t]
  PROVE  HandsOf(t)'
BY DEF HandsOf, NextChunk

(* A thread with nothing in its hands goes anywhere. *)
LEMMA EmptyHands ==
  ASSUME NEW t \in Thread, TypeOK', fresh'[t] = {}, batch'[t] = {},
         command'[t] # "GIVE_PAGES"
  PROVE  HandsOf(t)'
<1>1. NextChunk(t)' >= 0
  BY DriverAssumption DEF TypeOK, NextChunk
<1> QED
  BY <1>1, FS_EmptySet DEF HandsOf

(* The number of pages in a thread's hands, and how many it is to give. *)
LEMMA Counts ==
  ASSUME Inv, NEW t \in Thread
  PROVE  /\ IsFiniteSet(batch[t]) /\ Cardinality(batch[t]) \in Nat
         /\ IsFiniteSet(hca_pages) /\ todo[t] \in Nat
         /\ NextChunk(t) \in Nat /\ NextChunk(t) <= todo[t]
         /\ todo[t] # 0 => NextChunk(t) # 0
         /\ Cardinality(batch[t]) = 0 => batch[t] = {}
<1>1. batch[t] \subseteq held /\ hca_pages \subseteq held
  BY PageByPage DEF Inv, EachOwned, Owners, Thread
<1>2. IsFiniteSet(batch[t]) /\ IsFiniteSet(hca_pages)
  BY <1>1, FS_Subset DEF Inv
<1> QED
  BY <1>2, FS_CardinalityType, FS_EmptySet, DriverAssumption
  DEF Inv, TypeOK, NextChunk

-----------------------------------------------------------------------------
(* The part of the types that does not follow from where main is. *)
Rest ==
  /\ command \in [Thread -> Command \cup {"none"}]
  /\ todo \in [Thread -> 0..MaxAsk]
  /\ fresh \in [Thread -> SUBSET Page] /\ batch \in [Thread -> SUBSET Page]
  /\ held \subseteq Page /\ Cardinality(held) <= Max
  /\ index \subseteq Page /\ dbr \subseteq Page /\ hca_pages \subseteq Page
  /\ active \in BOOLEAN
  /\ events \in 0..MaxEvents
  /\ fault \in {"none", "overlap", "exception", "null_page", "overflow",
               "frame", "index_race"}

LEMMA RestStep ==
  ASSUME Inv, [Next]_vars
  PROVE  Rest'
<1>1. TypeOK /\ Rest
  BY DEF Inv, TypeOK, Rest
<1> USE DEF Rest
<1>2. /\ {"QUERY_PAGES", "GIVE_PAGES", "TAKE_PAGES"} \subseteq Command
      /\ \A s \in Script : s[2] \in Command
  BY DEF Command
<1>3. ASSUME NEW t \in Thread, NEW o \in Command, Issue(t, o)
      PROVE  /\ command' \in [Thread -> Command \cup {"none"}]
             /\ fault' \in {"none", "overlap"}
  BY <1>1, <1>3 DEF Issue
<1>4. ASSUME NEW t \in Thread, NEW o, Returns(t, o)
      PROVE  command' \in [Thread -> Command \cup {"none"}]
  BY <1>1, <1>4 DEF Returns
<1>5. CASE MainIssues \/ QueryPages
  BY <1>1, <1>2, <1>3, <1>5
  DEF MainIssues, QueryPages, work, pages, device, handler_vars, Thread
<1>6. CASE MainReturns
  BY <1>1, <1>4, <1>6, Effects DEF MainReturns, work, pages, handler_vars, Thread
<1>7. CASE QueryPagesReturns
  BY <1>1, <1>4, <1>7
  DEF QueryPagesReturns, pages, device, handler_vars, Thread
<1>8. CASE \/ SkipDriverVersion \/ CreateThreadReturns \/ ArmEq \/ Kill \/ Join
           \/ HandlerChecks \/ NoEvent
  BY <1>1, <1>8
  DEF SkipDriverVersion, CreateThreadReturns, ArmEq, Kill, Join, HandlerChecks,
      NoEvent, Moves, work, pages, device, handler_vars
<1>9. CASE SpawnHandler \/ Deactivate \/ HandlerStarts
  BY <1>1, <1>9
  DEF SpawnHandler, Deactivate, HandlerStarts, work, pages, device, handler_vars
<1>10. CASE PageEvent
  <2>1. PICK n \in -MaxAsk..MaxAsk : todo' = [todo EXCEPT !["handler"] = Asked(n)]
    BY <1>10 DEF PageEvent
  <2>2. Asked(n) \in 0..MaxAsk /\ events' \in 0..MaxEvents
    BY <1>1, <1>10, DriverAssumption DEF PageEvent, Asked
  <2> QED
    BY <1>1, <1>10, <2>1, <2>2 DEF PageEvent, pages, device
<1>11. ASSUME NEW t \in Thread, TakeFromPool(t), fresh[t] = {},
              UNCHANGED <<batch, index, dbr, hca_pages>>
       PROVE  /\ fresh' \in [Thread -> SUBSET Page]
              /\ held' \subseteq Page /\ Cardinality(held') <= Max
              /\ fault' \in {fault, "null_page"}
  BY <1>1, <1>11, TakeStep DEF Inv
<1>12. CASE AllocDbr
  BY <1>1, <1>11, <1>12 DEF AllocDbr, device, handler_vars, Thread
<1>13. ASSUME NEW t \in Thread, AllocPage(t)
       PROVE  Rest'
  BY <1>1, <1>11, <1>13 DEF AllocPage, Giving, device, handler_vars
<1>14. ASSUME NEW t \in Thread, PutIntoMap(t)
       PROVE  /\ index' \subseteq Page /\ fresh' \in [Thread -> SUBSET Page]
              /\ fault' \in {"none", "index_race"}
  BY <1>1, <1>14 DEF PutIntoMap, ChangeMap
<1>15. CASE SetDbr
  BY <1>1, <1>14, <1>15 DEF SetDbr, device, handler_vars, Thread
<1>16. ASSUME NEW t \in Thread, AddPage(t)
       PROVE  Rest'
  BY <1>1, <1>14, <1>16 DEF AddPage, device, handler_vars
<1>17. ASSUME NEW t \in Thread, GivePages(t) \/ TakePages(t) \/ CommandFails(t)
       PROVE  Rest'
  BY <1>1, <1>2, <1>3, <1>17
  DEF GivePages, TakePages, CommandFails, work, pages, device, handler_vars
<1>18. ASSUME NEW t \in Thread, GivePagesReturns(t)
       PROVE  Rest'
  <2>1. Cardinality(batch[t]) = NextChunk(t)
    BY <1>18 DEF GivePagesReturns, Returns, Inv, Hands, HandsOf
  <2>2. todo[t] - Cardinality(batch[t]) \in 0..MaxAsk
    BY <1>1, <2>1, Counts, DriverAssumption
  <2> QED
    BY <1>1, <1>4, <1>18, <2>2 DEF GivePagesReturns, pages, handler_vars
<1>19. ASSUME NEW t \in Thread, TakePagesReturns(t)
       PROVE  Rest'
  BY <1>1, <1>4, <1>19 DEF TakePagesReturns, ToFree, pages, handler_vars
<1>20. ASSUME NEW t \in Thread, FreePage(t)
       PROVE  Rest'
  <2>1. PICK p \in batch[t] : held' = held \ {p} /\ index' = index \ {p}
                              /\ batch' = [batch EXCEPT ![t] = @ \ {p}]
                              /\ ChangeMap(t)
    BY <1>20 DEF FreePage, Pool!Free
  <2>2. Cardinality(held') <= Max
    <3>1. IsFiniteSet(held) /\ Cardinality(held) \in Nat
      BY FS_CardinalityType DEF Inv
    <3>2. Cardinality(held') \in {Cardinality(held), Cardinality(held) - 1}
      BY <2>1, <3>1, FS_RemoveElement
    <3> QED
      BY <1>1, <3>1, <3>2, DriverAssumption
  <2> QED
    BY <1>1, <1>20, <2>1, <2>2 DEF FreePage, ChangeMap, device, handler_vars
<1>21. ASSUME NEW t \in Thread, ReclaimReturns(t)
       PROVE  Rest'
  BY <1>1, <1>21, DriverAssumption
  DEF ReclaimReturns, pages, device, handler_vars
<1>22. ASSUME NEW t \in Thread, ProvideReturns(t)
       PROVE  Rest'
  BY <1>1, <1>22
  DEF ProvideReturns, Moves, work, pages, device, handler_vars
<1>23. CASE UNCHANGED vars
  BY <1>1, <1>23 DEF vars, work, pages, device, handler_vars
<1> QED
  BY <1>5, <1>6, <1>7, <1>8, <1>9, <1>10, <1>12, <1>13, <1>15, <1>16, <1>17,
     <1>18, <1>19, <1>20, <1>21, <1>22, <1>23
  DEF Next, MainStep, HandlerStep, PageStep, Thread

LEMMA TypeStep ==
  ASSUME Inv, [Next]_vars
  PROVE  TypeOK'
BY RestStep, PositionStep DEF Rest, Position, TypeOK, HcaAt, ObjectsAt

-----------------------------------------------------------------------------
(* Where no pages are handled, a thread has none in its hands. *)
LEMMA HandsEmpty ==
  ASSUME Inv, NEW t \in Thread, pc[t] \notin GiveLabels \cup {"alloc_dbr", "free"}
  PROVE  fresh[t] = {} /\ batch[t] = {}
BY DEF Inv, Hands, HandsOf

(* A step of one thread leaves the other's hands as they are. *)
LEMMA OneThread ==
  ASSUME Hands, NEW t \in Thread, HandsOf(t)',
         pc'[Other(t)] = pc[Other(t)], command'[Other(t)] = command[Other(t)],
         batch'[Other(t)] = batch[Other(t)], fresh'[Other(t)] = fresh[Other(t)],
         todo'[Other(t)] = todo[Other(t)]
  PROVE  Hands'
<1>1. Other(t) \in Thread /\ \A u \in Thread : u = t \/ u = Other(t)
  BY DEF Other, Thread
<1>2. HandsOf(Other(t))'
  <2> DEFINE u == Other(t)
  <2>1. u \in Thread /\ HandsOf(u)
    BY <1>1 DEF Hands
  <2> QED
    BY <2>1, SameHands
<1> QED
  BY <1>1, <1>2 DEF Hands

(* Main, at a label of its script or between two, touches no pages. *)
LEMMA MainHands ==
  ASSUME Inv, TypeOK',
         \/ MainIssues \/ MainReturns \/ SkipDriverVersion \/ QueryPages
         \/ QueryPagesReturns \/ SpawnHandler \/ CreateThreadReturns \/ ArmEq
         \/ Kill \/ Deactivate \/ Join
  PROVE  Hands'
<1>1. "main" \in Thread /\ Other("main") = "handler" /\ TypeOK /\ Position
  BY DEF Thread, Other, Inv
<1>2. /\ pc["main"] \notin GiveLabels \cup {"alloc_dbr", "free"}
      /\ command'["main"] # "GIVE_PAGES"
      /\ command'["handler"] = command["handler"]
      /\ UNCHANGED <<batch, fresh>> /\ todo'["handler"] = todo["handler"]
  <2>1. CASE MainIssues \/ MainReturns
    <3>1. PICK s \in Script :
            /\ pc["main"] = s[1] /\ UNCHANGED work
            /\ Issue("main", s[2]) \/ Returns("main", s[2])
      BY <2>1 DEF MainIssues, MainReturns, At
    <3> QED
      BY <1>1, <3>1, Phases, Row, IssueStep, ReturnStep DEF work, pages
  <2>2. CASE QueryPages
    BY <1>1, <2>2, IssueStep
    DEF QueryPages, At, QueryLabels, GiveLabels, work, pages
  <2>3. CASE QueryPagesReturns
    BY <1>1, <2>3, ReturnStep, MainWaits
    DEF Inv, QueryPagesReturns, QueryLabels, GiveLabels, pages, TypeOK
  <2>4. CASE \/ SkipDriverVersion \/ SpawnHandler \/ CreateThreadReturns
             \/ ArmEq \/ Kill \/ Deactivate \/ Join
    <3>1. /\ pc["main"] \in {"set_driver", "spawn", "spawned", "arm", "serve",
                             "stop", "join"}
          /\ Free("main") \/ pc["main"] # "set_driver"
          /\ UNCHANGED <<command, work>>
      BY <2>4
      DEF SkipDriverVersion, SpawnHandler, CreateThreadReturns, ArmEq, Kill,
          Deactivate, Join, Moves, At
    <3> QED
      BY <3>1, MainWaits DEF Inv, GiveLabels, work, pages, Free
  <2> QED
    BY <2>1, <2>2, <2>3, <2>4
<1>3. HandsOf("main")'
  BY <1>1, <1>2, HandsEmpty, EmptyHands
<1>4. CASE SpawnHandler
  <2>1. pc["handler"] = "unborn" /\ command["handler"] = "none"
    BY <1>4, HandlerWaits, Phases DEF SpawnHandler, At, Inv, Position, Early, During
  <2>2. HandsOf("handler")'
    BY <1>1, <1>2, <2>1, HandsEmpty, EmptyHands DEF Thread, GiveLabels
  <2> QED
    BY <1>3, <2>2 DEF Hands, Thread
<1>5. CASE ~SpawnHandler
  <2>1. pc' = pc \/ \E l : Goto("main", l)
    BY <1>5
    DEF MainIssues, MainReturns, SkipDriverVersion, QueryPages, QueryPagesReturns,
        CreateThreadReturns, ArmEq, Kill, Deactivate, Join, Moves
  <2>2. pc'["handler"] = pc["handler"]
    BY <1>1, <2>1, GotoStep
  <2> QED
    BY <1>1, <1>2, <1>3, <2>2, OneThread DEF Inv
<1> QED
  BY <1>4, <1>5

LEMMA HandlerHands ==
  ASSUME Inv, TypeOK', HandlerStarts \/ HandlerChecks \/ NoEvent \/ PageEvent
  PROVE  Hands'
<1>1. "handler" \in Thread /\ Other("handler") = "main" /\ TypeOK /\ Position
  BY DEF Thread, Other, Inv
<1>2. /\ pc["handler"] \in {"start", "check", "wait"}
      /\ UNCHANGED <<command, batch, fresh>> /\ todo'["main"] = todo["main"]
      /\ \E l : Goto("handler", l)
  <2>1. CASE HandlerStarts \/ HandlerChecks \/ NoEvent
    BY <2>1 DEF HandlerStarts, HandlerChecks, NoEvent, Moves, At, work, pages
  <2>2. CASE PageEvent
    BY <1>1, <2>2 DEF PageEvent, At, pages, TypeOK
  <2> QED
    BY <2>1, <2>2
<1>3. command["handler"] = "none"
  BY <1>2, HandlerWaits DEF Inv
<1>4. HandsOf("handler")'
  BY <1>1, <1>2, <1>3, HandsEmpty, EmptyHands DEF GiveLabels
<1> QED
  BY <1>1, <1>2, <1>4, GotoStep, OneThread DEF Inv

(* A page more, in the thread's hand: there is room for it in the command. *)
LEMMA TakeHands ==
  ASSUME Inv, TypeOK', NEW t \in Thread, fresh[t] = {}, command[t] = "none",
         pc[t] \in GiveLabels => Cardinality(batch[t]) < NextChunk(t),
         pc[t] \in GiveLabels \cup {"alloc_dbr"}, TakeFromPool(t),
         UNCHANGED <<pc, command, todo, batch, index, dbr, hca_pages>>
  PROVE  Hands'
<1>1. /\ fresh'[Other(t)] = fresh[Other(t)]
      /\ \/ fresh' = fresh
         \/ \E p \in Page \ held : fresh' = [fresh EXCEPT ![t] = {p}]
  BY TakeStep DEF Inv
<1>2. CASE fresh' = fresh
  BY <1>2 DEF Inv, Hands, HandsOf, NextChunk
<1>3. ASSUME NEW p \in Page, fresh' = [fresh EXCEPT ![t] = {p}]
      PROVE  HandsOf(t)'
  <2>1. fresh'[t] = {p}
    BY <1>3 DEF Inv, TypeOK
  <2>2. pc[t] \in GiveLabels => Cardinality(batch[t] \cup {p}) <= NextChunk(t)
    <3>1. /\ IsFiniteSet(batch[t]) /\ Cardinality(batch[t]) \in Nat
          /\ NextChunk(t) \in Nat
      BY Counts
    <3>2. IsFiniteSet(batch[t] \cup {p})
      BY <3>1, FS_AddElement
    <3>3. Cardinality(batch[t] \cup {p}) =
            IF p \in batch[t] THEN Cardinality(batch[t])
            ELSE Cardinality(batch[t]) + 1
      BY <3>1, FS_AddElement
    <3> QED
      BY <3>1, <3>3
  <2> QED
    BY <2>1, <2>2 DEF HandsOf, Inv, Hands, NextChunk
<1> QED
  BY <1>1, <1>2, <1>3, OneThread DEF Inv

LEMMA PageHands ==
  ASSUME Inv, TypeOK', NEW t \in Thread, PageStep(t)
  PROVE  Hands'
<1>1. TypeOK /\ Position /\ InCommand /\ HandsOf(t)
  BY DEF Inv, Hands
<1>2. CASE AllocPage(t)
  BY <1>2, TakeHands DEF AllocPage, Giving, Free, device
<1>3. CASE AddPage(t)
  <2>1. /\ fresh'[t] = {} /\ fresh'[Other(t)] = fresh[Other(t)]
        /\ batch'[t] = batch[t] \cup fresh[t] /\ batch'[Other(t)] = batch[Other(t)]
        /\ fresh[t] # {} /\ pc[t] \in GiveLabels /\ UNCHANGED <<pc, command, todo>>
    BY <1>1, <1>3 DEF AddPage, PutIntoMap, TypeOK, Thread, Other
  <2>2. HandsOf(t)'
    BY <1>1, <2>1 DEF HandsOf, NextChunk
  <2> QED
    BY <2>1, <2>2, OneThread DEF Inv
<1>4. CASE GivePages(t)
  <2>1. /\ command'[t] = "GIVE_PAGES" /\ command'[Other(t)] = command[Other(t)]
        /\ fresh[t] = {} /\ Cardinality(batch[t]) = NextChunk(t)
        /\ UNCHANGED <<pc, todo, batch, fresh>>
    BY <1>1, <1>4, IssueStep DEF GivePages, Giving, work, pages
  <2>2. HandsOf(t)'
    BY <1>1, <2>1 DEF HandsOf, NextChunk
  <2> QED
    BY <2>1, <2>2, OneThread DEF Inv
<1>5. CASE GivePagesReturns(t)
  <2>1. /\ command[t] # "none" /\ command'[t] = "none"
        /\ command'[Other(t)] = command[Other(t)]
        /\ batch'[t] = {} /\ batch'[Other(t)] = batch[Other(t)]
        /\ todo'[Other(t)] = todo[Other(t)] /\ UNCHANGED <<pc, fresh>>
    BY <1>1, <1>5, ReturnStep
    DEF GivePagesReturns, TypeOK, Other, Thread, pages
  <2>2. HandsOf(t)'
    BY <1>1, <2>1, EmptyHands DEF HandsOf
  <2> QED
    BY <2>1, <2>2, OneThread DEF Inv
<1>6. CASE ProvideReturns(t)
  <2>1. /\ fresh[t] = {} /\ command[t] = "none" /\ todo[t] = 0
        /\ pc[t] \in GiveLabels /\ UNCHANGED <<command, todo, batch, fresh>>
        /\ \E l : Goto(t, l)
    BY <1>6 DEF ProvideReturns, Giving, Free, Moves, work, pages
  <2>2. batch[t] = {}
    <3>1. Cardinality(batch[t] \cup fresh[t]) <= 0
      BY <1>1, <2>1, Counts DEF HandsOf
    <3>2. batch[t] \cup fresh[t] = batch[t]
      BY <2>1
    <3> QED
      BY <3>1, <3>2, Counts
  <2>3. HandsOf(t)'
    BY <2>1, <2>2, EmptyHands
  <2> QED
    BY <1>1, <2>1, <2>3, GotoStep, OneThread DEF Inv
<1>7. CASE TakePages(t)
  <2>1. /\ pc[t] \in {"reclaim", "take"} /\ command[t] = "none"
        /\ command'[t] \in {"none", "TAKE_PAGES"}
        /\ command'[Other(t)] = command[Other(t)]
        /\ UNCHANGED <<pc, todo, batch, fresh>>
    BY <1>1, <1>7, IssueStep DEF TakePages, Free, work, pages
  <2>2. HandsOf(t)'
    BY <2>1, HandsEmpty, EmptyHands DEF GiveLabels
  <2> QED
    BY <2>1, <2>2, OneThread DEF Inv
<1>8. CASE TakePagesReturns(t)
  <2>1. /\ command[t] # "none" /\ command'[t] = "none"
        /\ command'[Other(t)] = command[Other(t)]
        /\ UNCHANGED <<todo, fresh>>
    BY <1>1, <1>8, ReturnStep DEF TakePagesReturns, pages
  <2>2. PICK back \in SUBSET hca_pages :
          /\ batch'[t] = back /\ batch'[Other(t)] = batch[Other(t)]
          /\ Goto(t, AfterTake(t, back))
    BY <1>1, <1>8 DEF TakePagesReturns, ToFree, TypeOK, Other, Thread
  <2>3. CASE back = {}
    BY <1>1, <2>1, <2>2, <2>3, EmptyHands, GotoStep, OneThread DEF Inv, HandsOf
  <2>4. CASE back # {}
    <3>1. pc'[t] = "free" /\ pc'[Other(t)] = pc[Other(t)]
      BY <1>1, <2>2, <2>4, GotoStep DEF AfterTake
    <3>2. HandsOf(t)'
      BY <1>1, <2>1, <3>1 DEF HandsOf, GiveLabels
    <3> QED
      BY <2>1, <2>2, <3>1, <3>2, OneThread DEF Inv
  <2> QED
    BY <2>3, <2>4
<1>9. CASE FreePage(t)
  <2>1. /\ pc[t] = "free" /\ batch'[t] \subseteq batch[t]
        /\ batch'[Other(t)] = batch[Other(t)]
        /\ UNCHANGED <<pc, command, todo, fresh>>
    BY <1>1, <1>9 DEF FreePage, At, TypeOK, Other, Thread
  <2>2. command[t] = "none"
    BY <1>1, <2>1, MainWaits, HandlerWaits DEF Thread
  <2>3. HandsOf(t)'
    BY <1>1, <2>1, <2>2 DEF HandsOf, GiveLabels
  <2> QED
    BY <2>1, <2>3, OneThread DEF Inv
<1>10. CASE ReclaimReturns(t)
  <2>1. /\ pc[t] = "free" /\ batch[t] = {} /\ todo'[Other(t)] = todo[Other(t)]
        /\ UNCHANGED <<command, batch, fresh>> /\ \E l : Goto(t, l)
    BY <1>1, <1>10 DEF ReclaimReturns, At, TypeOK, Other, Thread, pages
  <2>2. command[t] = "none" /\ fresh[t] = {}
    BY <1>1, <2>1, MainWaits, HandlerWaits DEF Thread, HandsOf, GiveLabels
  <2>3. HandsOf(t)'
    BY <2>1, <2>2, EmptyHands
  <2> QED
    BY <1>1, <2>1, <2>3, GotoStep, OneThread DEF Inv
<1>11. CASE CommandFails(t)
  BY <1>11 DEF CommandFails, work, pages, Inv, Hands, HandsOf, NextChunk
<1> QED
  BY <1>2, <1>3, <1>4, <1>5, <1>6, <1>7, <1>8, <1>9, <1>10, <1>11 DEF PageStep

LEMMA HandsStep ==
  ASSUME Inv, [Next]_vars
  PROVE  Hands'
<1>1. TypeOK' /\ "main" \in Thread
  BY TypeStep DEF Thread
<1>2. CASE AllocDbr
  <2>1. pc["main"] = "alloc_dbr" /\ command["main"] = "none"
    BY <1>2, MainWaits DEF AllocDbr, At, Inv
  <2> QED
    BY <1>1, <1>2, <2>1, TakeHands DEF AllocDbr, GiveLabels, device
<1>3. CASE SetDbr
  <2>1. /\ pc["main"] = "alloc_dbr" /\ fresh'["main"] = {}
        /\ fresh'["handler"] = fresh["handler"] /\ \E l : Goto("main", l)
        /\ UNCHANGED <<command, todo, batch>>
    BY <1>3 DEF SetDbr, PutIntoMap, Inv, TypeOK, Thread
  <2>2. command["main"] = "none" /\ batch["main"] = {}
    BY <1>1, <2>1, MainWaits DEF Inv, Hands, HandsOf, GiveLabels
  <2>3. HandsOf("main")'
    BY <1>1, <2>1, <2>2, EmptyHands
  <2> QED
    BY <1>1, <2>1, <2>3, GotoStep, OneThread DEF Inv, Other
<1>4. CASE UNCHANGED vars
  BY <1>4 DEF vars, work, pages, Inv, Hands, HandsOf, NextChunk
<1> QED
  BY <1>1, <1>2, <1>3, <1>4, MainHands, HandlerHands, PageHands
  DEF Next, MainStep, HandlerStep, Thread

-----------------------------------------------------------------------------
(* A fault ends the behaviour, so it is enough to look at the step that brings
   it about. *)
LEMMA SameFault ==
  ASSUME Inv, fault = "none", fault' \in {"none", "exception"}
  PROVE  FaultsConfined'
BY DEF FaultsConfined

LEMMA FaultsStep ==
  ASSUME Inv, [Next]_vars
  PROVE  FaultsConfined'
<1> USE DEF Inv
<1>1. CASE UNCHANGED vars
  BY <1>1 DEF vars, FaultsConfined
<1>2. ASSUME NEW o \in {s[2] : s \in Script} \cup {"QUERY_PAGES"}, Issue("main", o),
             UNCHANGED pc, o = "QUERY_PAGES" => pc["main"] \in QueryLabels,
             o # "QUERY_PAGES" => \E s \in Script : pc["main"] = s[1] /\ o = s[2]
      PROVE  FaultsConfined'
  <2>1. CASE command["handler"] = "none"
    BY <1>2, <2>1, IssueStep DEF Thread, Other, FaultsConfined
  <2>2. CASE command["handler"] # "none"
    <3>1. pc["main"] \in During /\ pc["handler"] \in {"give", "take"}
      BY <2>2, HandlerWaits
    <3>2. command'["main"] = o /\ o \in {"QUERY_EQ", "ALLOC_PD", "DEALLOC_PD"}
      BY <1>2, <3>1, IssueStep, Row DEF Thread, QueryLabels, During
    <3>3. fault' \in {"none", "overlap"}
      BY <1>2, IssueStep DEF Thread
    <3> QED
      BY <1>2, <3>1, <3>2, <3>3 DEF FaultsConfined
  <2> QED
    BY <2>1, <2>2
<1>3. CASE MainIssues
  <2>1. PICK s \in Script : /\ pc["main"] = s[1] /\ Issue("main", s[2])
                            /\ UNCHANGED pc
    BY <1>3 DEF MainIssues, At
  <2> QED
    BY <1>2, <2>1, Row
<1>4. CASE QueryPages
  BY <1>2, <1>4 DEF QueryPages, At
<1>5. ASSUME NEW t \in Thread, NEW o, Issue(t, o), UNCHANGED pc,
             o \in {"GIVE_PAGES", "TAKE_PAGES"},
             pc[t] \in GiveLabels \cup {"reclaim", "take"}
      PROVE  FaultsConfined'
  <2>1. CASE command[Other(t)] = "none"
    BY <1>5, <2>1, IssueStep DEF FaultsConfined
  <2>2. CASE t = "main" /\ command["handler"] # "none"
    <3>1. pc["main"] \in During
      BY <2>2, HandlerWaits
    <3> QED
      BY <1>5, <2>2, <3>1 DEF During, GiveLabels
  <2>3. CASE t = "handler" /\ command["main"] # "none"
    <3>1. pc["main"] \in During /\ pc["handler"] # "exited"
      BY <1>5, <2>3, Lives DEF GiveLabels
    <3>2. command["main"] \in {"QUERY_EQ", "ALLOC_PD", "DEALLOC_PD"}
      BY <2>3, <3>1, MainWaits
    <3>3. command'["main"] = command["main"] /\ fault' \in {"none", "overlap"}
      BY <1>5, <2>3, IssueStep DEF Thread, Other
    <3> QED
      BY <1>5, <3>1, <3>2, <3>3 DEF FaultsConfined
  <2> QED
    BY <2>1, <2>2, <2>3 DEF Thread, Other
<1>6. ASSUME NEW t \in Thread, GivePages(t)
      PROVE  FaultsConfined'
  BY <1>5, <1>6 DEF GivePages, Giving
<1>7. ASSUME NEW t \in Thread, TakePages(t)
      PROVE  FaultsConfined'
  <2>1. CASE Wanted(t) > Chunk /\ fault' = "overflow"
    <3>1. t = "handler"
      BY <2>1, DriverAssumption DEF Wanted, Thread
    <3>2. pc'["handler"] = "take"
      BY <1>7, <3>1 DEF TakePages, TypeOK, HandlerLabels
    <3> QED
      BY <2>1, <3>2 DEF FaultsConfined
  <2>2. CASE Issue(t, "TAKE_PAGES")
    BY <1>5, <1>7, <2>2 DEF TakePages
  <2> QED
    BY <1>7, <2>1, <2>2 DEF TakePages
<1>8. ASSUME NEW t \in Thread, fault = "none", ChangeMap(t), InMap(t),
             pc'["handler"] = pc["handler"],
             pc["main"] = "alloc_dbr" => pc'["main"] \in {"alloc_dbr", "alloc_pd"},
             t = "handler" => pc'["main"] = pc["main"]
      PROVE  FaultsConfined'
  <2>1. CASE fault' = "none"
    BY <2>1, <1>8, SameFault
  <2>2. CASE InMap(Other(t)) /\ fault' = "index_race"
    <3>1. InMap("main") /\ InMap("handler")
      BY <1>8, <2>2 DEF Thread, Other
    <3>2. pc["handler"] \in {"give", "free"}
      BY <3>1 DEF InMap, Hands, HandsOf, TypeOK, HandlerLabels, GiveLabels, Thread
    <3>3. pc["main"] \in During
      BY <3>2, Lives
    <3>4. pc["main"] = "alloc_dbr"
      BY <3>1, <3>3 DEF InMap, Hands, HandsOf, GiveLabels, Thread, During
    <3> QED
      BY <1>8, <2>2, <3>2, <3>4 DEF FaultsConfined
  <2> QED
    BY <1>8, <2>1, <2>2 DEF ChangeMap
<1>9. ASSUME NEW t \in Thread, AddPage(t) \/ FreePage(t)
      PROVE  FaultsConfined'
  BY <1>8, <1>9 DEF AddPage, PutIntoMap, FreePage, At, InMap
<1>10. CASE SetDbr
  BY <1>8, <1>10, GotoStep DEF SetDbr, PutIntoMap, InMap, Thread
<1>11. ASSUME NEW t \in Thread, TakeFromPool(t), fault = "none", UNCHANGED pc,
              pc[t] \in GiveLabels \/ pc["main"] = "alloc_dbr"
       PROVE  FaultsConfined'
  <2>1. pc["handler"] # "exited"
    BY <1>11, Lives
    DEF GiveLabels, Position, Thread, Early, During, Late, TypeOK, HandlerLabels
  <2>2. fault' \in {"none", "null_page"}
    BY <1>11 DEF TakeFromPool
  <2> QED
    BY <1>11, <2>1, <2>2 DEF FaultsConfined
<1>12. ASSUME NEW t \in Thread, AllocPage(t)
       PROVE  FaultsConfined'
  BY <1>11, <1>12 DEF AllocPage, Giving
<1>13. CASE AllocDbr
  BY <1>11, <1>13 DEF AllocDbr, At, Thread
<1>14. CASE HandlerStarts
  <2>1. pc'["handler"] = "check" /\ fault' \in {"none", "exception", "frame"}
    BY <1>14, GotoStep DEF HandlerStarts, Thread
  <2> QED
    BY <2>1 DEF FaultsConfined
<1>15. ASSUME NEW t \in Thread,
              \/ GivePagesReturns(t) \/ ProvideReturns(t) \/ TakePagesReturns(t)
              \/ ReclaimReturns(t) \/ CommandFails(t)
       PROVE  FaultsConfined'
  BY <1>15, SameFault
  DEF GivePagesReturns, ProvideReturns, TakePagesReturns, ReclaimReturns,
      CommandFails, Returns, Giving, Moves, At
<1>16. CASE \/ MainReturns \/ SkipDriverVersion \/ QueryPagesReturns
            \/ SpawnHandler \/ CreateThreadReturns \/ ArmEq \/ Kill
            \/ Deactivate \/ Join \/ HandlerChecks \/ NoEvent \/ PageEvent
  BY <1>16, SameFault
  DEF MainReturns, SkipDriverVersion, QueryPagesReturns, SpawnHandler,
      CreateThreadReturns, ArmEq, Kill, Deactivate, Join, HandlerChecks, NoEvent,
      PageEvent, Returns, Moves, At
<1> QED
  BY <1>1, <1>3, <1>4, <1>6, <1>7, <1>9, <1>10, <1>12, <1>13, <1>14, <1>15, <1>16
  DEF Next, MainStep, HandlerStep, PageStep, Thread

-----------------------------------------------------------------------------
LEMMA InitInv ==
  ASSUME Init
  PROVE  Inv
<1> USE DEF Init
<1>1. "enable" \in Early /\ "enable" \notin During \cup Late
  BY Phases DEF Early
<1>2. /\ pc = [t \in Thread |-> IF t = "main" THEN "enable" ELSE "unborn"]
      /\ pc["main"] = "enable" /\ pc["handler"] = "unborn"
  BY DEF Thread
<1>3. IsFiniteSet(held) /\ Cardinality(held) = 0
  BY FS_EmptySet
<1>4. "enable" \in MainLabels /\ "unborn" \in HandlerLabels
  BY <1>1, Phases DEF HandlerLabels
<1>5. TypeOK
  <2>1. /\ command \in [Thread -> Command \cup {"none"}]
        /\ todo \in [Thread -> 0..MaxAsk]
        /\ fresh \in [Thread -> SUBSET Page] /\ batch \in [Thread -> SUBSET Page]
    BY DriverAssumption
  <2>2. /\ Cardinality(held) <= Max /\ events \in 0..MaxEvents
        /\ held \subseteq Page /\ index \subseteq Page /\ dbr \subseteq Page
        /\ hca_pages \subseteq Page /\ objects \subseteq {"uar", "eq", "pd"}
    BY <1>3, DriverAssumption
  <2>3. hca = "off" /\ active = FALSE /\ fault = "none"
    OBVIOUS
  <2> HIDE DEF Init
  <2> QED
    BY <1>2, <1>4, <2>1, <2>2, <2>3 DEF TypeOK
<1>6. Position
  BY <1>1, <1>2, <1>4 DEF Position, HcaAt, ObjectsAt, During, Late
<1>7. /\ InCommand
      /\ \A t \in Thread : command[t] = "none" /\ fresh[t] = {} /\ batch[t] = {}
      /\ \A t \in Thread : pc[t] \notin GiveLabels
  BY <1>2 DEF InCommand, Thread, GiveLabels
<1>8. Hands
  BY <1>7 DEF Hands, HandsOf
<1>9. PagesAccounted
  <2>1. fresh["main"] = {} /\ fresh["handler"] = {} /\ batch["main"] = {}
        /\ batch["handler"] = {}
    BY DEF Thread
  <2> QED
    BY <2>1, PageByPage DEF EachOwned, Owners
<1>10. FaultsConfined
  BY <1>2 DEF FaultsConfined
<1> QED
  BY <1>3, <1>5, <1>6, <1>7, <1>8, <1>9, <1>10 DEF Inv

LEMMA StepInv ==
  ASSUME Inv, [Next]_vars
  PROVE  Inv'
BY TypeStep, PositionStep, InCommandStep, HandsStep, PagesStep, FaultsStep DEF Inv

(* A command in progress finds the HCA in a state it is meant for: the one main's
   place in the program stands for, and for the handler's "ready". *)
LEMMA InvOrdered ==
  ASSUME Inv
  PROVE  CommandsInOrder
<1> USE DEF Inv
<1>1. ASSUME command["main"] # "none"
      PROVE  Accepts(command["main"])
  <2>1. ASSUME NEW s \in Script, pc["main"] = s[1], command["main"] = s[2]
        PROVE  Accepts(command["main"])
    BY <2>1, RowEffect DEF Position
  <2>2. CASE command["main"] = "QUERY_PAGES"
    BY <1>1, <2>2, MainWaits, Accepted DEF QueryLabels, Position, HcaAt
  <2>3. CASE command["main"] = "GIVE_PAGES"
    BY <1>1, <2>3, MainWaits, Accepted DEF Position, HcaAt
  <2>4. CASE command["main"] = "TAKE_PAGES"
    BY <1>1, <2>4, MainWaits, Accepted DEF Position, HcaAt
  <2> QED
    BY <1>1, <2>1, <2>2, <2>3, <2>4 DEF InCommand
<1>2. ASSUME command["handler"] # "none"
      PROVE  Accepts(command["handler"])
  <2>1. pc["main"] \in During /\ command["handler"] \in {"GIVE_PAGES", "TAKE_PAGES"}
    BY <1>2, HandlerWaits
  <2>2. hca = "ready"
    BY <2>1 DEF Position, HcaAt, During
  <2> QED
    BY <2>1, <2>2, Accepted
<1> QED
  BY <1>1, <1>2 DEF CommandsInOrder, Thread

(* main joins the handler before it destroys the event queue, so the handler only
   lives in the phase in which the queue exists. *)
LEMMA InvEqKept ==
  ASSUME Inv
  PROVE  EqOutlivesHandler
<1>1. pc["handler"] \notin {"unborn", "exited"} => pc["main"] \in During
  BY Lives DEF Inv
<1> QED
  BY <1>1 DEF EqOutlivesHandler, Inv, Position, ObjectsAt, During

(* The inductive invariant holds in every state the server reaches. *)
THEOREM Invariance == Spec => []Inv
<1>1. Init => Inv
  BY InitInv
<1>2. Inv /\ [Next]_vars => Inv'
  BY StepInv
<1> QED
  BY <1>1, <1>2, PTL DEF Spec

(* The variables keep to their types, and the pool hands out no more than
   mem_page_pool.max pages. *)
THEOREM TypeCorrect == Spec => []TypeOK
BY Invariance, PTL DEF Inv

(* No page of DMA memory is lost, owned twice, or given back to the pool while the
   HCA uses it: provide_pages, reclaim_pages and create_wqc, by both threads in any
   order. *)
THEOREM PagesNeverLost == Spec => []PagesAccounted
BY Invariance, PTL DEF Inv

(* Bring-up, service and teardown_hca send each command in a state of the HCA that
   it is meant for, whatever the handler thread does meanwhile. *)
THEOREM CommandsOrdered == Spec => []CommandsInOrder
<1>1. Inv => CommandsInOrder
  BY InvOrdered
<1> QED
  BY <1>1, Invariance, PTL

(* DESTROY_EQ comes after pthread_join: the handler never polls an event queue that
   does not exist. *)
THEOREM EqKept == Spec => []EqOutlivesHandler
<1>1. Inv => EqOutlivesHandler
  BY InvEqKept
<1> QED
  BY <1>1, Invariance, PTL

(* The faults of the unsynchronised threads can strike only where FaultsConfined
   says, and never once the handler has exited. *)
THEOREM FaultsWhereKnown == Spec => []FaultsConfined
BY Invariance, PTL DEF Inv

=============================================================================
