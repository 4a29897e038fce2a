-------------------------- MODULE RequestsAndStores --------------------------
(***************************************************************************)
(* The requests of the application and what is kept on the disk for them:  *)
(* the remembered districts, the files of outcomes, the import of the      *)
(* places, orders by voice or text, the tools of the catalog, the          *)
(* operator's loop and a turn of the chat.                                 *)
(*                                                                         *)
(* The parts share no state: together they are the conjunction of their    *)
(* specifications.  InTurns is what the run checks: `part` is the one that *)
(* moves, the others stay in an initial state.                             *)
(***************************************************************************)
EXTENDS AliasStore, Integers, SequencesExt, TLC

CONSTANTS
  None, Partial, Missing, Broken, Blank, Unreadable, NoId, Pause,      \* values unlike any other
  Rooms, Ttl, MaxFiles, MaxSaves, MaxEnds,                              \* of OutcomeFiles
  Companies, GovernorateFiles, DistrictFiles, Server, Cli, UsesCli, Alone, MaxEdits, MaxKills,
                                                                        \* of CatalogImport
  Governorates, GovernorateOrder, AllDistricts, Bare, TooShort, NearState, NearDistrict, MaxWords,
  Requests, CustomerNames, CustomerPhones, Cities, Areas, Streets, Prices,  \* of OrderIntake
  Vocabulary, Garbles, Lengths, MaxItems, ChunkSize, Overlap, MaxShared, \* of AudioOrder
  Products, Infos, Storage, PageSize, MaxPages, MaxInfos, MaxChanges, Orders, Phones, NumberOf,
  NoNumber, NoOrder, OrdersPage, MaxOrders,                             \* of CatalogTools
  ServerTools, ClientTools, StartCall, Foreign, MaxRounds, MaxCalls,    \* of OperatorLoop
  Contents, RawCalls, Ids                                                 \* of ChatTurn

VARIABLES
  part,
  outcome, age, outcomeTmp, save, saved, saves, ends,                           \* of OutcomeFiles
  book, db, dbTmp, store, imp, served, touched, edits, crashes,                 \* of CatalogImport
  ready, at, said, plane, draft, status, sent,                                  \* of OrderIntake
  recording, decoding, ffmpeg, start, heardTo, transcript, heard,               \* of AudioOrder
  tool, phone, wanted, phoneOf, stock, changes, asking, read, reason, answer,   \* of CatalogTools
  configured, choice, lastRole, round, tried, turn, pending, talk, reply,       \* of OperatorLoop
  route, toolChoice, tools, role, phase, asked, data, response                  \* of ChatTurn

outcomeVars == <<outcome, age, outcomeTmp, save, saved, saves, ends>>
importVars == <<book, db, dbTmp, store, imp, served, touched, edits, crashes>>
orderVars == <<ready, at, said, plane, draft, status, sent>>
audioVars == <<recording, decoding, ffmpeg, start, heardTo, transcript, heard>>
toolVars == <<tool, phone, wanted, phoneOf, stock, changes, asking, read, reason, answer>>
operatorVars == <<configured, choice, lastRole, round, tried, turn, pending, talk, reply>>
chatVars == <<route, toolChoice, tools, role, phase, asked, data, response>>
allVars == <<part, vars, outcomeVars, importVars, orderVars, audioVars, toolVars, operatorVars, chatVars>>

Files == INSTANCE OutcomeFiles WITH
  MaxCrashes <- MaxEnds, file <- outcome, tmp <- outcomeTmp, crashes <- ends

Import == INSTANCE CatalogImport WITH
  GovFiles <- GovernorateFiles, CityFiles <- DistrictFiles,
  MaxCrashes <- MaxKills, tmp <- dbTmp, catalog <- served

Intake == INSTANCE OrderIntake WITH
  StateName <- Governorates, StateOrder <- GovernorateOrder, Districts <- AllDistricts,
  Names <- CustomerNames, Phones <- CustomerPhones, order <- draft

Audio == INSTANCE AudioOrder WITH
  Words <- Vocabulary, Size <- ChunkSize, phase <- decoding, result <- heard

Tools == INSTANCE CatalogTools WITH phase <- asking, heard <- reason

Operator == INSTANCE OperatorLoop WITH phase <- turn, answer <- reply

Chat == INSTANCE ChatTurn WITH choice <- toolChoice, lastRole <- role, answer <- response

ASSUME RequestsAssumption ==
  /\ Files!OutcomeFilesAssumption /\ Import!ImportAssumption /\ Intake!IntakeAssumption /\ Audio!AudioAssumption
  /\ Tools!CatalogAssumption /\ Operator!OperatorAssumption /\ Chat!ChatAssumption

-----------------------------------------------------------------------------
\* A step of one part is no step of another.
Together ==
  /\ Spec /\ Files!Spec /\ Import!Spec /\ Intake!Spec /\ Audio!Spec
  /\ Tools!Spec /\ Operator!Spec /\ Chat!Spec

Parts == {"aliases", "files", "import", "intake", "audio", "tools", "operator", "chat"}

TurnInit ==
  /\ part \in Parts /\ Init /\ Files!Init /\ Import!Init /\ Intake!Init
  /\ Audio!Init /\ Tools!Init /\ Operator!Init /\ Chat!Init

TurnNext ==
  /\ part' = part
  /\ IF part = "aliases" THEN Next ELSE UNCHANGED vars
  /\ IF part = "files" THEN Files!Next ELSE UNCHANGED outcomeVars
  /\ IF part = "import" THEN Import!Next ELSE UNCHANGED importVars
  /\ IF part = "intake" THEN Intake!Next ELSE UNCHANGED orderVars
  /\ IF part = "audio" THEN Audio!Next ELSE UNCHANGED audioVars
  /\ IF part = "tools" THEN Tools!Next ELSE UNCHANGED toolVars
  /\ IF part = "operator" THEN Operator!Next ELSE UNCHANGED operatorVars
  /\ IF part = "chat" THEN Chat!Next ELSE UNCHANGED chatVars

\* A thread that holds a lock goes on, the server starts and imports, completions and the catalog's
\* calls end by their timeouts.
TurnFairness ==
  /\ \A c \in Clients : WF_vars(part = "aliases" /\ Step(c))
  /\ WF_importVars(part = "import" /\ Import!Boot) /\ WF_importVars(part = "import" /\ Import!LoadCatalog)
  /\ \A i \in Import!Importers : WF_importVars(part = "import" /\ Import!Import(i))
  /\ WF_operatorVars(part = "operator" /\ (Operator!Complete \/ Operator!RunTool \/ Operator!NextRound))

InTurns == TurnInit /\ [][TurnNext]_allVars /\ TurnFairness

-----------------------------------------------------------------------------
(* Properties: those of the parts, which say more of themselves in their modules. *)

\* Every part is in a state of its type, in every order of its steps.
TypesHold ==
  /\ TypeOK /\ Files!TypeOK /\ Import!TypeOK /\ Intake!TypeOK /\ Audio!TypeOK /\ Tools!TypeOK
  /\ Operator!TypeOK /\ Chat!TypeOK

\* What is kept on the disk is served: the newest outcomes within their time, whatever is pruned or
\* cut off (outcomes.py:49-74), and the places of the workbooks, from a database that is always the
\* whole of one import (catalog.py:43-131, router.py:27-31).
StoresServe == Files!NewestAreServed /\ Import!DatabaseIsWhole /\ Import!ServedIsCurrent

\* An order is what the customer said: never a guess, sent once when it is complete, with a place that
\* agrees with itself (service.py:45-131, extraction.py:19-56); of a recording no word is made up, and
\* none that was said once is lost where the chunks meet (transcribe.py:43-80).
OrderIsWhatWasSaid ==
  /\ Intake!GuessNeverSent /\ Intake!ImageIsReadOrRefused /\ Intake!CompleteIsSentOnce
  /\ Intake!PlaceAgrees /\ Intake!CityOverruledByDistrictOnly
  /\ Audio!NothingAdded /\ Audio!WordsKept /\ Audio!ChunksAdvance /\ Audio!NoProcessLeft

\* The tools tell customer and operator the truth: orders of the same number, none denied by a catalog
\* that failed, all the stock that could be read (call_tools.py:261-289, catalog.py:178-307); no other
\* party runs a tool of this server (operator.py:278-286).
ToolsAreTrue ==
  /\ Tools!OwnOrders /\ Tools!NotDenied /\ Tools!StockComplete /\ Tools!FailureIsUnknown
  /\ Operator!NoServerCallLeaks

\* A conversation is one that model and caller accept: results follow their calls, ids tell the calls
\* apart, the caller's choice holds over every retry, and the excuse comes only after one
\* (operator.py:278-286, openai_compat/router.py:209-314).
ConversationIsValid ==
  /\ Operator!ResultsFollowCalls
  /\ Chat!ChoiceRespected /\ Chat!CallsMatchable /\ Chat!ExcusedAfterRetry

\* Whatever fails or is killed in between: a lock is given back, a server over good workbooks gets
\* its catalog, the operator's turn ends; no automatic answer takes the place of a reviewer's, and
\* the directory of outcomes does not grow.
StoresRecover ==
  /\ LockFreed /\ ReviewerStands
  /\ (part = "import" => Import!Recovers)
  /\ (part = "operator" => Operator!TurnEnds)
  /\ Files!DirectoryIsBounded
=============================================================================
