------------------------------- MODULE Modifiers -------------------------------
(***************************************************************************)
(* ModifiersService: create, update and remove.                            *)
(***************************************************************************)
EXTENDS MenuStore

Called(word, type) == {i \in LiveMods : mod[i].name = word /\ mod[i].type = type}

\* At most one request about a guarded modifier is in flight.
About(c) == IF call[c].step \in {"mod.check", "mod.patch", "mod.hide", "mod.delete"}
              THEN {call[c].id} \cap Guarded
              ELSE {}
Admitted(i) == \A d \in Callers : i \notin About(d)

ModifierRead(c, word, type, active) ==
  /\ RoomForModifier
  /\ Called(word, type) = {}
  /\ Start(c, [step |-> "mod.insert",
               row |-> [name |-> word, type |-> type, active |-> active, sold |-> FALSE]])
  /\ UNCHANGED tables

ModifierInsert(c) ==
  LET k == call[c] IN
  /\ k.step = "mod.insert"
  /\ \E i \in ModIds : mod[i] = NoRow /\ mod' = [mod EXCEPT ![i] = k.row]
  /\ End(c)
  /\ UNCHANGED <<cat, prod>>

PatchedModifier(row, patch) ==
  [name |-> Given(row.name, patch.name), type |-> Given(row.type, patch.type),
   active |-> Given(row.active, patch.active), sold |-> row.sold]

\* Mutant: a new type alone is not looked up.
ChecksNameOnly(row, patch) ==
  IF patch.name = Absent THEN {FALSE}
  ELSE IF patch.name = row.name /\ patch.type = row.type THEN BOOLEAN
  ELSE {TRUE}

\* Whether the pair to be is looked up: not when the request has neither name nor type,
\* nor when it has exactly those on record.  The same word may be in other letters.
Checks(row, patch) ==
  IF patch.name = Absent /\ patch.type = Absent THEN {FALSE}
  ELSE IF patch.name = row.name /\ patch.type = row.type THEN BOOLEAN
  ELSE {TRUE}

ModifierPatchRead(c, i, patch) ==
  /\ i \in LiveMods
  /\ Admitted(i)
  /\ \E checks \in Checks(mod[i], patch) :
       Start(c, IF checks
                  THEN [step |-> "mod.check", id |-> i, patch |-> patch,
                        name |-> Given(mod[i].name, patch.name),
                        type |-> Given(mod[i].type, patch.type)]
                  ELSE [step |-> "mod.patch", id |-> i, patch |-> patch])
  /\ UNCHANGED tables

\* The pair, put together from the row that was read, must not be another modifier's.
ModifierCheck(c) ==
  LET k == call[c] IN
  /\ k.step = "mod.check"
  /\ call' = [call EXCEPT ![c] =
       IF Called(k.name, k.type) \subseteq {k.id}
         THEN [step |-> "mod.patch", id |-> k.id, patch |-> k.patch]
         ELSE Idle]
  /\ UNCHANGED tables

ModifierPatch(c) ==
  LET k == call[c] IN
  /\ k.step = "mod.patch"
  /\ mod' = IF k.id \in LiveMods THEN [mod EXCEPT ![k.id] = PatchedModifier(@, k.patch)] ELSE mod
  /\ End(c)
  /\ UNCHANGED <<cat, prod>>

\* A modifier on a ticket line is hidden, any other is deleted.
ModifierRemoveRead(c, i) ==
  /\ i \in LiveMods
  /\ Admitted(i)
  /\ Start(c, [step |-> IF mod[i].sold THEN "mod.hide" ELSE "mod.delete", id |-> i])
  /\ UNCHANGED tables

ModifierHide(c) ==
  LET k == call[c] IN
  /\ k.step = "mod.hide"
  /\ mod' = IF k.id \in LiveMods THEN [mod EXCEPT ![k.id].active = FALSE] ELSE mod
  /\ End(c)
  /\ UNCHANGED <<cat, prod>>

ModifierDelete(c) ==
  LET k == call[c] IN
  /\ k.step = "mod.delete"
  /\ mod' = IF k.id \in LiveMods /\ ~mod[k.id].sold
              THEN [mod EXCEPT ![k.id] = GoneRow]
              ELSE mod
  /\ End(c)
  /\ UNCHANGED <<cat, prod>>

\* Tickets are written outside the API.
SellModifier(i) ==
  /\ i \in LiveMods
  /\ mod' = [mod EXCEPT ![i].sold = TRUE]
  /\ UNCHANGED <<cat, prod, call>>

ModifierBegin(c) ==
  \/ \E word \in Words, type \in Types, active \in Flags \cup {TRUE} :
       ModifierRead(c, word, type, active)
  \/ \E i \in ModIds :
       \/ \E patch \in ModPatches : ModifierPatchRead(c, i, patch)
       \/ ModifierRemoveRead(c, i)

ModifierStep(c) ==
  \/ ModifierInsert(c)
  \/ ModifierCheck(c)
  \/ ModifierPatch(c)
  \/ ModifierHide(c)
  \/ ModifierDelete(c)
=============================================================================
