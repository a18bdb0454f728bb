---------------------------- MODULE OrganisationPages ----------------------------
(* The pages of the organisation: divisions, departments, positions, shifts, holidays and
   roles.  A field's kind says what becomes of an empty input: "required" (the resolver
   stops it, or the input is a choice that always has a value), "refused" (the server's
   schema wants at least one character, or an id), "stored", "nulled", "dropped" (left out
   of the request), "once" (required, and disabled once the record exists).         *)
EXTENDS PageShapes

DivisionsPage == TablePage("divisions")

DivisionsForm ==
  WholeForm([code |-> "refused", name |-> "refused", description |-> "stored"])

DivisionsApi == Hooks("divisions")

DivisionsDelete == DeleteDialog("divisions")

Divisions == [page |-> DivisionsPage, form |-> DivisionsForm, api |-> DivisionsApi,
              remove |-> DivisionsDelete]

--------------------------------------------------------------------------------
DepartmentsPage == TablePage("departments")

DepartmentsForm ==
  WholeForm([division_id |-> "required", code |-> "refused", name |-> "refused",
             description |-> "stored"])

DepartmentsApi == Hooks("departments")

DepartmentsDelete == DeleteDialog("departments")

Departments == [page |-> DepartmentsPage, form |-> DepartmentsForm, api |-> DepartmentsApi,
                remove |-> DepartmentsDelete]

--------------------------------------------------------------------------------
PositionsPage == TablePage("positions")

PositionsForm ==
  WholeForm([department_id |-> "dropped", code |-> "refused", title |-> "refused",
             description |-> "stored"])

PositionsApi == Hooks("positions")

PositionsDelete == DeleteDialog("positions")

Positions == [page |-> PositionsPage, form |-> PositionsForm, api |-> PositionsApi,
              remove |-> PositionsDelete]

--------------------------------------------------------------------------------
ShiftsPage == TablePage("shifts")

ShiftsForm ==
  WholeForm([code |-> "stored", name |-> "stored", start_time |-> "stored",
             end_time |-> "stored", description |-> "stored"])

ShiftsApi == Hooks("shifts")

ShiftsDelete == DeleteDialog("shifts")

Shifts == [page |-> ShiftsPage, form |-> ShiftsForm, api |-> ShiftsApi, remove |-> ShiftsDelete]

--------------------------------------------------------------------------------
HolidaysPage == TablePage("holiday-configs")

HolidaysForm ==
  WholeForm([code |-> "required", name |-> "required", month_day |-> "required",
             type |-> "required", region_code |-> "stored", is_recurring |-> "required"])

\* The block bodies of onSuccess return nothing: the save does not wait for the list.  Nor
\* does it invalidate the instances of a year.
HolidaysApi == [Hooks("holiday-configs") EXCEPT !.awaits = FALSE]

HolidaysDelete == DeleteDialog("holiday-configs")

Holidays == [page |-> HolidaysPage, form |-> HolidaysForm, api |-> HolidaysApi,
             remove |-> HolidaysDelete]

--------------------------------------------------------------------------------
\* The page keeps the id of the role it edits and looks the role up in each list it reads;
\* Deactivate waits for the list, and its dialog closes on success.
RolesPage ==
  [TablePage("roles") EXCEPT !.mounts = "always"]

RoleForm ==
  [WholeForm([code |-> "once", name |-> "required"]) EXCEPT !.resets = "onRow"]

RolesApi == Hooks("roles")

RoleDeactivation == [DeleteDialog("roles") EXCEPT !.awaits = TRUE]

Roles == [page |-> RolesPage, form |-> RoleForm, api |-> RolesApi, remove |-> RoleDeactivation]

--------------------------------------------------------------------------------
OrganisationResources == {Divisions, Departments, Positions, Shifts, Holidays, Roles}

================================================================================
