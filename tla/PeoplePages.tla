-------------------------------- MODULE PeoplePages --------------------------------
(* The pages about employees: their records, salaries, projects and tasks, leave policies,
   enrolments and requests, time records and their adjustments.  Beside the kinds of
   OrganisationPages a field can be "filled" (an empty input becomes a default), "rate" (so
   on creation, while an update sends '' and is refused), "seeded" (so on creation, while an
   update stores ''), "fixed" (the form edits it, the server's update does not know it, and
   creation refuses '') or "kept" (the same, but creation takes the empty input).      *)
EXTENDS PageShapes

EmployeesColumns == [edit |-> "edit", remove |-> "edit"]

\* One form instance for all records; Add and Edit ask for the same permission; closing
\* the form and archiving read the list once more.
EmployeesPage ==
  [list |-> "employees",
   add |-> "edit", edit |-> EmployeesColumns.edit, remove |-> EmployeesColumns.remove,
   decide |-> "none", mounts |-> "always", forgets |-> TRUE, refetches |-> TRUE]

EmployeeFields ==
  [employee_code |-> "required", first_name |-> "required", last_name |-> "required",
   birthdate |-> "required",
   middle_name |-> "stored", extension |-> "stored", birth_place |-> "stored",
   gender |-> "stored", civil_status |-> "stored", email |-> "stored", zip_code |-> "stored",
   area |-> "stored", present_barangay |-> "stored", present_city |-> "stored",
   permanent_barangay |-> "stored", permanent_city |-> "stored",
   employee_status |-> "filled", employment_type |-> "stored", telephone |-> "stored",
   cellphone |-> "stored", same_address |-> "required",
   date_hired |-> "nulled", contract_expiry_date |-> "nulled", date_separated |-> "nulled",
   probationary_date |-> "nulled", regularization_date |-> "nulled",
   position_id |-> "nulled", division_id |-> "kept", department_id |-> "kept"]

\* Opening resets the form to the record's values; an update sends what differs from them.
EmployeesForm ==
  [fields |-> EmployeeFields, resets |-> "onOpen", sends |-> "changed", errors |-> "inline"]

EmployeesApi == Hooks("employees")

EmployeesArchive == [DeleteDialog("employees") EXCEPT !.awaits = TRUE]

Employees == [page |-> EmployeesPage, form |-> EmployeesForm, api |-> EmployeesApi,
              remove |-> EmployeesArchive]

--------------------------------------------------------------------------------
\* The list of one employee.  Archive lives in the form itself and is left out.
SalaryPage ==
  [TablePage("salary") EXCEPT
     !.remove = "none", !.mounts = "keyedOpen", !.forgets = TRUE]

SalaryFields ==
  [basic_rate |-> "required", effective_date |-> "required", currency |-> "seeded",
   pay_type |-> "rate", overtime_rate |-> "rate", absent_penalty_rate |-> "rate",
   non_taxable_allowance |-> "rate", thirteenth_month_exempt_portion |-> "rate",
   is_active |-> "required"]

SalaryForm ==
  [InlineForm(SalaryFields) EXCEPT !.sends = "changed"]

\* The key of the employee the saved salary is of.
SalaryApi == Hooks("salary")

Salaries == [page |-> SalaryPage, form |-> SalaryForm, api |-> SalaryApi, remove |-> NoRemoval]

--------------------------------------------------------------------------------
EmployeeProjectsPage == TablePage("employee-projects")

EmployeeProjectsForm ==
  InlineForm([employee_id |-> "fixed", project_id |-> "fixed", date |-> "dropped",
              rendered_hours |-> "dropped", task |-> "stored", is_assigned |-> "dropped"])

EmployeeProjectsApi == Hooks("employee-projects")

EmployeeProjectsDelete == DeleteDialog("employee-projects")

EmployeeProjects == [page |-> EmployeeProjectsPage, form |-> EmployeeProjectsForm,
                     api |-> EmployeeProjectsApi, remove |-> EmployeeProjectsDelete]

--------------------------------------------------------------------------------
EmpTasksPage == TablePage("emp-tasks")

EmpTasksForm ==
  InlineForm([emp_project_id |-> "fixed", task_desc |-> "stored", rendered_hours |-> "dropped",
              assigned_hours |-> "dropped", date |-> "dropped", approved |-> "dropped",
              is_adjusted |-> "dropped"])

EmpTasksApi == Hooks("emp-tasks")

EmpTasksDelete == DeleteDialog("emp-tasks")

EmpTasks == [page |-> EmpTasksPage, form |-> EmpTasksForm, api |-> EmpTasksApi,
             remove |-> EmpTasksDelete]

--------------------------------------------------------------------------------
\* The dialog gets no pending flag, so Delete can be pressed again; it closes in a finally.
LeavePolicyArchive ==
  [DeleteDialog("leave-policies") EXCEPT !.awaits = TRUE, !.ends = TRUE, !.once = FALSE]

LeavePoliciesPage ==
  [TablePage("leave-policies") EXCEPT !.mounts = "always", !.forgets = TRUE]

PolicyFields ==
  [code |-> "required", name |-> "required", description |-> "dropped",
   calendar_color |-> "dropped", cadence |-> "filled", annual_entitlement_days |-> "dropped",
   carry_over_max_days |-> "dropped", carry_over_expires_on |-> "dropped",
   prorate_on_hire |-> "required", carry_over_enabled |-> "required", is_paid |-> "required",
   is_active |-> "required", gender_scope |-> "filled", marital_status_scope |-> "filled"]

PolicyForm ==
  [InlineForm(PolicyFields) EXCEPT !.resets = "onOpen", !.sends = "changed"]

LeavePoliciesApi == Hooks("leave-policies")

LeavePolicies == [page |-> LeavePoliciesPage, form |-> PolicyForm, api |-> LeavePoliciesApi,
                  remove |-> LeavePolicyArchive]

--------------------------------------------------------------------------------
\* The list of one employee and year.
LeaveEnrollmentPage ==
  [TablePage("leave-enrollment") EXCEPT
     !.edit = "none", !.remove = "none", !.mounts = "keyedOpen"]

\* Enroll does nothing until an employee and a policy are chosen.
EnrollmentDialog ==
  WholeForm([policy_id |-> "required", employee_id |-> "required", leave_year |-> "required"])

LeaveEnrollmentApi == Hooks("leave-enrollment")

LeaveEnrollments == [page |-> LeaveEnrollmentPage, form |-> EnrollmentDialog,
                     api |-> LeaveEnrollmentApi, remove |-> NoRemoval]

--------------------------------------------------------------------------------
\* Approve, Reject and Cancel on the rows; New Leave Request needs no permission but view.
LeaveRequestsPage ==
  [TablePage("leave-requests") EXCEPT
     !.add = "view", !.edit = "none", !.remove = "none", !.decide = "approve",
     !.mounts = "whileOpen"]

LeaveRequestForm ==
  InlineForm([employee_id |-> "required", policy_id |-> "required", date_start |-> "required",
              date_end |-> "required", requested_hours |-> "dropped", reason |-> "stored",
              document_ref |-> "stored"])

LeaveRequestsApi == [Hooks("leave-requests") EXCEPT !.verdicts = "leave"]

LeaveRequestList == [page |-> LeaveRequestsPage, form |-> LeaveRequestForm,
                     api |-> LeaveRequestsApi, remove |-> NoRemoval]

--------------------------------------------------------------------------------
DtrAdjustmentsPage ==
  [TablePage("dtr-adjustments") EXCEPT
     !.add = "edit", !.edit = "none", !.remove = "none", !.decide = "edit",
     !.mounts = "whileOpen"]

DtrAdjustmentForm ==
  InlineForm([daily_time_record_id |-> "required", adjusted_date |-> "dropped",
              adjusted_login_date |-> "required", adjusted_logout_date |-> "required",
              reason |-> "stored"])

DtrAdjustmentsApi == [Hooks("dtr-adjustments") EXCEPT !.verdicts = "adjustment"]

DtrAdjustments == [page |-> DtrAdjustmentsPage, form |-> DtrAdjustmentForm,
                   api |-> DtrAdjustmentsApi, remove |-> NoRemoval]

--------------------------------------------------------------------------------
\* Records come from the import wizard; the form mounts for the record under edit.
DailyTimeRecordsPage ==
  [TablePage("daily-time-records") EXCEPT
     !.add = "none", !.decide = "edit", !.mounts = "whileOpen", !.forgets = TRUE]

DailyTimeRecordForm == InlineForm([login_date |-> "required", logout_date |-> "required"])

\* Overtime is a flag that the next approval or rejection overwrites.
DailyTimeRecordsApi == [Hooks("daily-time-records") EXCEPT !.verdicts = "overtime"]

DailyTimeRecordsDelete == [DeleteDialog("daily-time-records") EXCEPT !.awaits = TRUE]

DailyTimeRecords == [page |-> DailyTimeRecordsPage, form |-> DailyTimeRecordForm,
                     api |-> DailyTimeRecordsApi, remove |-> DailyTimeRecordsDelete]

--------------------------------------------------------------------------------
PeopleResources ==
  {Employees, Salaries, EmployeeProjects, EmpTasks, LeavePolicies, LeaveEnrollments,
   LeaveRequestList, DtrAdjustments, DailyTimeRecords}

================================================================================
