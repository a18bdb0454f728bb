---------------------------- MODULE PayrollConfigPages ----------------------------
(* The tables of the payroll's contributions and taxes: SSS, PhilHealth, Pag-IBIG and BIR.
   The four lists share the root "payroll-config" of their query keys, so a save on one
   page marks them all; their create and update hooks silence the default toast.        *)
EXTENDS PageShapes

ConfigHooks == [Hooks("payroll-config") EXCEPT !.silent = TRUE]

ConfigPage == [TablePage("payroll-config") EXCEPT !.forgets = TRUE]

\* The delete hooks are awaited and leave errors to the default toast.
ConfigDelete == [DeleteDialog("payroll-config") EXCEPT !.awaits = TRUE]

SSSConfigPage == ConfigPage

\* z.coerce.number makes 0 of an empty input.
SSSFields ==
  [msc_min |-> "filled", msc_max |-> "filled", employer_ss |-> "filled",
   employer_ec |-> "filled", employer_mpf |-> "filled", employee_ss |-> "filled",
   employee_mpf |-> "filled", effective_date |-> "required"]

\* Slip: the catch block only logs.
SSSResourceFormMute == [WholeForm(SSSFields) EXCEPT !.errors = "swallowed"]

SSSResourceForm == InlineForm(SSSFields)

SSSApi == ConfigHooks

SSSDelete == ConfigDelete

SSSConfig == [page |-> SSSConfigPage, form |-> SSSResourceForm, api |-> SSSApi,
              remove |-> SSSDelete]

--------------------------------------------------------------------------------
PhilHealthConfigPage == ConfigPage

PhilHealthResourceForm ==
  InlineForm([salary_min |-> "filled", salary_max |-> "filled", rate |-> "filled",
              employer_share |-> "filled", employee_share |-> "filled",
              effective_date |-> "required"])

PhilHealthApi == ConfigHooks

PhilHealthDelete == ConfigDelete

PhilHealthConfig == [page |-> PhilHealthConfigPage, form |-> PhilHealthResourceForm,
                     api |-> PhilHealthApi, remove |-> PhilHealthDelete]

--------------------------------------------------------------------------------
PagIBIGConfigPage == ConfigPage

PagIBIGResourceForm ==
  InlineForm([salary_min |-> "filled", salary_max |-> "filled", employee_rate |-> "filled",
              employer_rate |-> "filled", effective_date |-> "required"])

PagIBIGApi == ConfigHooks

PagIBIGDelete == ConfigDelete

PagIBIGConfig == [page |-> PagIBIGConfigPage, form |-> PagIBIGResourceForm,
                  api |-> PagIBIGApi, remove |-> PagIBIGDelete]

--------------------------------------------------------------------------------
BIRConfigPage == ConfigPage

\* An empty upper end of a bracket is null, no upper limit.
BIRResourceForm ==
  InlineForm([period |-> "required", bracket_min |-> "filled", bracket_max |-> "nulled",
              base_tax |-> "filled", excess_rate |-> "filled", effective_date |-> "required"])

BIRApi == ConfigHooks

BIRDelete == ConfigDelete

BIRConfig == [page |-> BIRConfigPage, form |-> BIRResourceForm, api |-> BIRApi,
              remove |-> BIRDelete]

--------------------------------------------------------------------------------
PayrollConfigResources == {SSSConfig, PhilHealthConfig, PagIBIGConfig, BIRConfig}

================================================================================
