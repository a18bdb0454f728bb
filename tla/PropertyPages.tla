------------------------------ MODULE PropertyPages ------------------------------
(* The pages of the real-estate projects: subdivisions, their phases, blocks and lots, house
   models and their types, owners, project types, projects and categories.  The kinds of
   fields are those of OrganisationPages.                                          *)
EXTENDS PageShapes

SubdivisionsPage == TablePage("subdivisions")

SubdivisionsForm ==
  WholeForm([subdivision_code |-> "refused", name |-> "refused", location |-> "refused",
             description |-> "stored"])

SubdivisionsApi == Hooks("subdivisions")

SubdivisionsDelete == DeleteDialog("subdivisions")

Subdivisions == [page |-> SubdivisionsPage, form |-> SubdivisionsForm,
                 api |-> SubdivisionsApi, remove |-> SubdivisionsDelete]

--------------------------------------------------------------------------------
PhasesPage == TablePage("phases")

PhasesForm ==
  InlineForm([subdivision_id |-> "required", code |-> "refused", name |-> "refused"])

PhasesApi == Hooks("phases")

PhasesDelete == DeleteDialog("phases")

Phases == [page |-> PhasesPage, form |-> PhasesForm, api |-> PhasesApi, remove |-> PhasesDelete]

--------------------------------------------------------------------------------
BlocksPage == TablePage("blocks")

BlocksForm == InlineForm([phase_id |-> "required", name |-> "refused"])

BlocksApi == Hooks("blocks")

\* Slip: the key of another page.
BlocksDeleteCopied == DeleteDialog("phases")

BlocksDelete == DeleteDialog("blocks")

Blocks == [page |-> BlocksPage, form |-> BlocksForm, api |-> BlocksApi, remove |-> BlocksDelete]

--------------------------------------------------------------------------------
LotsPage == TablePage("lots")

LotsForm ==
  InlineForm([blocks_id |-> "required", lot_number |-> "nulled", lot_num |-> "nulled"])

\* Slip: the key of the parent page, as copied from its hooks.
LotsApiCopied == Hooks("blocks")

LotsApi == Hooks("lots")

LotsDelete == DeleteDialog("lots")

Lots == [page |-> LotsPage, form |-> LotsForm, api |-> LotsApi, remove |-> LotsDelete]

--------------------------------------------------------------------------------
ModelTypesPage == TablePage("model-types")

ModelTypesForm ==
  WholeForm([code |-> "refused", name |-> "stored", additional_options |-> "stored"])

ModelTypesApi == Hooks("model-types")

ModelTypesDelete == DeleteDialog("model-types")

ModelTypes == [page |-> ModelTypesPage, form |-> ModelTypesForm, api |-> ModelTypesApi,
               remove |-> ModelTypesDelete]

--------------------------------------------------------------------------------
ModelsPage == TablePage("models")

ModelsForm == InlineForm([name |-> "required", model_type_id |-> "nulled"])

ModelsApi == Hooks("models")

ModelsDelete == DeleteDialog("models")

Models == [page |-> ModelsPage, form |-> ModelsForm, api |-> ModelsApi, remove |-> ModelsDelete]

--------------------------------------------------------------------------------
OwnersPage == TablePage("owners")

OwnersForm == WholeForm([name |-> "stored", email |-> "stored", phone |-> "stored"])

OwnersApi == Hooks("owners")

OwnersDelete == DeleteDialog("owners")

Owners == [page |-> OwnersPage, form |-> OwnersForm, api |-> OwnersApi, remove |-> OwnersDelete]

--------------------------------------------------------------------------------
ProjectTypesPage == TablePage("project-types")

ProjectTypesForm ==
  WholeForm([code |-> "refused", name |-> "refused", description |-> "stored"])

ProjectTypesApi == Hooks("project-types")

ProjectTypesDelete == DeleteDialog("project-types")

ProjectTypes == [page |-> ProjectTypesPage, form |-> ProjectTypesForm,
                 api |-> ProjectTypesApi, remove |-> ProjectTypesDelete]

--------------------------------------------------------------------------------
ProjectsPage == TablePage("projects")

\* Clearing the type leaves it out of the request, clearing the subdivision sends ''.
ProjectsForm ==
  WholeForm([project_type_id |-> "dropped", code |-> "refused", name |-> "refused",
             description |-> "stored", subdivision_id |-> "refused"])

ProjectsApi == Hooks("projects")

ProjectsDelete == DeleteDialog("projects")

Projects == [page |-> ProjectsPage, form |-> ProjectsForm, api |-> ProjectsApi,
             remove |-> ProjectsDelete]

--------------------------------------------------------------------------------
CategoriesPage == [TablePage("categories") EXCEPT !.mounts = "whileOpen"]

CategoriesForm ==
  InlineForm([code |-> "required", description |-> "stored", project_id |-> "required",
              phase_id |-> "required", blocks_id |-> "nulled", lot_id |-> "nulled",
              model_id |-> "nulled", owner_id |-> "nulled", location |-> "stored",
              is_overhead |-> "required"])

CategoriesApi == Hooks("categories")

CategoriesDelete == DeleteDialog("categories")

Categories == [page |-> CategoriesPage, form |-> CategoriesForm, api |-> CategoriesApi,
               remove |-> CategoriesDelete]

--------------------------------------------------------------------------------
PropertyResources ==
  {Subdivisions, Phases, Blocks, Lots, ModelTypes, Models, Owners, ProjectTypes, Projects,
   Categories}

================================================================================
