-------------------------------- MODULE PageCatalog --------------------------------
(* All resources of the browser client's pages, and the behaviours ResourcePages has to
   follow for every field of every form and the buttons of every list.               *)
EXTENDS OrganisationPages, PropertyPages, PeoplePages, PayrollConfigPages

Resources ==
  OrganisationResources \cup PropertyResources \cup PeopleResources \cup PayrollConfigResources

CatalogStories == UNION {Stories(res) : res \in Resources}

================================================================================
