-------------------------------- MODULE PageShapes --------------------------------
(* The shapes a page of the browser client is written in, and what ResourcePages makes of
   them.  A resource is a record of four parts, each read off a file of its own:

     page    what features/<dir>/index.tsx shows: list, the root of its query key, the
             permission behind each button ("none" without the button), how it mounts its
             form and whether closing it forgets the record;
     form    the kind of each field of the form, when it resets its values, what an update
             sends, how a failed save is told;
     api     the hooks of lib/api: the query roots their onSuccess invalidates, whether it
             returns the promise (awaits), whether they silence the toast for errors;
     remove  the delete dialog: the roots it invalidates, whether it waits for them,
             whether it also closes when the request fails (ends) and lets Delete be
             pressed once only (once).                                              *)

\* A page with Add, and Edit and Delete on each row, each behind a permission of its own.
TablePage(root) ==
  [list |-> root,
   add |-> "add", edit |-> "edit", remove |-> "delete", decide |-> "none",
   mounts |-> "keyed", forgets |-> FALSE, refetches |-> FALSE]

\* A form whose update sends every field and whose errors the client's toast tells.
WholeForm(fields) ==
  [fields |-> fields, resets |-> "never", sends |-> "all",
   errors |-> "toast"]

\* The same, with the server's message in the form.
InlineForm(fields) == [WholeForm(fields) EXCEPT !.errors = "inline"]

\* useCreateX, useUpdateX: onSuccess returns invalidateQueries({queryKey: [root]}).
Hooks(root) == [refreshes |-> {root}, awaits |-> TRUE, silent |-> FALSE, verdicts |-> "no"]

\* The dialog most pages copy: onSuccess invalidates without returning the promise.
DeleteDialog(root) == [refreshes |-> {root}, awaits |-> FALSE, ends |-> FALSE, once |-> TRUE]

\* No such button on the page.
NoRemoval == DeleteDialog("none")

--------------------------------------------------------------------------------
(* What ResourcePages does with a field of a resource, and with its rows' buttons. *)

Mount(res) ==
  IF res.page.mounts # "always" THEN res.page.mounts
  ELSE IF res.form.resets = "onOpen" THEN "resetOnOpen"
  ELSE IF res.form.resets = "onRow" THEN "followsRow"
  ELSE "bare"

\* A hook without an onError of its own leaves errors to the client's default toast.
Tells(res) ==
  IF ~res.api.silent \/ res.form.errors = "toast" THEN "always"
  ELSE IF res.form.errors = "inline" THEN "onForm"
  ELSE "never"

\* A field cleared to null is a field cleared to the empty string as far as a list shows.
Kind(k) == IF k = "nulled" THEN "stored" ELSE k

FieldStory(res, f) ==
  [story |-> "form", mount |-> Mount(res),
   forgets |-> res.page.forgets, refetches |-> res.page.refetches,
   adds |-> res.page.add # "none", edits |-> res.page.edit # "none",
   removes |-> FALSE, decides |-> "no",
   sends |-> res.form.sends, tells |-> Tells(res), field |-> Kind(res.form.fields[f]),
   refreshes |-> res.page.list \in res.api.refreshes, awaits |-> res.api.awaits,
   removeRefreshes |-> TRUE, removeAwaits |-> TRUE, removeEnds |-> FALSE, removesOnce |-> TRUE]

ButtonStory(res) ==
  [story |-> "buttons", mount |-> "whileOpen",
   forgets |-> FALSE, refetches |-> res.page.refetches, adds |-> FALSE, edits |-> FALSE,
   removes |-> res.page.remove # "none",
   decides |-> IF res.page.decide = "none" THEN "no" ELSE res.api.verdicts,
   sends |-> "all", tells |-> "always", field |-> "unsent",
   refreshes |-> res.page.list \in res.api.refreshes, awaits |-> res.api.awaits,
   removeRefreshes |-> res.page.list \in res.remove.refreshes,
   removeAwaits |-> res.remove.awaits, removeEnds |-> res.remove.ends,
   removesOnce |-> res.remove.once]

Stories(res) == {FieldStory(res, f) : f \in DOMAIN res.form.fields} \cup {ButtonStory(res)}

================================================================================
