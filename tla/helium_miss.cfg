\* A load without privilege on a page that its line of the tlb is missing for.
SPECIFICATION PromiseSpec
CONSTANT Programs <- Missing
PROPERTIES PermissionByTable
