SPECIFICATION Spec
CONSTANT Issues <- Three
PROPERTIES
  OnlyClicksChoose
  ScreenStaysChoice
